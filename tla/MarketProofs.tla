---------------------------- MODULE MarketProofs ----------------------------
(***************************************************************************)
(* Theorems about Market, for every value of its constants.                *)
(*                                                                         *)
(* The argument: the value of the pool (coins and loans less reserves)     *)
(* always covers the whole aTerra supply at the exchange rate last         *)
(* published (RateBacked).  Interest only adds to it; the yield moved to   *)
(* reserves is bounded by what the pool gained over that rate              *)
(* (ExcessBound); mints, redemptions and transfers round in the pool's     *)
(* favour (ArithmeticProofs).                                              *)
(***************************************************************************)
EXTENDS Market, ArithmeticProofs

(***************************************************************************)
(* The operators of interest accrual                                       *)
(***************************************************************************)
\* The exchange rate is the greatest at which the pool covers the supply.
LEMMA RateGreatest ==
  ASSUME NEW st \in MarketState, NEW supply \in Nat, NEW balance \in Nat, supply > 0
  PROVE  LET rate == compute_exchange_rate_raw(st, supply, balance)
         IN  /\ pool_value(st, balance) \in Int
             /\ rate \in Int
             /\ rate * supply <= pool_value(st, balance)
             /\ \A k \in Int : k * supply <= pool_value(st, balance) => k <= rate
<1> DEFINE value == pool_value(st, balance)
           rate  == compute_exchange_rate_raw(st, supply, balance)
<1>1. value \in Int
  BY ScaleAssumption, SMT DEF pool_value, FromUint, MarketState
<1> HIDE DEF value
<1>2. rate = (value * Scale) \div (supply * Scale)
  BY DEF compute_exchange_rate_raw, DecDiv, FromUint, value
<1> HIDE DEF rate
<1>3. rate = value \div supply
  BY <1>1, <1>2, ScaleAssumption, DivCommonFactor
<1>4. rate \in Int /\ supply * rate <= value
  BY <1>1, <1>3, DivInt
<1>5. \A k \in Int : k * supply <= value => k <= rate
  BY <1>1, <1>3, DivGreatest
<1>6. rate * supply <= value
  BY <1>1, <1>4, SMT
<1> QED
  BY <1>1, <1>4, <1>5, <1>6 DEF value, rate

\* Charging interest adds to the loans and changes nothing else of the pool.
LEMMA ChargeGrows ==
  ASSUME NEW st \in MarketState, NEW at \in Nat, NEW rate \in Nat,
         NEW balance \in Nat, st.last_interest_updated < at
  PROVE  LET charged == charge_interest(st, at, rate)
         IN  /\ charged \in MarketState
             /\ charged.total_liabilities >= st.total_liabilities
             /\ pool_value(charged, balance) >= pool_value(st, balance)
             /\ charged.total_reserves = st.total_reserves
             /\ charged.last_interest_updated = st.last_interest_updated
             /\ charged.last_reward_updated = st.last_reward_updated
             /\ charged.prev_aterra_supply = st.prev_aterra_supply
             /\ charged.prev_exchange_rate = st.prev_exchange_rate
             /\ charged.global_reward_index = st.global_reward_index
             /\ charged.anc_emission_rate = st.anc_emission_rate
             /\ charged.global_interest_index >= st.global_interest_index
             /\ st.total_liabilities = 0 => charged.total_liabilities = 0
<1> DEFINE passed == FromUint(at - st.last_interest_updated)
           factor == DecMul(passed, rate)
           charged == charge_interest(st, at, rate)
           index == DecMul(st.global_interest_index, One + factor)
           interest == DecMul(st.total_liabilities, factor)
<1>1. passed \in Nat
  BY ScaleAssumption, SMT DEF FromUint, MarketState
<1>2. factor \in Nat
  BY <1>1, DecMulNat
<1> HIDE DEF passed, factor
<1>3. index \in Nat /\ interest \in Nat
  <2>1. One + factor \in Nat
    BY <1>2, ScaleAssumption, SMT DEF One
  <2>2. st.global_interest_index \in Nat /\ st.total_liabilities \in Nat
    BY DEF MarketState
  <2> QED
    BY <2>1, <2>2, <1>2, DecMulNat
<1>4. index >= st.global_interest_index
  <2>1. st.global_interest_index \in Nat
    BY DEF MarketState
  <2>2. st.global_interest_index * Scale <= st.global_interest_index * (One + factor)
    BY <2>1, <1>2, ScaleAssumption, SMT DEF One
  <2> DEFINE product == st.global_interest_index * (One + factor)
  <2>3. product \in Nat
    BY <2>1, <1>2, ScaleAssumption, SMT DEF One
  <2>4. index = product \div Scale
    BY DEF DecMul
  <2> HIDE DEF product
  <2>5. st.global_interest_index * Scale <= product
    BY <2>2 DEF product
  <2> HIDE DEF index
  <2> QED
    BY <2>1, <2>3, <2>4, <2>5, ScaleAssumption, DivGreatest
<1> DEFINE indexed == [st EXCEPT !.global_interest_index = index]
<1>5. charged = [indexed EXCEPT !.total_liabilities = st.total_liabilities + interest]
  BY DEF charge_interest, passed, factor
<1> HIDE DEF index, interest, charged
<1>6. /\ indexed \in MarketState
      /\ indexed.global_interest_index = index
      /\ indexed.total_reserves = st.total_reserves
      /\ indexed.last_interest_updated = st.last_interest_updated
      /\ indexed.last_reward_updated = st.last_reward_updated
      /\ indexed.prev_aterra_supply = st.prev_aterra_supply
      /\ indexed.prev_exchange_rate = st.prev_exchange_rate
      /\ indexed.global_reward_index = st.global_reward_index
      /\ indexed.anc_emission_rate = st.anc_emission_rate
  BY <1>3, SMT DEF MarketState
<1> HIDE DEF indexed
<1>7. /\ charged \in MarketState
      /\ charged.global_interest_index = index
      /\ charged.total_liabilities = st.total_liabilities + interest
      /\ charged.total_reserves = st.total_reserves
      /\ charged.last_interest_updated = st.last_interest_updated
      /\ charged.last_reward_updated = st.last_reward_updated
      /\ charged.prev_aterra_supply = st.prev_aterra_supply
      /\ charged.prev_exchange_rate = st.prev_exchange_rate
      /\ charged.global_reward_index = st.global_reward_index
      /\ charged.anc_emission_rate = st.anc_emission_rate
  BY <1>3, <1>5, <1>6, SMT DEF MarketState
<1>8. pool_value(charged, balance) >= pool_value(st, balance)
  BY <1>3, <1>7, ScaleAssumption, SMT DEF MarketState, pool_value, FromUint
<1>9. charged.total_liabilities >= st.total_liabilities
  BY <1>3, <1>7, SMT DEF MarketState
<1>10. st.total_liabilities = 0 => charged.total_liabilities = 0
  <2>1. DecMul(0, factor) = 0
    BY <1>2, ScaleAssumption, SMT DEF DecMul
  <2> QED
    BY <2>1, <1>3, <1>7, SMT DEF interest
<1> QED
  BY <1>4, <1>7, <1>8, <1>9, <1>10 DEF charged

\* The yield that goes to reserves is a natural number.
LEMMA ExcessNat ==
  ASSUME NEW st \in MarketState, NEW at \in Nat, NEW supply \in Nat,
         NEW balance \in Nat, NEW target \in Nat,
         supply > 0, st.last_interest_updated < at,
         st.prev_exchange_rate > 0,
         effective_deposit_rate(st, supply, balance) >= One
  PROVE  excess_yield(st, at, supply, balance, target) \in Nat
<1> DEFINE rate == compute_exchange_rate_raw(st, supply, balance)
           prev  == st.prev_exchange_rate
           eff   == effective_deposit_rate(st, supply, balance)
           p     == at - st.last_interest_updated
           deposit_rate == DecDiv(eff - One, FromUint(p))
           whole == UintMulDec(st.prev_aterra_supply, prev)
           yield == excess_yield(st, at, supply, balance, target)
<1>1. prev \in Nat /\ prev > 0 /\ st.prev_aterra_supply \in Nat /\ p \in Nat /\ p > 0
  BY SMT DEF MarketState
<1>2. rate \in Int
  BY RateGreatest
<1>3. eff = (rate * Scale) \div prev
  BY DEF effective_deposit_rate, DecDiv
<1>4. yield = IF deposit_rate > target
              THEN DecMul(DecMul(FromUint(whole), FromUint(p)), deposit_rate - target)
              ELSE 0
  BY DEF excess_yield
<1>5. eff >= One
  OBVIOUS
<1> HIDE DEF rate, eff, yield
<1>6. eff - One \in Nat
  <2>1. rate * Scale \in Int
    BY <1>2, ScaleAssumption, SMT
  <2>2. eff \in Int
    BY <1>1, <1>3, <2>1, DivInt
  <2> QED
    BY <1>5, <2>2, ScaleAssumption, SMT DEF One
<1>7. whole \in Nat
  BY <1>1, UintMulDecBound
<1>8. FromUint(whole) \in Nat /\ FromUint(p) \in Nat /\ FromUint(p) > 0
  BY <1>1, <1>7, ScaleAssumption, SMT DEF FromUint
<1>9. deposit_rate \in Nat
  BY <1>6, <1>8, DecDivNat
<1> HIDE DEF deposit_rate, whole
<1>10. CASE deposit_rate > target
  <2>1. deposit_rate - target \in Nat
    BY <1>9, <1>10, SMT
  <2>2. DecMul(FromUint(whole), FromUint(p)) \in Nat
    BY <1>8, DecMulNat
  <2> QED
    BY <1>4, <1>10, <2>1, <2>2, DecMulNat DEF yield
<1>11. CASE ~(deposit_rate > target)
  BY <1>4, <1>11 DEF yield
<1> QED
  BY <1>10, <1>11

\* At or above the published rate, the yield that goes to reserves is at most
\* what the pool holds beyond that rate, and its computation does not panic.
LEMMA ExcessBound ==
  ASSUME NEW st \in MarketState, NEW at \in Nat, NEW supply \in Nat,
         NEW balance \in Nat, NEW target \in Nat,
         supply > 0, st.last_interest_updated < at,
         st.prev_exchange_rate > 0,
         st.prev_aterra_supply <= supply,
         st.prev_exchange_rate * supply <= pool_value(st, balance)
  PROVE  LET yield == excess_yield(st, at, supply, balance, target)
         IN  /\ effective_deposit_rate(st, supply, balance) >= One
             /\ yield \in Nat
             /\ st.prev_exchange_rate * supply <= pool_value(st, balance) - yield
<1> DEFINE value == pool_value(st, balance)
           prev  == st.prev_exchange_rate
           held  == st.prev_aterra_supply
           rate  == compute_exchange_rate_raw(st, supply, balance)
           eff   == effective_deposit_rate(st, supply, balance)
           gain  == eff - One
           p     == at - st.last_interest_updated
           deposit_rate == DecDiv(gain, FromUint(p))
           whole == UintMulDec(held, prev)
           yield == excess_yield(st, at, supply, balance, target)
<1>1. /\ prev \in Nat /\ prev > 0 /\ held \in Nat
      /\ p \in Nat /\ p > 0
  BY SMT DEF MarketState
<1>2. /\ value \in Int /\ rate \in Int /\ rate * supply <= value /\ prev <= rate
  BY RateGreatest, <1>1
<1>3. eff = (rate * Scale) \div prev
  BY DEF effective_deposit_rate, DecDiv
<1>4. yield = IF deposit_rate > target
              THEN DecMul(DecMul(FromUint(whole), FromUint(p)), deposit_rate - target)
              ELSE 0
  BY DEF excess_yield
<1> HIDE DEF rate, eff, yield
<1>5. eff \in Int /\ eff >= Scale /\ eff * prev <= rate * Scale
  <2>1. Scale * prev <= rate * Scale
    BY <1>1, <1>2, ScaleAssumption, SMT
  <2>2. rate * Scale \in Int
    BY <1>2, ScaleAssumption, SMT
  <2>3. eff \in Int /\ prev * eff <= rate * Scale
    BY <1>1, <1>3, <2>2, DivInt
  <2>4. Scale <= eff
    BY <1>1, <1>3, <2>1, <2>2, DivGreatest, ScaleAssumption
  <2> QED
    BY <1>1, <2>3, <2>4, ScaleAssumption, SMT
<1>6. gain \in Nat /\ gain * prev <= (rate - prev) * Scale
  <2>1. gain \in Nat
    BY <1>5, ScaleAssumption, SMT DEF One
  <2>2. gain * prev = eff * prev - Scale * prev
    BY <1>1, <1>5, ScaleAssumption, SMT DEF One
  <2>3. (rate - prev) * Scale = rate * Scale - Scale * prev
    BY <1>1, <1>2, ScaleAssumption, SMT
  <2> QED
    BY <1>1, <1>2, <1>5, <2>1, <2>2, <2>3, ScaleAssumption, SMT
<1> HIDE DEF gain
<1>7. deposit_rate \in Nat /\ deposit_rate * p <= gain
  <2>1. deposit_rate = gain \div p
    BY <1>1, <1>6, ScaleAssumption, DivCommonFactor DEF DecDiv, FromUint
  <2>2. deposit_rate \in Nat /\ p * deposit_rate <= gain
    BY <1>1, <1>6, <2>1, DivNat, DivInt
  <2> QED
    BY <1>1, <2>2, SMT
<1>8. whole \in Nat /\ whole * Scale <= held * prev
  BY <1>1, UintMulDecBound
<1> HIDE DEF deposit_rate, whole, p, value, prev, held
<1>9. yield \in Nat /\ yield <= whole * gain
  <2>1. CASE deposit_rate > target
    <3> DEFINE excess == deposit_rate - target
    <3>1. excess \in Nat /\ excess <= deposit_rate
      BY <1>7, <2>1, SMT
    <3> HIDE DEF excess
    <3>2. FromUint(whole) \in Int /\ FromUint(whole) = whole * Scale
      BY <1>8, ScaleAssumption, SMT DEF FromUint
    <3>3. DecMul(FromUint(whole), FromUint(p)) = (whole * Scale) * p
      BY <1>1, <3>2, DecMulWhole
    <3>4. yield = (((whole * Scale) * p) * excess) \div Scale
      BY <1>4, <2>1, <3>3 DEF DecMul, excess
    <3>5. ((whole * Scale) * p) * excess = ((whole * p) * excess) * Scale
      BY <1>1, <1>8, <3>1, ScaleAssumption, SMT
    <3>6. (whole * p) * excess \in Nat
      BY <1>1, <1>8, <3>1, SMT
    <3>7. yield = (whole * p) * excess
      <4>1. yield = (((whole * p) * excess) * Scale) \div (1 * Scale)
        BY <3>4, <3>5, ScaleAssumption, SMT
      <4>2. yield = ((whole * p) * excess) \div 1
        BY <4>1, <3>6, ScaleAssumption, DivCommonFactor
      <4> QED
        BY <4>2, <3>6, SMT
    <3>8. p * excess <= gain
      <4>1. excess * p <= deposit_rate * p
        BY <1>1, <1>7, <3>1, MulMono
      <4> QED
        BY <4>1, <1>1, <1>6, <1>7, <3>1, SMT
    <3>9. (p * excess) * whole <= gain * whole
      BY <1>1, <1>6, <1>8, <3>1, <3>8, MulMono, SMT
    <3> QED
      BY <3>6, <3>7, <3>9, <1>1, <1>6, <1>8, <3>1, SMT
  <2>2. CASE ~(deposit_rate > target)
    BY <2>2, <1>4, <1>6, <1>8, SMT
  <2> QED
    BY <2>1, <2>2
<1>10. yield <= supply * (rate - prev)
  <2>1. (whole * gain) * Scale <= (held * (rate - prev)) * Scale
    <3>1. (whole * Scale) * gain <= (held * prev) * gain
      BY <1>1, <1>6, <1>8, ScaleAssumption, MulMono, SMT
    <3>2. (gain * prev) * held <= ((rate - prev) * Scale) * held
      BY <1>1, <1>2, <1>6, ScaleAssumption, MulMono, SMT
    <3> QED
      BY <3>1, <3>2, <1>1, <1>2, <1>6, <1>8, ScaleAssumption, SMT
  <2>2. whole * gain <= held * (rate - prev)
    BY <2>1, <1>1, <1>2, <1>6, <1>8, ScaleAssumption, MulCancel, SMT
  <2>3. held * (rate - prev) <= supply * (rate - prev)
    BY <1>1, <1>2, MulMono, SMT DEF held
  <2> QED
    BY <1>1, <1>2, <1>6, <1>8, <1>9, <2>2, <2>3, SMT
<1>11. prev * supply <= value - yield
  BY <1>1, <1>2, <1>9, <1>10, SMT
<1> QED
  BY <1>5, <1>9, <1>11, ScaleAssumption, SMT DEF One, value, prev, eff, yield

(***************************************************************************)
(* Accrual as a whole                                                      *)
(***************************************************************************)
\* RateBacked, of any state.
Backed(st, supply, balance) ==
    st.prev_exchange_rate * supply <= pool_value(st, balance)

\* What accrual at a height makes of a state.
AccruedFrom(st, at, balance, supply, r) ==
    /\ r \in MarketState
    /\ Backed(r, supply, balance)
    /\ st.prev_aterra_supply <= supply =>
         r.prev_exchange_rate >= st.prev_exchange_rate
    /\ r.global_interest_index >= st.global_interest_index
    /\ r.global_reward_index = st.global_reward_index
    /\ r.last_reward_updated = st.last_reward_updated
    /\ r.anc_emission_rate = st.anc_emission_rate
    /\ r.last_interest_updated =
         IF st.last_interest_updated < at THEN at ELSE st.last_interest_updated
    /\ r.prev_aterra_supply =
         IF st.last_interest_updated < at THEN supply ELSE st.prev_aterra_supply

\* As long as no aTerra that prev_aterra_supply counts has been burned, accrual
\* does not panic, whatever the target rate.
LEMMA AccrualComputes ==
  ASSUME NEW st \in MarketState, NEW at \in Nat, NEW balance \in Nat,
         NEW supply \in Nat, NEW rate \in Nat, NEW target \in Nat,
         supply > 0, Backed(st, supply, balance),
         st.prev_exchange_rate > 0, st.prev_aterra_supply <= supply
  PROVE  interest_computable(st, at, balance, supply, rate, target)
<1> DEFINE c == charge_interest(st, at, rate)
           yield == excess_yield(c, at, supply, balance, target)
<1> SUFFICES ASSUME st.last_interest_updated < at
             PROVE  interest_computable(st, at, balance, supply, rate, target)
  BY DEF interest_computable
<1>1. /\ c \in MarketState
      /\ pool_value(c, balance) >= pool_value(st, balance)
      /\ c.prev_aterra_supply = st.prev_aterra_supply
      /\ c.prev_exchange_rate = st.prev_exchange_rate
      /\ c.last_interest_updated = st.last_interest_updated
  BY ChargeGrows
<1> HIDE DEF c
<1>2. /\ st.prev_exchange_rate \in Nat
      /\ pool_value(st, balance) \in Int /\ pool_value(c, balance) \in Int
      /\ st.prev_exchange_rate * supply \in Nat
  BY <1>1, RateGreatest, SMT DEF MarketState
<1>3. c.prev_exchange_rate * supply <= pool_value(c, balance)
  BY <1>1, <1>2, SMT DEF Backed
<1>4. /\ effective_deposit_rate(c, supply, balance) >= One
      /\ yield \in Nat
      /\ c.prev_exchange_rate * supply <= pool_value(c, balance) - yield
  BY <1>1, <1>3, ExcessBound
<1>5. pool_value(st, balance) >= 0 /\ pool_value(c, balance) >= yield
  BY <1>1, <1>2, <1>4, SMT DEF Backed
<1> QED
  BY <1>4, <1>5 DEF interest_computable, c

\* Accrual that does not panic publishes a rate that is backed, and that is not
\* below the one before unless aTerra counted in prev_aterra_supply was burned.
LEMMA AccrualBacked ==
  ASSUME NEW st \in MarketState, NEW at \in Nat, NEW balance \in Nat,
         NEW supply \in Nat, NEW rate \in Nat, NEW target \in Nat,
         supply > 0, Backed(st, supply, balance),
         interest_computable(st, at, balance, supply, rate, target)
  PROVE  AccruedFrom(st, at, balance, supply,
                     compute_interest_raw(st, at, balance, supply, rate, target))
<1> DEFINE r == compute_interest_raw(st, at, balance, supply, rate, target)
           c == charge_interest(st, at, rate)
           yield == excess_yield(c, at, supply, balance, target)
           res == [c EXCEPT !.total_reserves = @ + yield]
           new == compute_exchange_rate_raw(res, supply, balance)
           step1 == [res EXCEPT !.prev_aterra_supply = supply]
           step2 == [step1 EXCEPT !.prev_exchange_rate = new]
<1>1. CASE st.last_interest_updated >= at
  <2>1. r = st
    BY <1>1 DEF compute_interest_raw
  <2>2. ~(st.last_interest_updated < at)
    BY <1>1, SMT DEF MarketState
  <2> HIDE DEF r
  <2>3. AccruedFrom(st, at, balance, supply, r)
    BY <2>1, <2>2, SMT DEF AccruedFrom, MarketState
  <2> QED
    BY <2>3 DEF r
<1>2. CASE st.last_interest_updated < at
  <2>1. /\ c \in MarketState
        /\ pool_value(c, balance) >= pool_value(st, balance)
        /\ c.prev_aterra_supply = st.prev_aterra_supply
        /\ c.prev_exchange_rate = st.prev_exchange_rate
        /\ c.global_interest_index >= st.global_interest_index
        /\ c.global_reward_index = st.global_reward_index
        /\ c.anc_emission_rate = st.anc_emission_rate
        /\ c.last_reward_updated = st.last_reward_updated
        /\ c.last_interest_updated = st.last_interest_updated
    BY <1>2, ChargeGrows
  <2>2. r = [step2 EXCEPT !.last_interest_updated = at]
    <3>1. ~(st.last_interest_updated >= at)
      BY <1>2, SMT DEF MarketState
    <3> QED
      BY <3>1 DEF compute_interest_raw
  <2>16. /\ st.prev_exchange_rate > 0
         /\ effective_deposit_rate(c, supply, balance) >= One
         /\ pool_value(c, balance) >= yield
    BY <1>2 DEF interest_computable
  <2> HIDE DEF c, r
  <2>3. /\ st.prev_exchange_rate \in Nat /\ st.prev_aterra_supply \in Nat
        /\ pool_value(st, balance) \in Int /\ pool_value(c, balance) \in Int
        /\ st.prev_exchange_rate * supply \in Nat
    BY <2>1, RateGreatest, SMT DEF MarketState
  <2>4. c.prev_exchange_rate * supply <= pool_value(c, balance)
    BY <2>1, <2>3, SMT DEF Backed
  <2>5. yield \in Nat
    BY <1>2, <2>1, <2>16, ExcessNat
  <2>6. st.prev_aterra_supply <= supply =>
          c.prev_exchange_rate * supply <= pool_value(c, balance) - yield
    BY <1>2, <2>1, <2>4, <2>16, ExcessBound
  <2> HIDE DEF yield
  <2>7. /\ res \in MarketState
        /\ pool_value(res, balance) = pool_value(c, balance) - yield
        /\ res.prev_aterra_supply = st.prev_aterra_supply
        /\ res.prev_exchange_rate = st.prev_exchange_rate
        /\ res.global_interest_index = c.global_interest_index
        /\ res.global_reward_index = st.global_reward_index
        /\ res.anc_emission_rate = st.anc_emission_rate
        /\ res.last_reward_updated = st.last_reward_updated
        /\ res.total_liabilities = c.total_liabilities
    <3>1. /\ res \in MarketState
          /\ res.total_reserves = c.total_reserves + yield
          /\ res.total_liabilities = c.total_liabilities
          /\ res.prev_aterra_supply = st.prev_aterra_supply
          /\ res.prev_exchange_rate = st.prev_exchange_rate
          /\ res.global_interest_index = c.global_interest_index
          /\ res.global_reward_index = st.global_reward_index
          /\ res.anc_emission_rate = st.anc_emission_rate
          /\ res.last_reward_updated = st.last_reward_updated
      BY <2>1, <2>5, SMT DEF MarketState
    <3> HIDE DEF res
    <3>2. pool_value(res, balance) = pool_value(c, balance) - yield
      BY <2>1, <2>5, <3>1, ScaleAssumption, SMT DEF pool_value, FromUint, MarketState
    <3> QED
      BY <3>1, <3>2
  <2> HIDE DEF res
  <2>8. /\ new \in Int /\ new * supply <= pool_value(res, balance)
        /\ new >= 0
        /\ st.prev_aterra_supply <= supply => new >= st.prev_exchange_rate
    <3>1. /\ new \in Int /\ new * supply <= pool_value(res, balance)
          /\ \A k \in Int : k * supply <= pool_value(res, balance) => k <= new
      BY <2>7, RateGreatest
    <3>2. st.prev_aterra_supply <= supply =>
            st.prev_exchange_rate * supply <= pool_value(res, balance)
      BY <2>1, <2>6, <2>7
    <3>3. 0 * supply <= pool_value(res, balance)
      BY <2>3, <2>5, <2>7, <2>16, SMT
    <3>4. new >= 0
      BY <3>1, <3>3
    <3> QED
      BY <2>3, <3>1, <3>2, <3>4
  <2>9. new \in Nat
    BY <2>8, SMT
  <2> HIDE DEF new
  <2>10. /\ step1 \in MarketState
         /\ step1.total_reserves = res.total_reserves
         /\ step1.total_liabilities = res.total_liabilities
         /\ step1.prev_aterra_supply = supply
         /\ step1.global_interest_index = c.global_interest_index
         /\ step1.global_reward_index = st.global_reward_index
         /\ step1.anc_emission_rate = st.anc_emission_rate
         /\ step1.last_reward_updated = st.last_reward_updated
    BY <2>7, SMT DEF MarketState
  <2> HIDE DEF step1
  <2>11. /\ step2 \in MarketState
         /\ step2.total_reserves = res.total_reserves
         /\ step2.total_liabilities = res.total_liabilities
         /\ step2.prev_aterra_supply = supply
         /\ step2.prev_exchange_rate = new
         /\ step2.global_interest_index = c.global_interest_index
         /\ step2.global_reward_index = st.global_reward_index
         /\ step2.anc_emission_rate = st.anc_emission_rate
         /\ step2.last_reward_updated = st.last_reward_updated
    BY <2>9, <2>10, SMT DEF MarketState
  <2> HIDE DEF step2
  <2>12. /\ r \in MarketState
         /\ r.total_reserves = res.total_reserves
         /\ r.total_liabilities = res.total_liabilities
         /\ r.prev_aterra_supply = supply
         /\ r.prev_exchange_rate = new
         /\ r.global_interest_index = c.global_interest_index
         /\ r.global_reward_index = st.global_reward_index
         /\ r.anc_emission_rate = st.anc_emission_rate
         /\ r.last_reward_updated = st.last_reward_updated
         /\ r.last_interest_updated = at
    BY <2>2, <2>11, SMT DEF MarketState
  <2>13. pool_value(r, balance) = pool_value(res, balance)
    BY <2>12 DEF pool_value
  <2>14. Backed(r, supply, balance)
    BY <2>8, <2>12, <2>13 DEF Backed
  <2>15. AccruedFrom(st, at, balance, supply, r)
    BY <1>2, <2>1, <2>7, <2>8, <2>12, <2>14 DEF AccruedFrom
  <2> QED
    BY <2>15 DEF r
<1> QED
  BY <1>1, <1>2, SMT DEF MarketState

\* Accrual makes no debt where there is none.
LEMMA AccrualMakesNoDebt ==
  ASSUME NEW st \in MarketState, NEW at \in Nat, NEW balance \in Nat,
         NEW supply \in Nat, NEW rate \in Nat, NEW target \in Nat,
         st.total_liabilities = 0
  PROVE  compute_interest_raw(st, at, balance, supply, rate, target).total_liabilities = 0
<1> DEFINE r == compute_interest_raw(st, at, balance, supply, rate, target)
           c == charge_interest(st, at, rate)
           yield == excess_yield(c, at, supply, balance, target)
           res == [c EXCEPT !.total_reserves = @ + yield]
           new == compute_exchange_rate_raw(res, supply, balance)
           step1 == [res EXCEPT !.prev_aterra_supply = supply]
           step2 == [step1 EXCEPT !.prev_exchange_rate = new]
<1>1. CASE st.last_interest_updated >= at
  BY <1>1 DEF compute_interest_raw
<1>2. CASE ~(st.last_interest_updated >= at)
  <2>1. r = [step2 EXCEPT !.last_interest_updated = at]
    BY <1>2 DEF compute_interest_raw
  <2>2. st.last_interest_updated < at
    BY <1>2, SMT DEF MarketState
  <2>3. c \in MarketState /\ c.total_liabilities = 0
    BY <2>2, ChargeGrows
  <2> HIDE DEF c, r, yield
  <2>4. "total_liabilities" \in DOMAIN c /\ DOMAIN res = DOMAIN c
    BY <2>3, SMT DEF MarketState
  <2>5. res.total_liabilities = 0
    BY <2>3, <2>4, SMT
  <2> HIDE DEF res, new
  <2>6. DOMAIN step1 = DOMAIN res /\ step1.total_liabilities = 0
    BY <2>4, <2>5, SMT
  <2> HIDE DEF step1
  <2>7. DOMAIN step2 = DOMAIN res /\ step2.total_liabilities = 0
    BY <2>4, <2>6, SMT
  <2> HIDE DEF step2
  <2>8. r.total_liabilities = 0
    BY <2>1, <2>4, <2>7, SMT
  <2> QED
    BY <2>8 DEF r
<1> QED
  BY <1>1, <1>2

\* compute_reward leaves alone everything that prices aTerra.
LEMMA RewardKeeps ==
  ASSUME NEW st \in MarketState, NEW at \in Nat, st.global_interest_index >= One
  PROVE  LET r == compute_reward(st, at)
         IN  /\ r \in MarketState
             /\ r.total_liabilities = st.total_liabilities
             /\ r.total_reserves = st.total_reserves
             /\ r.global_interest_index = st.global_interest_index
             /\ r.last_interest_updated = st.last_interest_updated
             /\ r.prev_aterra_supply = st.prev_aterra_supply
             /\ r.prev_exchange_rate = st.prev_exchange_rate
             /\ r.anc_emission_rate = st.anc_emission_rate
             /\ r.global_reward_index >= st.global_reward_index
             /\ r.last_reward_updated =
                  IF st.last_reward_updated < at THEN at ELSE st.last_reward_updated
<1> DEFINE r == compute_reward(st, at)
           reward == DecMul(FromUint(at - st.last_reward_updated), st.anc_emission_rate)
           amount == DecDiv(st.total_liabilities, st.global_interest_index)
           more == IF amount = 0 THEN 0 ELSE DecDiv(reward, amount)
           indexed == [st EXCEPT !.global_reward_index = @ + more]
<1>1. CASE st.last_reward_updated >= at
  <2>1. r = st
    BY <1>1 DEF compute_reward
  <2> HIDE DEF r
  <2> QED
    BY <1>1, <2>1, SMT DEF MarketState, r
<1>2. CASE st.last_reward_updated < at
  <2>1. r = [indexed EXCEPT !.last_reward_updated = at]
    <3>1. ~(st.last_reward_updated >= at)
      BY <1>2, SMT DEF MarketState
    <3> QED
      BY <3>1 DEF compute_reward
  <2>2. more \in Nat
    <3>1. reward \in Nat
      <4>1. FromUint(at - st.last_reward_updated) \in Nat
        BY <1>2, ScaleAssumption, SMT DEF FromUint, MarketState
      <4> QED
        BY <4>1, DecMulNat DEF MarketState
    <3>2. amount \in Nat
      <4>1. /\ st.total_liabilities \in Nat /\ st.global_interest_index \in Nat
            /\ st.global_interest_index > 0
        BY ScaleAssumption, SMT DEF MarketState, One
      <4> QED
        BY <4>1, DecDivNat
    <3> HIDE DEF reward, amount
    <3>3. CASE amount = 0
      BY <3>3
    <3>4. CASE amount # 0
      <4>1. amount > 0
        BY <3>2, <3>4, SMT
      <4> QED
        BY <3>1, <3>2, <3>4, <4>1, DecDivNat
    <3> QED
      BY <3>3, <3>4
  <2> HIDE DEF r, more
  <2>3. /\ indexed \in MarketState
        /\ indexed.total_liabilities = st.total_liabilities
        /\ indexed.total_reserves = st.total_reserves
        /\ indexed.global_interest_index = st.global_interest_index
        /\ indexed.last_interest_updated = st.last_interest_updated
        /\ indexed.prev_aterra_supply = st.prev_aterra_supply
        /\ indexed.prev_exchange_rate = st.prev_exchange_rate
        /\ indexed.anc_emission_rate = st.anc_emission_rate
        /\ indexed.global_reward_index >= st.global_reward_index
    BY <2>2, SMT DEF MarketState
  <2> HIDE DEF indexed
  <2> QED
    BY <1>2, <2>1, <2>3, SMT DEF MarketState, r
<1> QED
  BY <1>1, <1>2, SMT DEF MarketState

\* Settling a borrower brings both of its indexes up to the market's.
LEMMA SettledBorrower ==
  ASSUME NEW st \in MarketState, NEW info \in BorrowerInfo,
         One <= info.interest_index, One <= st.global_interest_index,
         info.reward_index <= st.global_reward_index
  PROVE  LET settled == settle_borrower(st, info)
         IN  /\ settled \in BorrowerInfo
             /\ settled.interest_index = st.global_interest_index
             /\ settled.reward_index = st.global_reward_index
<1> DEFINE owes == UintDivDec(UintMulDec(info.loan_amount, st.global_interest_index),
                              info.interest_index)
           loan == [info EXCEPT !.loan_amount = owes]
           withInterest == compute_borrower_interest(st, info)
           reward == DecMul(DecDiv(FromUint(withInterest.loan_amount),
                                   st.global_interest_index),
                            st.global_reward_index - withInterest.reward_index)
           rewarded == [withInterest EXCEPT !.pending_rewards = @ + reward]
           settled == settle_borrower(st, info)
<1>1. /\ info.loan_amount \in Nat /\ info.interest_index \in Nat
      /\ info.interest_index > 0 /\ st.global_interest_index \in Nat
      /\ st.global_interest_index > 0
  BY ScaleAssumption, SMT DEF BorrowerInfo, MarketState, One
<1>2. owes \in Nat
  BY <1>1, UintMulDecBound, UintDivDecBound
<1>3. withInterest = [loan EXCEPT !.interest_index = st.global_interest_index]
  BY DEF compute_borrower_interest
<1> HIDE DEF owes, withInterest
<1>4. loan \in BorrowerInfo /\ loan.reward_index = info.reward_index
  BY <1>2, SMT DEF BorrowerInfo
<1> HIDE DEF loan
<1>5. /\ withInterest \in BorrowerInfo
      /\ withInterest.interest_index = st.global_interest_index
      /\ withInterest.reward_index = info.reward_index
  BY <1>1, <1>3, <1>4, SMT DEF BorrowerInfo
<1>6. reward \in Nat
  <2>1. FromUint(withInterest.loan_amount) \in Nat
    BY <1>5, ScaleAssumption, SMT DEF BorrowerInfo, FromUint
  <2>2. DecDiv(FromUint(withInterest.loan_amount), st.global_interest_index) \in Nat
    BY <1>1, <2>1, DecDivNat
  <2>3. st.global_reward_index - withInterest.reward_index \in Nat
    BY <1>5, SMT DEF BorrowerInfo, MarketState
  <2> QED
    BY <2>2, <2>3, DecMulNat
<1>7. settled = [rewarded EXCEPT !.reward_index = st.global_reward_index]
  BY DEF settle_borrower, compute_borrower_reward, withInterest
<1> HIDE DEF reward, settled
<1>8. rewarded \in BorrowerInfo /\ rewarded.interest_index = st.global_interest_index
  BY <1>5, <1>6, SMT DEF BorrowerInfo
<1> HIDE DEF rewarded
<1>9. /\ settled \in BorrowerInfo
      /\ settled.interest_index = st.global_interest_index
      /\ settled.reward_index = st.global_reward_index
  BY <1>7, <1>8, SMT DEF BorrowerInfo, MarketState
<1> QED
  BY <1>9 DEF settled

\* While the pool's value is not negative the interest model answers a rate.
LEMMA BorrowRateNat ==
  ASSUME NEW st \in MarketState, NEW balance \in Nat, TypeOK,
         pool_value(st, balance) >= 0
  PROVE  borrow_rate(st, balance) \in Nat
<1> DEFINE cfg == interest_config[config.interest_model]
           value == FromUint(balance) + st.total_liabilities - st.total_reserves
           utilization == IF value = 0 THEN 0 ELSE DecDiv(st.total_liabilities, value)
<1>1. cfg.interest_multiplier \in Nat /\ cfg.base_rate \in Nat
  <2>1. cfg \in [owner : Users, base_rate : Nat, interest_multiplier : Nat]
    BY MarketAssumption DEF TypeOK, MarketConfig
  <2> HIDE DEF cfg
  <2> QED
    BY <2>1
<1> HIDE DEF cfg
<1>2. value \in Nat
  BY ScaleAssumption, SMT DEF MarketState, FromUint, pool_value
<1> HIDE DEF value
<1>3. utilization \in Nat
  <2>1. CASE value = 0
    BY <2>1
  <2>2. CASE value # 0
    <3>1. value > 0 /\ st.total_liabilities \in Nat
      BY <1>2, <2>2, SMT DEF MarketState
    <3> QED
      BY <1>2, <2>2, <3>1, DecDivNat
  <2> QED
    BY <2>1, <2>2
<1>4. borrow_rate(st, balance) = DecMul(utilization, cfg.interest_multiplier) + cfg.base_rate
  BY DEF borrow_rate, query_borrow_rate, cfg, value
<1> HIDE DEF utilization
<1>5. DecMul(utilization, cfg.interest_multiplier) \in Nat
  BY <1>1, <1>3, DecMulNat
<1> QED
  BY <1>1, <1>4, <1>5, SMT

(***************************************************************************)
(* The invariant and the steps                                             *)
(***************************************************************************)
IInv == TypeOK /\ RateBacked /\ ahead >= 0 /\ IndexesOrdered

\* What every step keeps or guarantees, the action properties included.
StepGood ==
    /\ IInv'
    /\ ahead = 0 => state'.prev_exchange_rate >= state.prev_exchange_rate
    /\ \/ ahead' \in {ahead, 0}
       \/ ahead' > ahead /\ UNCHANGED <<state, bank>>
    /\ bank' < bank => FromUint(bank') >= state'.total_reserves

\* ahead, of any state.
AheadOf(st, supply) ==
    st.prev_aterra_supply -
      IF st.last_interest_updated = 0 THEN supply - InitialDeposit ELSE supply

\* What is left of the invariant's demands on a state st of the contract when
\* the supply and the balance are given.
StateGood(st, supply, balance) ==
    /\ st \in MarketState
    /\ ahead = 0 => st.prev_exchange_rate >= state.prev_exchange_rate
    /\ st.prev_exchange_rate * supply <= pool_value(st, balance)
    /\ st.last_interest_updated <= height
    /\ st.last_reward_updated <= height
    /\ st.global_interest_index >= state.global_interest_index
    /\ st.global_reward_index >= state.global_reward_index
    /\ AheadOf(st, supply) \in {ahead, 0}

\* The types of the handlers' inputs.
LEMMA InputTypes ==
  /\ \A a \in Amounts : a \in Nat /\ a > 0
  /\ \A t \in TargetRates : t \in Nat
  BY MarketAssumption, SMT

\* The state before a step is good for itself.
LEMMA BeforeGood ==
  ASSUME IInv
  PROVE  /\ StateGood(state, aterra_supply, bank)
         /\ Backed(state, aterra_supply, bank)
         /\ bank \in Nat /\ aterra_supply \in Nat /\ aterra_supply > 0
         /\ height \in Nat
         /\ aterra_supply >= InitialDeposit
         /\ pool_value(state, bank) >= 0
         /\ ahead \in Nat
         /\ ahead = 0 => state.prev_aterra_supply <= aterra_supply
<1>1. /\ state \in MarketState /\ bank \in Nat /\ aterra_supply \in Nat
      /\ aterra_supply > 0 /\ aterra_supply >= InitialDeposit
      /\ InitialDeposit \in Nat /\ InitialDeposit > 0 /\ height \in Nat
  BY MarketAssumption, SMT DEF IInv, TypeOK, RateBacked
<1>2. StateGood(state, aterra_supply, bank)
  <2>1. AheadOf(state, aterra_supply) = ahead
    BY DEF AheadOf, ahead
  <2> QED
    BY <1>1, <2>1, SMT DEF IInv, StateGood, RateBacked, IndexesOrdered, MarketState
<1>3. /\ ahead \in Nat
      /\ ahead = 0 => state.prev_aterra_supply <= aterra_supply
  BY <1>1, SMT DEF IInv, ahead, MarketState
<1>4. pool_value(state, bank) >= 0
  <2>1. state.prev_exchange_rate * aterra_supply \in Nat
    BY <1>1, SMT DEF MarketState
  <2>2. pool_value(state, bank) \in Int
    BY <1>1, RateGreatest
  <2> QED
    BY <2>1, <2>2, SMT DEF IInv, RateBacked
<1> QED
  BY <1>1, <1>2, <1>3, <1>4 DEF IInv, Backed, RateBacked

\* So is the state after interest, and after interest and rewards.
LEMMA AccruedGood ==
  ASSUME IInv, NEW target \in Nat, CanComputeInterest(bank, target)
  PROVE  /\ StateGood(compute_interest(bank, target), aterra_supply, bank)
         /\ StateGood(accrued(bank, target), aterra_supply, bank)
<1> DEFINE rate == borrow_rate(state, bank)
           r == compute_interest_raw(state, height, bank, aterra_supply, rate, target)
           a == accrued(bank, target)
<1>1. /\ bank \in Nat /\ aterra_supply \in Nat /\ aterra_supply > 0 /\ height \in Nat
      /\ Backed(state, aterra_supply, bank) /\ pool_value(state, bank) >= 0
      /\ StateGood(state, aterra_supply, bank)
      /\ ahead \in Nat /\ (ahead = 0 => state.prev_aterra_supply <= aterra_supply)
  BY BeforeGood
<1>2. state \in MarketState /\ TypeOK
  BY DEF IInv, TypeOK
<1>3. rate \in Nat
  BY <1>1, <1>2, BorrowRateNat
<1>11. interest_computable(state, height, bank, aterra_supply, rate, target)
  BY DEF CanComputeInterest
<1> HIDE DEF rate
<1>4. r = compute_interest(bank, target)
  BY DEF compute_interest, rate
<1>5. AccruedFrom(state, height, bank, aterra_supply, r)
  BY <1>1, <1>2, <1>3, <1>11, AccrualBacked
<1> HIDE DEF r
<1>6. StateGood(r, aterra_supply, bank)
  <2>1. AheadOf(r, aterra_supply) \in {ahead, 0}
    BY <1>1, <1>2, <1>5, SMT DEF AheadOf, ahead, AccruedFrom, MarketState
  <2> QED
    BY <1>1, <1>2, <1>5, <2>1, SMT DEF StateGood, AccruedFrom, Backed, MarketState
<1>7. a = compute_reward(r, height)
  BY <1>4 DEF accrued
<1> HIDE DEF a
<1>8. /\ a \in MarketState
      /\ a.total_liabilities = r.total_liabilities
      /\ a.total_reserves = r.total_reserves
      /\ a.global_interest_index = r.global_interest_index
      /\ a.last_interest_updated = r.last_interest_updated
      /\ a.prev_aterra_supply = r.prev_aterra_supply
      /\ a.prev_exchange_rate = r.prev_exchange_rate
      /\ a.global_reward_index >= r.global_reward_index
      /\ a.last_reward_updated =
           IF r.last_reward_updated < height THEN height ELSE r.last_reward_updated
  <2>1. r.global_interest_index >= One
    BY <1>2, <1>5, ScaleAssumption, SMT DEF IInv, IndexesOrdered, AccruedFrom, One, MarketState
  <2> QED
    BY <1>1, <1>5, <1>7, <2>1, RewardKeeps DEF AccruedFrom
<1>9. pool_value(a, bank) = pool_value(r, bank)
  BY <1>8 DEF pool_value
<1>10. StateGood(a, aterra_supply, bank)
  <2>1. AheadOf(a, aterra_supply) = AheadOf(r, aterra_supply)
    BY <1>8 DEF AheadOf
  <2> QED
    BY <1>1, <1>2, <1>5, <1>6, <1>8, <1>9, <2>1, SMT DEF StateGood, AccruedFrom, MarketState
<1> QED
  BY <1>4, <1>6, <1>10 DEF a

\* A state good for the supply and balance of the next state makes the step
\* good when only it, the supply and the bank have changed.
LEMMA GoodStep ==
  ASSUME IInv, NEW st, NEW supply \in Nat, NEW balance \in Nat,
         StateGood(st, supply, balance), supply >= InitialDeposit,
         balance < bank => FromUint(balance) >= st.total_reserves,
         state' = st, aterra_supply' = supply, bank' = balance,
         config' = config \/ config' \in MarketConfig,
         UNCHANGED <<interest_config, emission_config, height, emitted>>,
         spent' \in Nat, borrower_info' \in [Users -> BorrowerInfo],
         \A u \in Users :
           \/ borrower_info'[u] = borrower_info[u]
           \/ /\ borrower_info'[u].interest_index = st.global_interest_index
              /\ borrower_info'[u].reward_index = st.global_reward_index
  PROVE  StepGood
<1>1. /\ st \in MarketState /\ state \in MarketState /\ Scale \in Nat
      /\ borrower_info \in [Users -> BorrowerInfo]
  BY ScaleAssumption DEF StateGood, IInv, TypeOK
<1>2. TypeOK'
  BY <1>1, SMT DEF IInv, TypeOK
<1>3. state.global_interest_index >= One /\ ahead \in Nat
  BY <1>1, BeforeGood DEF IInv, IndexesOrdered
<1>4. RateBacked'
  <2>2. pool_value(state, bank)' = pool_value(st, balance)
    BY DEF pool_value, FromUint
  <2> QED
    BY <2>2 DEF StateGood, RateBacked
<1>5. ahead' \in {ahead, 0}
  BY DEF ahead, AheadOf, StateGood
<1>7. ahead' >= 0
  BY <1>3, <1>5, SMT
<1>6. IndexesOrdered'
  <2>1. st.global_interest_index >= One
    BY <1>1, <1>3, SMT DEF StateGood, MarketState, One
  <2>2. ASSUME NEW u \in Users
        PROVE  /\ One <= borrower_info'[u].interest_index
               /\ borrower_info'[u].interest_index <= st.global_interest_index
               /\ borrower_info'[u].reward_index <= st.global_reward_index
    <3>1. CASE borrower_info'[u] = borrower_info[u]
      <4>1. /\ One <= borrower_info[u].interest_index
            /\ borrower_info[u].interest_index <= state.global_interest_index
            /\ borrower_info[u].reward_index <= state.global_reward_index
        BY DEF IInv, IndexesOrdered
      <4>2. borrower_info[u] \in BorrowerInfo
        BY <1>1
      <4> QED
        BY <1>1, <3>1, <4>1, <4>2, SMT
           DEF StateGood, MarketState, BorrowerInfo
    <3>2. CASE /\ borrower_info'[u].interest_index = st.global_interest_index
               /\ borrower_info'[u].reward_index = st.global_reward_index
      BY <1>1, <2>1, <3>2, SMT DEF MarketState
    <3> QED
      BY <3>1, <3>2
  <2> QED
    BY <2>1, <2>2, SMT DEF IndexesOrdered, StateGood, One
<1> QED
  BY <1>2, <1>4, <1>5, <1>6, <1>7 DEF StepGood, IInv, StateGood, FromUint

\* What StateGood says in numbers, with the rate that a handler computes from
\* the state: it is at least the one published.
LEMMA GoodNumbers ==
  ASSUME IInv, NEW st, StateGood(st, aterra_supply, bank)
  PROVE  LET rate == compute_exchange_rate_raw(st, aterra_supply, bank)
         IN  /\ st \in MarketState
             /\ pool_value(st, bank) \in Int
             /\ rate \in Nat
             /\ rate >= st.prev_exchange_rate
             /\ rate * aterra_supply <= pool_value(st, bank)
             /\ st.prev_aterra_supply >= aterra_supply - InitialDeposit
<1>1. /\ st \in MarketState /\ aterra_supply \in Nat /\ aterra_supply > 0
      /\ bank \in Nat /\ InitialDeposit \in Nat
      /\ st.prev_exchange_rate * aterra_supply <= pool_value(st, bank)
  BY BeforeGood, MarketAssumption DEF StateGood
<1> DEFINE rate == compute_exchange_rate_raw(st, aterra_supply, bank)
<1>2. /\ pool_value(st, bank) \in Int /\ rate \in Int
      /\ rate * aterra_supply <= pool_value(st, bank)
      /\ \A k \in Int : k * aterra_supply <= pool_value(st, bank) => k <= rate
  BY <1>1, RateGreatest
<1> HIDE DEF rate
<1>3. rate >= st.prev_exchange_rate /\ rate \in Nat
  BY <1>1, <1>2, SMT DEF MarketState
<1>4. st.prev_aterra_supply >= aterra_supply - InitialDeposit
  <2>1. ahead \in Nat /\ st.prev_aterra_supply \in Nat
    BY <1>1, BeforeGood DEF MarketState
  <2> QED
    BY <1>1, <2>1, SMT DEF StateGood, AheadOf
<1> QED
  BY <1>1, <1>2, <1>3, <1>4 DEF rate

\* A borrower settled against such a state is up to date with it.
LEMMA SettleGood ==
  ASSUME IInv, NEW st, StateGood(st, aterra_supply, bank), NEW u \in Users
  PROVE  LET settled == settle_borrower(st, borrower_info[u])
         IN  /\ settled \in BorrowerInfo
             /\ settled.interest_index = st.global_interest_index
             /\ settled.reward_index = st.global_reward_index
<1>1. st \in MarketState /\ state \in MarketState /\ borrower_info[u] \in BorrowerInfo
  BY DEF StateGood, IInv, TypeOK
<1>2. /\ One <= borrower_info[u].interest_index
      /\ One <= st.global_interest_index
      /\ borrower_info[u].reward_index <= st.global_reward_index
  BY <1>1, ScaleAssumption, SMT
     DEF StateGood, IInv, IndexesOrdered, MarketState, BorrowerInfo, One
<1> QED
  BY <1>1, <1>2, SettledBorrower

LEMMA DepositGood == ASSUME IInv, Deposit PROVE StepGood
<1>1. PICK a \in Amounts, t \in TargetRates : deposit_stable(a, t)
  BY DEF Deposit
<1> DEFINE st == accrued(bank, t)
           rate == compute_exchange_rate_raw(st, aterra_supply, bank)
           mint == UintDivDec(a, rate)
           new == [st EXCEPT !.prev_aterra_supply = @ + mint]
<1>2. /\ a \in Nat /\ t \in Nat /\ bank \in Nat /\ aterra_supply \in Nat
      /\ aterra_supply >= InitialDeposit /\ InitialDeposit \in Nat
  BY InputTypes, BeforeGood, MarketAssumption
<1>20. CanComputeInterest(bank, t)
  BY <1>1 DEF deposit_stable
<1>3. StateGood(st, aterra_supply, bank)
  BY <1>2, <1>20, AccruedGood
<1>4. /\ state' = new /\ aterra_supply' = aterra_supply + mint /\ bank' = bank + a
      /\ rate > 0
      /\ UNCHANGED <<config, borrower_info, interest_config, emission_config,
                     height, spent, emitted>>
  BY <1>1 DEF deposit_stable
<1> HIDE DEF st
<1>5. /\ st \in MarketState /\ rate \in Nat /\ rate >= st.prev_exchange_rate
      /\ pool_value(st, bank) \in Int
  BY <1>3, GoodNumbers
<1> HIDE DEF rate
<1>6. mint \in Nat /\ mint * rate <= a * Scale
  BY <1>2, <1>4, <1>5, UintDivDecBound
<1> HIDE DEF mint
<1>7. /\ new \in MarketState
      /\ new.prev_aterra_supply = st.prev_aterra_supply + mint
      /\ new.total_liabilities = st.total_liabilities
      /\ new.total_reserves = st.total_reserves
      /\ new.prev_exchange_rate = st.prev_exchange_rate
      /\ new.last_interest_updated = st.last_interest_updated
      /\ new.last_reward_updated = st.last_reward_updated
      /\ new.global_interest_index = st.global_interest_index
      /\ new.global_reward_index = st.global_reward_index
  BY <1>5, <1>6, SMT DEF MarketState
<1> HIDE DEF new
<1>8. new.prev_exchange_rate * (aterra_supply + mint) <= pool_value(new, bank + a)
  <2>1. pool_value(new, bank + a) = pool_value(st, bank) + a * Scale
    BY <1>2, <1>5, <1>7, ScaleAssumption, SMT DEF pool_value, FromUint, MarketState
  <2>2. st.prev_exchange_rate * mint <= rate * mint
    BY <1>5, <1>6, MulMono, SMT DEF MarketState
  <2>3. st.prev_exchange_rate * aterra_supply <= pool_value(st, bank)
    BY <1>3 DEF StateGood
  <2> QED
    BY <2>1, <2>2, <2>3, <1>2, <1>5, <1>6, <1>7, ScaleAssumption, SMT DEF MarketState
<1>21. AheadOf(new, aterra_supply + mint) = AheadOf(st, aterra_supply)
  BY <1>2, <1>5, <1>6, <1>7, SMT DEF AheadOf, MarketState
<1>9. StateGood(new, aterra_supply + mint, bank + a)
  BY <1>3, <1>7, <1>8, <1>21 DEF StateGood
<1>10. /\ aterra_supply + mint \in Nat /\ aterra_supply + mint >= InitialDeposit
       /\ bank + a \in Nat /\ ~(bank + a < bank)
  BY <1>2, <1>6, SMT
<1>11. spent' \in Nat /\ borrower_info' \in [Users -> BorrowerInfo]
  BY <1>4 DEF IInv, TypeOK
<1> QED
  BY <1>4, <1>9, <1>10, <1>11, GoodStep

LEMMA RedeemGood == ASSUME IInv, Redeem PROVE StepGood
<1>1. PICK b \in Amounts, t \in TargetRates : redeem_stable(b, t)
  BY DEF Redeem
<1> DEFINE st == accrued(bank, t)
           rate == compute_exchange_rate_raw(st, aterra_supply, bank)
           redeem == UintMulDec(b, rate)
           new == [st EXCEPT !.prev_aterra_supply = @ - b]
<1>2. /\ b \in Nat /\ t \in Nat /\ bank \in Nat /\ aterra_supply \in Nat
      /\ aterra_supply >= InitialDeposit /\ InitialDeposit \in Nat
  BY InputTypes, BeforeGood, MarketAssumption
<1>20. CanComputeInterest(bank, t)
  BY <1>1 DEF redeem_stable
<1>3. StateGood(st, aterra_supply, bank)
  BY <1>2, <1>20, AccruedGood
<1>4. /\ state' = new /\ aterra_supply' = aterra_supply - b
      /\ bank' = bank - Outlay(redeem)
      /\ b <= aterra_supply - InitialDeposit /\ b <= st.prev_aterra_supply
      /\ FromUint(redeem) + st.total_reserves <= FromUint(bank)
      /\ UNCHANGED <<config, borrower_info, interest_config, emission_config,
                     height, spent, emitted>>
  BY <1>1 DEF redeem_stable, assert_redeem_amount
<1> HIDE DEF st
<1>5. /\ st \in MarketState /\ rate \in Nat /\ rate >= st.prev_exchange_rate
      /\ pool_value(st, bank) \in Int
      /\ rate * aterra_supply <= pool_value(st, bank)
  BY <1>3, GoodNumbers
<1> HIDE DEF rate
<1>6. redeem \in Nat /\ redeem * Scale <= b * rate
  BY <1>2, <1>5, UintMulDecBound
<1> DEFINE out == Outlay(redeem)
<1>7. out \in Nat /\ out <= redeem
  BY <1>6, OutlayBound
<1> HIDE DEF redeem, out
<1>8. /\ new \in MarketState
      /\ new.prev_aterra_supply = st.prev_aterra_supply - b
      /\ new.total_liabilities = st.total_liabilities
      /\ new.total_reserves = st.total_reserves
      /\ new.prev_exchange_rate = st.prev_exchange_rate
      /\ new.last_interest_updated = st.last_interest_updated
      /\ new.last_reward_updated = st.last_reward_updated
      /\ new.global_interest_index = st.global_interest_index
      /\ new.global_reward_index = st.global_reward_index
  BY <1>2, <1>4, <1>5, SMT DEF MarketState
<1> HIDE DEF new
<1>9. out * Scale <= redeem * Scale
  BY <1>6, <1>7, ScaleAssumption, MulMono, SMT
<1>10. /\ bank - out \in Nat /\ FromUint(bank - out) >= new.total_reserves
  <2>1. (bank - out) * Scale = bank * Scale - out * Scale
    BY <1>2, <1>7, ScaleAssumption, SMT
  <2>2. bank * Scale - out * Scale >= st.total_reserves
    BY <1>2, <1>4, <1>5, <1>6, <1>7, <1>9, ScaleAssumption, SMT DEF FromUint, MarketState
  <2>3. 0 * Scale <= (bank - out) * Scale
    BY <2>1, <2>2, <1>2, <1>5, <1>7, ScaleAssumption, SMT DEF MarketState
  <2>4. 0 <= bank - out
    BY <2>3, <1>2, <1>7, ScaleAssumption, MulCancel, SMT
  <2> QED
    BY <2>1, <2>2, <2>4, <1>2, <1>7, <1>8, SMT DEF FromUint
<1>11. new.prev_exchange_rate * (aterra_supply - b) <= pool_value(new, bank - out)
  <2>1. pool_value(new, bank - out) = pool_value(st, bank) - out * Scale
    BY <1>2, <1>5, <1>7, <1>8, ScaleAssumption, SMT DEF pool_value, FromUint, MarketState
  <2>2. st.prev_exchange_rate * (aterra_supply - b) <= rate * (aterra_supply - b)
    BY <1>2, <1>4, <1>5, MulMono, SMT DEF MarketState
  <2>3. rate * (aterra_supply - b) = rate * aterra_supply - b * rate
    BY <1>2, <1>5, SMT
  <2> QED
    BY <2>1, <2>2, <2>3, <1>2, <1>5, <1>6, <1>7, <1>8, <1>9, ScaleAssumption, SMT
       DEF MarketState
<1>21. AheadOf(new, aterra_supply - b) = AheadOf(st, aterra_supply)
  BY <1>2, <1>5, <1>8, SMT DEF AheadOf, MarketState
<1>12. StateGood(new, aterra_supply - b, bank - out)
  BY <1>3, <1>8, <1>11, <1>21 DEF StateGood
<1>13. aterra_supply - b \in Nat /\ aterra_supply - b >= InitialDeposit
  BY <1>2, <1>4, SMT
<1>14. spent' \in Nat /\ borrower_info' \in [Users -> BorrowerInfo]
  BY <1>4 DEF IInv, TypeOK
<1>15. state' = new /\ bank' = bank - out
  BY <1>4 DEF out
<1> QED
  BY <1>4, <1>10, <1>12, <1>13, <1>14, <1>15, GoodStep

\* A loan, whatever the borrower's limit.
LEMMA LendingGood ==
  ASSUME IInv, NEW u \in Users, NEW b \in Amounts, NEW l, NEW t \in TargetRates,
         borrow_stable(u, b, l, t)
  PROVE  StepGood
<1> DEFINE st == accrued(bank, t)
           liability == settle_borrower(st, borrower_info[u])
           info == [liability EXCEPT !.loan_amount = @ + b]
           new == [st EXCEPT !.total_liabilities = @ + FromUint(b)]
           out == Outlay(b)
<1>2. /\ b \in Nat /\ t \in Nat /\ bank \in Nat /\ aterra_supply \in Nat
      /\ aterra_supply >= InitialDeposit
  BY InputTypes, BeforeGood
<1>20. CanComputeInterest(bank, t)
  BY DEF borrow_stable
<1>3. StateGood(st, aterra_supply, bank)
  BY <1>2, <1>20, AccruedGood
<1>4. /\ state' = new /\ bank' = bank - out
      /\ borrower_info' = [borrower_info EXCEPT ![u] = info]
      /\ FromUint(b) + st.total_reserves <= FromUint(bank)
      /\ UNCHANGED <<config, aterra_supply, interest_config, emission_config,
                     height, spent, emitted>>
  BY DEF borrow_stable, assert_max_borrow_factor
<1> HIDE DEF st
<1>5. st \in MarketState /\ pool_value(st, bank) \in Int
  BY <1>3, GoodNumbers
<1>6. liability \in BorrowerInfo /\ liability.interest_index = st.global_interest_index
      /\ liability.reward_index = st.global_reward_index
  BY <1>3, SettleGood
<1> HIDE DEF liability
<1>7. info \in BorrowerInfo /\ info.interest_index = st.global_interest_index
      /\ info.reward_index = st.global_reward_index
  BY <1>2, <1>6, SMT DEF BorrowerInfo
<1>8. out \in Nat /\ out <= b
  BY <1>2, OutlayBound
<1> HIDE DEF info, out
<1>9. /\ new \in MarketState
      /\ new.total_liabilities = st.total_liabilities + b * Scale
      /\ new.prev_aterra_supply = st.prev_aterra_supply
      /\ new.total_reserves = st.total_reserves
      /\ new.prev_exchange_rate = st.prev_exchange_rate
      /\ new.last_interest_updated = st.last_interest_updated
      /\ new.last_reward_updated = st.last_reward_updated
      /\ new.global_interest_index = st.global_interest_index
      /\ new.global_reward_index = st.global_reward_index
  BY <1>2, <1>5, ScaleAssumption, SMT DEF MarketState, FromUint
<1> HIDE DEF new
<1>10. out * Scale <= b * Scale
  BY <1>2, <1>8, ScaleAssumption, MulMono, SMT
<1>11. /\ bank - out \in Nat /\ FromUint(bank - out) >= new.total_reserves
  <2>1. (bank - out) * Scale = bank * Scale - out * Scale
    BY <1>2, <1>8, ScaleAssumption, SMT
  <2>2. bank * Scale - out * Scale >= st.total_reserves
    BY <1>2, <1>4, <1>5, <1>8, <1>10, ScaleAssumption, SMT DEF FromUint, MarketState
  <2>3. 0 * Scale <= (bank - out) * Scale
    BY <2>1, <2>2, <1>2, <1>5, <1>8, ScaleAssumption, SMT DEF MarketState
  <2>4. 0 <= bank - out
    BY <2>3, <1>2, <1>8, ScaleAssumption, MulCancel, SMT
  <2> QED
    BY <2>1, <2>2, <2>4, <1>2, <1>8, <1>9, SMT DEF FromUint
<1>12. new.prev_exchange_rate * aterra_supply <= pool_value(new, bank - out)
  <2>1. pool_value(new, bank - out) = pool_value(st, bank) + b * Scale - out * Scale
    BY <1>2, <1>5, <1>8, <1>9, ScaleAssumption, SMT DEF pool_value, FromUint, MarketState
  <2>2. st.prev_exchange_rate * aterra_supply \in Int
    BY <1>2, <1>5, SMT DEF MarketState
  <2> QED
    BY <2>1, <2>2, <1>2, <1>3, <1>5, <1>8, <1>9, <1>10, ScaleAssumption, SMT DEF StateGood
<1>13. StateGood(new, aterra_supply, bank - out)
  BY <1>3, <1>5, <1>9, <1>12 DEF StateGood, AheadOf
<1>14. /\ spent' \in Nat /\ borrower_info' \in [Users -> BorrowerInfo]
       /\ \A v \in Users :
            \/ borrower_info'[v] = borrower_info[v]
            \/ /\ borrower_info'[v].interest_index = st.global_interest_index
               /\ borrower_info'[v].reward_index = st.global_reward_index
  BY <1>4, <1>7 DEF IInv, TypeOK
<1>15. state' = new /\ bank' = bank - out /\ aterra_supply' = aterra_supply
  BY <1>4
<1> QED
  BY <1>2, <1>4, <1>9, <1>11, <1>13, <1>14, <1>15, GoodStep

LEMMA BorrowGood == ASSUME IInv, Borrow PROVE StepGood
<1>1. PICK u \in Users, b \in Amounts, l \in BorrowLimits, t \in TargetRates :
        borrow_stable(u, b, l, t)
  BY DEF Borrow
<1> QED
  BY <1>1, LendingGood

\* A repayment, whoever brings it.
LEMMA RepaymentGood ==
  ASSUME IInv, NEW u \in Users, NEW a \in Nat, NEW t \in Nat,
         settle_repayment(u, a, t)
  PROVE  StepGood
<1> DEFINE st == accrued(bank, t)
           liability == settle_borrower(st, borrower_info[u])
           repay == Lesser(liability.loan_amount, a)
           refund == IF liability.loan_amount < a THEN Outlay(a - repay) ELSE 0
           info == [liability EXCEPT !.loan_amount = @ - repay]
           new == [st EXCEPT !.total_liabilities = @ - FromUint(repay)]
<1>1. /\ state' = new /\ bank' = bank + a - refund
      /\ borrower_info' = [borrower_info EXCEPT ![u] = info]
      /\ FromUint(repay) <= st.total_liabilities
      /\ UNCHANGED <<config, aterra_supply, interest_config, emission_config,
                     height, spent, emitted>>
  BY DEF settle_repayment
<1>2. bank \in Nat /\ aterra_supply \in Nat /\ aterra_supply >= InitialDeposit
  BY BeforeGood
<1>20. CanComputeInterest(bank, t)
  BY DEF settle_repayment
<1>3. StateGood(st, aterra_supply, bank)
  BY <1>20, AccruedGood
<1> HIDE DEF st
<1>4. st \in MarketState /\ pool_value(st, bank) \in Int
  BY <1>3, GoodNumbers
<1>5. /\ liability \in BorrowerInfo
      /\ liability.interest_index = st.global_interest_index
      /\ liability.reward_index = st.global_reward_index
  BY <1>3, SettleGood
<1> HIDE DEF liability
<1>6. repay \in Nat /\ repay <= a /\ repay <= liability.loan_amount
  BY <1>5, SMT DEF BorrowerInfo, Lesser
<1> HIDE DEF repay
<1>7. refund \in Nat /\ refund <= a - repay
  <2>1. a - repay \in Nat
    BY <1>6, SMT
  <2> QED
    BY <2>1, OutlayBound, SMT
<1>8. info \in BorrowerInfo /\ info.interest_index = st.global_interest_index
      /\ info.reward_index = st.global_reward_index
  BY <1>5, <1>6, SMT DEF BorrowerInfo
<1> HIDE DEF info, refund
<1>9. /\ new \in MarketState
      /\ new.total_liabilities = st.total_liabilities - repay * Scale
      /\ new.prev_aterra_supply = st.prev_aterra_supply
      /\ new.total_reserves = st.total_reserves
      /\ new.prev_exchange_rate = st.prev_exchange_rate
      /\ new.last_interest_updated = st.last_interest_updated
      /\ new.last_reward_updated = st.last_reward_updated
      /\ new.global_interest_index = st.global_interest_index
      /\ new.global_reward_index = st.global_reward_index
  BY <1>1, <1>4, <1>6, ScaleAssumption, SMT DEF MarketState, FromUint
<1> HIDE DEF new
<1> DEFINE balance == bank + a - refund
<1>10. balance \in Nat /\ balance >= bank + repay
  BY <1>2, <1>6, <1>7, SMT
<1>11. new.prev_exchange_rate * aterra_supply <= pool_value(new, balance)
  <2>1. pool_value(new, balance) = pool_value(st, bank)
                                     + (balance - bank - repay) * Scale
    BY <1>2, <1>4, <1>6, <1>9, <1>10, ScaleAssumption, SMT
       DEF pool_value, FromUint, MarketState
  <2>2. (balance - bank - repay) * Scale \in Nat
    BY <1>2, <1>6, <1>10, ScaleAssumption, SMT
  <2>3. st.prev_exchange_rate * aterra_supply \in Int
    BY <1>2, <1>4, SMT DEF MarketState
  <2> QED
    BY <2>1, <2>2, <2>3, <1>3, <1>4, <1>9, SMT DEF StateGood
<1>12. StateGood(new, aterra_supply, balance)
  BY <1>3, <1>4, <1>9, <1>11 DEF StateGood, AheadOf
<1>13. /\ spent' \in Nat /\ borrower_info' \in [Users -> BorrowerInfo]
       /\ \A v \in Users :
            \/ borrower_info'[v] = borrower_info[v]
            \/ /\ borrower_info'[v].interest_index = st.global_interest_index
               /\ borrower_info'[v].reward_index = st.global_reward_index
  BY <1>1, <1>8 DEF IInv, TypeOK
<1>14. state' = new /\ bank' = balance /\ aterra_supply' = aterra_supply
  BY <1>1
<1>15. ~(balance < bank)
  BY <1>2, <1>6, <1>10, SMT
<1> QED
  BY <1>1, <1>2, <1>9, <1>10, <1>12, <1>13, <1>14, <1>15, GoodStep

LEMMA RepayGood == ASSUME IInv, Repay PROVE StepGood
<1>1. PICK u \in Users, a \in Amounts, t \in TargetRates : repay_stable(u, a, t)
  BY DEF Repay
<1> QED
  BY <1>1, InputTypes, RepaymentGood DEF repay_stable

LEMMA RepayFromLiquidationGood == ASSUME IInv, RepayFromLiquidation PROVE StepGood
<1>1. PICK u \in Users, a \in Amounts, t \in TargetRates :
        repay_stable_from_liquidation(u, bank + a, bank, t)
  BY DEF RepayFromLiquidation
<1>2. a \in Nat /\ t \in Nat /\ bank \in Nat
  BY InputTypes, BeforeGood
<1>3. (bank + a) - bank = a
  BY <1>2, SMT
<1>4. settle_repayment(u, a, t)
  BY <1>1, <1>3 DEF repay_stable_from_liquidation
<1> QED
  BY <1>2, <1>4, RepaymentGood

LEMMA ClaimGood == ASSUME IInv, ClaimRewards PROVE StepGood
<1>1. PICK u \in Users, t \in TargetRates : claim_rewards(u, t)
  BY DEF ClaimRewards
<1> DEFINE st == accrued(bank, t)
           liability == settle_borrower(st, borrower_info[u])
           claim == Trunc(liability.pending_rewards)
           info == [liability EXCEPT !.pending_rewards = @ - FromUint(claim)]
<1>2. /\ t \in Nat /\ bank \in Nat /\ aterra_supply \in Nat
      /\ aterra_supply >= InitialDeposit
  BY InputTypes, BeforeGood
<1>20. CanComputeInterest(bank, t)
  BY <1>1 DEF claim_rewards
<1>3. StateGood(st, aterra_supply, bank)
  BY <1>2, <1>20, AccruedGood
<1>4. /\ state' = st /\ borrower_info' = [borrower_info EXCEPT ![u] = info]
      /\ spent' = spent + claim
      /\ UNCHANGED <<config, bank, aterra_supply, interest_config, emission_config,
                     height, emitted>>
  BY <1>1 DEF claim_rewards
<1> HIDE DEF st
<1>5. /\ liability \in BorrowerInfo
      /\ liability.interest_index = st.global_interest_index
      /\ liability.reward_index = st.global_reward_index
  BY <1>3, SettleGood
<1> HIDE DEF liability
<1>6. claim \in Nat /\ claim * Scale <= liability.pending_rewards
  <2>1. liability.pending_rewards \in Nat
    BY <1>5 DEF BorrowerInfo
  <2>2. claim \in Nat /\ Scale * claim <= liability.pending_rewards
    BY <2>1, ScaleAssumption, DivNat, DivInt DEF Trunc
  <2> QED
    BY <2>2, ScaleAssumption, SMT
<1> HIDE DEF claim
<1>7. /\ info \in BorrowerInfo
      /\ info.interest_index = st.global_interest_index
      /\ info.reward_index = st.global_reward_index
  BY <1>5, <1>6, ScaleAssumption, SMT DEF BorrowerInfo, FromUint
<1> HIDE DEF info
<1>8. /\ borrower_info' \in [Users -> BorrowerInfo]
      /\ \A v \in Users :
            \/ borrower_info'[v] = borrower_info[v]
            \/ /\ borrower_info'[v].interest_index = st.global_interest_index
               /\ borrower_info'[v].reward_index = st.global_reward_index
  BY <1>4, <1>7 DEF IInv, TypeOK
<1>9. spent' \in Nat
  BY <1>4, <1>6, SMT DEF IInv, TypeOK
<1>10. state' = st /\ bank' = bank /\ aterra_supply' = aterra_supply /\ ~(bank < bank)
  BY <1>2, <1>4, SMT
<1> QED
  BY <1>2, <1>3, <1>4, <1>8, <1>9, <1>10, GoodStep

\* A step that leaves the state, the balance and the supply alone.
LEMMA UntouchedGood ==
  ASSUME IInv, UNCHANGED <<state, borrower_info, bank, aterra_supply>>, TypeOK',
         height' >= height
  PROVE  StepGood
<1>1. /\ state \in MarketState /\ height \in Nat /\ height' \in Nat /\ bank \in Nat
  BY DEF IInv, TypeOK
<1>2. RateBacked' /\ ahead' = ahead
  BY DEF IInv, RateBacked, ahead, pool_value, FromUint
<1>3. IndexesOrdered'
  BY <1>1, SMT DEF IInv, IndexesOrdered, MarketState, One
<1> QED
  BY <1>1, <1>2, <1>3, SMT DEF StepGood, IInv, MarketState

LEMMA GovernanceGood ==
  ASSUME IInv,
         \/ register_contracts \/ UpdateInterestModel \/ UpdateDistributionModel
  PROVE  StepGood
<1>1. TypeOK
  BY DEF IInv
<1>2. /\ UNCHANGED <<state, borrower_info, bank, aterra_supply>>
      /\ height' = height
  BY DEF register_contracts, UpdateInterestModel, update_interest_model,
         UpdateDistributionModel, update_distribution_model
<1>3. TypeOK'
  <2>1. CASE register_contracts
    BY <1>1, <2>1 DEF register_contracts, TypeOK, MarketConfig
  <2>2. CASE UpdateInterestModel
    BY <1>1, <2>2 DEF UpdateInterestModel, update_interest_model, TypeOK
  <2>3. CASE UpdateDistributionModel
    BY <1>1, <2>3 DEF UpdateDistributionModel, update_distribution_model, TypeOK
  <2> QED
    BY <2>1, <2>2, <2>3
<1>4. height \in Nat
  BY <1>1 DEF TypeOK
<1> QED
  BY <1>2, <1>3, <1>4, UntouchedGood, SMT

LEMMA NextBlockGood == ASSUME IInv, NextBlock PROVE StepGood
<1>1. TypeOK
  BY DEF IInv
<1>2. TypeOK' /\ height' >= height
  <2>1. state.anc_emission_rate \in Nat
    BY <1>1 DEF TypeOK, MarketState
  <2>2. height' \in Nat /\ emitted' \in Nat /\ height' >= height
    BY <1>1, <2>1, SMT DEF NextBlock, TypeOK
  <2> QED
    BY <1>1, <2>2 DEF NextBlock, TypeOK
<1> QED
  BY <1>2, UntouchedGood DEF NextBlock

LEMMA DonationGood == ASSUME IInv, Donation PROVE StepGood
<1>1. PICK a \in Amounts : Donate(a)
  BY DEF Donation
<1>2. /\ a \in Nat /\ bank \in Nat /\ aterra_supply \in Nat
      /\ aterra_supply >= InitialDeposit /\ StateGood(state, aterra_supply, bank)
  BY InputTypes, BeforeGood
<1>3. state \in MarketState /\ pool_value(state, bank) \in Int
  BY <1>2, GoodNumbers
<1>4. bank + a \in Nat /\ ~(bank + a < bank)
  BY <1>2, SMT
<1>5. StateGood(state, aterra_supply, bank + a)
  <2>1. pool_value(state, bank + a) = pool_value(state, bank) + a * Scale
    BY <1>2, <1>3, ScaleAssumption, SMT DEF pool_value, FromUint, MarketState
  <2>2. a * Scale \in Nat /\ state.prev_exchange_rate * aterra_supply \in Int
    BY <1>2, <1>3, ScaleAssumption, SMT DEF MarketState
  <2>3. state.prev_exchange_rate * aterra_supply <= pool_value(state, bank + a)
    BY <1>2, <1>3, <2>1, <2>2, SMT DEF StateGood
  <2> QED
    BY <1>2, <2>3 DEF StateGood
<1>6. spent' \in Nat /\ borrower_info' \in [Users -> BorrowerInfo]
  BY <1>1 DEF Donate, IInv, TypeOK
<1> QED
  BY <1>1, <1>2, <1>4, <1>5, <1>6, GoodStep DEF Donate

\* A holder's burn leaves the rate as it is, and fewer aTerra to back.
LEMMA HolderBurnGood == ASSUME IInv, HolderBurn PROVE StepGood
<1>1. PICK a \in Amounts : holder_burn(a)
  BY DEF HolderBurn
<1>2. /\ a \in Nat /\ a > 0 /\ aterra_supply \in Nat /\ InitialDeposit \in Nat
      /\ state \in MarketState /\ bank \in Nat
      /\ ahead \in Nat
  BY InputTypes, BeforeGood, MarketAssumption DEF IInv, TypeOK
<1>3. /\ aterra_supply' = aterra_supply - a /\ a <= aterra_supply - InitialDeposit
      /\ UNCHANGED <<config, state, borrower_info, bank, interest_config,
                     emission_config, height, spent, emitted>>
  BY <1>1 DEF holder_burn
<1>4. aterra_supply' \in Nat /\ aterra_supply' >= InitialDeposit /\ aterra_supply' <= aterra_supply
  BY <1>2, <1>3, SMT
<1>5. TypeOK'
  BY <1>3, <1>4 DEF IInv, TypeOK
<1>6. RateBacked'
  <2>1. /\ state.prev_exchange_rate \in Nat /\ pool_value(state, bank) \in Int
        /\ pool_value(state, bank)' = pool_value(state, bank)
    BY <1>2, <1>3, RateGreatest DEF MarketState, pool_value, FromUint
  <2>2. aterra_supply' * state.prev_exchange_rate <= aterra_supply * state.prev_exchange_rate
    BY <1>2, <1>4, <2>1, MulMono
  <2> QED
    BY <1>2, <1>3, <1>4, <2>1, <2>2, SMT DEF IInv, RateBacked
<1>7. ahead' > ahead /\ ahead' >= 0
  BY <1>2, <1>3, <1>4, SMT DEF ahead, MarketState
<1>8. IndexesOrdered'
  BY <1>3 DEF IInv, IndexesOrdered, One
<1> QED
  BY <1>2, <1>3, <1>5, <1>6, <1>7, <1>8, SMT DEF StepGood, IInv, MarketState

LEMMA UpdateConfigGood == ASSUME IInv, UpdateConfig PROVE StepGood
<1>1. PICK s \in Users, o \in Users, m \in InterestModels \cup {None},
           d \in DistributionModels, f \in BorrowFactors, t \in TargetRates :
             update_config(s, o, m, d, f, t)
  BY DEF UpdateConfig
<1> DEFINE model == IF m = None THEN config.interest_model ELSE m
           owned == [config EXCEPT !.owner_addr = o]
           capped == [owned EXCEPT !.max_borrow_factor = f]
           modelled == [capped EXCEPT !.interest_model = model]
<1>2. config' = [modelled EXCEPT !.distribution_model = d]
  BY <1>1 DEF update_config
<1>3. config' \in MarketConfig
  <2>1. config \in MarketConfig
    BY DEF IInv, TypeOK
  <2>2. model \in InterestModels
    BY <2>1 DEF MarketConfig
  <2> HIDE DEF model
  <2>3. owned \in MarketConfig
    BY <2>1 DEF MarketConfig
  <2> HIDE DEF owned
  <2>4. capped \in MarketConfig
    BY <2>3 DEF MarketConfig
  <2> HIDE DEF capped
  <2>5. modelled \in MarketConfig
    BY <2>2, <2>4 DEF MarketConfig
  <2> HIDE DEF modelled
  <2> QED
    BY <1>2, <2>5 DEF MarketConfig
<1>4. /\ t \in Nat /\ bank \in Nat /\ aterra_supply \in Nat
      /\ aterra_supply >= InitialDeposit /\ ~(bank < bank)
  BY InputTypes, BeforeGood, SMT
<1>5. StateGood(state', aterra_supply, bank)
  <2>1. CASE UNCHANGED state
    BY <2>1, BeforeGood
  <2>2. CASE CanComputeInterest(bank, t) /\ state' = compute_interest(bank, t)
    BY <1>4, <2>2, AccruedGood
  <2> QED
    BY <1>1, <2>1, <2>2 DEF update_config
<1>6. /\ UNCHANGED <<borrower_info, bank, aterra_supply, interest_config,
                     emission_config, height, spent, emitted>>
      /\ spent \in Nat /\ borrower_info \in [Users -> BorrowerInfo]
  BY <1>1 DEF update_config, IInv, TypeOK
<1> QED
  BY <1>3, <1>4, <1>5, <1>6, GoodStep

LEMMA EmissionNat ==
  ASSUME TypeOK, NEW r \in Nat, NEW t \in Nat, NEW h \in Nat, NEW current \in Nat
  PROVE  query_anc_emission_rate(emission_config[config.distribution_model],
                                 r, t, h, current) \in Nat
<1> DEFINE cfg == emission_config[config.distribution_model]
<1>1. /\ cfg.increment_multiplier \in Nat
      /\ cfg.decrement_multiplier \in Nat
      /\ cfg.emission_cap \in Nat
      /\ cfg.emission_floor \in Nat
  <2>1. cfg \in
          [owner : Users, emission_cap : Nat, emission_floor : Nat,
           increment_multiplier : Nat, decrement_multiplier : Nat]
    BY MarketAssumption DEF TypeOK, MarketConfig
  <2> QED
    BY <2>1
<1> HIDE DEF cfg
<1>2. /\ DecMul(current, cfg.increment_multiplier) \in Nat
      /\ DecMul(current, cfg.decrement_multiplier) \in Nat
  BY <1>1, DecMulNat
<1>3. query_anc_emission_rate(cfg, r, t, h, current) \in Nat
  BY <1>1, <1>2 DEF query_anc_emission_rate
<1> QED
  BY <1>3 DEF cfg

\* The end of an epoch up to the payout of reserves: interest, the rate
\* published anew with the distributed interest, and rewards.
LEMMA EpochInterestGood ==
  ASSUME IInv, NEW d \in Nat, NEW t \in Nat, CanComputeInterest(bank, t)
  PROVE  StateGood(epoch_interest(bank, d, t), aterra_supply, bank + d)
<1> DEFINE st == compute_interest(bank, t)
           rate == compute_exchange_rate_raw(st, aterra_supply, bank + d)
           new == [st EXCEPT !.prev_exchange_rate = rate]
           r == compute_reward(new, height)
<1>1. /\ bank \in Nat /\ aterra_supply \in Nat /\ aterra_supply > 0 /\ height \in Nat
      /\ bank + d \in Nat
  BY BeforeGood, SMT
<1>2. StateGood(st, aterra_supply, bank)
  BY AccruedGood
<1> HIDE DEF st
<1>3. /\ st \in MarketState /\ pool_value(st, bank) \in Int
  BY <1>2, GoodNumbers
<1>4. pool_value(st, bank + d) = pool_value(st, bank) + d * Scale
  BY <1>1, <1>3, ScaleAssumption, SMT DEF pool_value, FromUint, MarketState
<1>5. /\ rate \in Int /\ rate * aterra_supply <= pool_value(st, bank + d)
      /\ \A k \in Int : k * aterra_supply <= pool_value(st, bank + d) => k <= rate
  BY <1>1, <1>3, RateGreatest
<1> HIDE DEF rate
<1>6. rate \in Nat /\ rate >= st.prev_exchange_rate
  <2>1. d * Scale \in Nat /\ st.prev_exchange_rate * aterra_supply \in Int
    BY <1>1, <1>3, ScaleAssumption, SMT DEF MarketState
  <2>2. st.prev_exchange_rate * aterra_supply <= pool_value(st, bank + d)
    BY <1>2, <1>3, <1>4, <2>1, SMT DEF StateGood
  <2> QED
    BY <1>3, <1>5, <2>2, SMT DEF MarketState
<1>7. /\ new \in MarketState
      /\ new.prev_exchange_rate = rate
      /\ new.total_liabilities = st.total_liabilities
      /\ new.total_reserves = st.total_reserves
      /\ new.prev_aterra_supply = st.prev_aterra_supply
      /\ new.last_interest_updated = st.last_interest_updated
      /\ new.last_reward_updated = st.last_reward_updated
      /\ new.global_interest_index = st.global_interest_index
      /\ new.global_reward_index = st.global_reward_index
  BY <1>3, <1>6, SMT DEF MarketState
<1>8. r = epoch_interest(bank, d, t)
  BY DEF epoch_interest, query_epoch_state, compute_interest, st, rate
<1> HIDE DEF new
<1>9. new.global_interest_index >= One
  BY <1>2, <1>3, <1>7, ScaleAssumption, SMT
     DEF StateGood, IInv, TypeOK, IndexesOrdered, MarketState, One
<1>10. /\ r \in MarketState
       /\ r.total_liabilities = new.total_liabilities
       /\ r.total_reserves = new.total_reserves
       /\ r.global_interest_index = new.global_interest_index
       /\ r.last_interest_updated = new.last_interest_updated
       /\ r.prev_aterra_supply = new.prev_aterra_supply
       /\ r.prev_exchange_rate = new.prev_exchange_rate
       /\ r.global_reward_index >= new.global_reward_index
       /\ r.last_reward_updated =
            IF new.last_reward_updated < height THEN height ELSE new.last_reward_updated
  BY <1>1, <1>7, <1>9, RewardKeeps
<1> HIDE DEF r
<1>11. pool_value(r, bank + d) = pool_value(st, bank + d)
  BY <1>7, <1>10 DEF pool_value
<1>12. state \in MarketState
  BY DEF IInv, TypeOK
<1>14. AheadOf(r, aterra_supply) = AheadOf(st, aterra_supply)
  BY <1>7, <1>10 DEF AheadOf
<1>13. StateGood(r, aterra_supply, bank + d)
  BY <1>1, <1>2, <1>3, <1>5, <1>6, <1>7, <1>10, <1>11, <1>12, <1>14, SMT
     DEF StateGood, MarketState
<1> QED
  BY <1>8, <1>13

\* The whole handler, whatever rates and distribution the overseer sends.
LEMMA EpochOperationsGood ==
  ASSUME IInv, NEW x \in Nat, NEW t \in Nat, NEW h \in Nat, NEW d \in Nat,
         execute_epoch_operations(bank, x, t, h, d)
  PROVE  StepGood
<1> DEFINE st == epoch_interest(bank, d, t)
           total == Trunc(st.total_reserves)
           k == epoch_reserves(bank, d, t)
           kept == st.total_reserves - FromUint(k)
           out == Outlay(k)
           rate == query_anc_emission_rate(emission_config[config.distribution_model],
                                           x, t, h, st.anc_emission_rate)
           paid == [st EXCEPT !.total_reserves = kept]
           new == [paid EXCEPT !.anc_emission_rate = rate]
           balance == bank + d - out
<1>2. /\ bank \in Nat
      /\ aterra_supply \in Nat /\ aterra_supply >= InitialDeposit
  BY BeforeGood, MarketAssumption, SMT
<1>20. CanComputeInterest(bank, t)
  BY DEF execute_epoch_operations, can_execute_epoch_operations,
         can_query_epoch_state, CanComputeInterest
<1>3. StateGood(st, aterra_supply, bank + d)
  BY <1>2, <1>20, EpochInterestGood
<1>4. /\ state' = new /\ bank' = balance
      /\ UNCHANGED <<config, borrower_info, aterra_supply, interest_config,
                     emission_config, height, spent, emitted>>
  BY DEF execute_epoch_operations
<1>5. st \in MarketState /\ st.total_reserves \in Nat
  BY <1>3 DEF StateGood, MarketState
<1>6. /\ k \in Nat /\ Scale * k <= st.total_reserves /\ (k > 0 => k < bank)
      /\ k > 0 => st.total_reserves < Scale * k + Scale
  <2>1. k = IF bank > total THEN total ELSE 0
    BY DEF epoch_reserves
  <2>2. /\ total \in Nat /\ Scale * total <= st.total_reserves
        /\ st.total_reserves < Scale * total + Scale
    BY <1>5, ScaleAssumption, DivNat, DivInt DEF Trunc
  <2> HIDE DEF total, k
  <2> QED
    BY <1>2, <1>5, <2>1, <2>2, ScaleAssumption, SMT
<1> HIDE DEF st, k
<1>7. kept \in Nat /\ kept = st.total_reserves - Scale * k
  BY <1>5, <1>6, ScaleAssumption, SMT DEF FromUint
<1>8. out \in Nat /\ out <= k
  BY <1>6, OutlayBound
<1>9. rate \in Nat
  BY <1>2, <1>5, EmissionNat DEF MarketState, IInv
<1> HIDE DEF kept, out, rate
<1>10. /\ paid \in MarketState
       /\ paid.total_reserves = kept
       /\ paid.total_liabilities = st.total_liabilities
       /\ paid.prev_aterra_supply = st.prev_aterra_supply
       /\ paid.prev_exchange_rate = st.prev_exchange_rate
       /\ paid.last_interest_updated = st.last_interest_updated
       /\ paid.last_reward_updated = st.last_reward_updated
       /\ paid.global_interest_index = st.global_interest_index
       /\ paid.global_reward_index = st.global_reward_index
  BY <1>5, <1>7, SMT DEF MarketState
<1> HIDE DEF paid
<1>11. /\ new \in MarketState
       /\ new.total_reserves = kept
       /\ new.total_liabilities = st.total_liabilities
       /\ new.prev_aterra_supply = st.prev_aterra_supply
       /\ new.prev_exchange_rate = st.prev_exchange_rate
       /\ new.last_interest_updated = st.last_interest_updated
       /\ new.last_reward_updated = st.last_reward_updated
       /\ new.global_interest_index = st.global_interest_index
       /\ new.global_reward_index = st.global_reward_index
  BY <1>9, <1>10, SMT DEF MarketState
<1> HIDE DEF new
<1>12. balance \in Nat /\ (k > 0 => balance >= 1) /\ (k = 0 => ~(balance < bank))
  BY <1>2, <1>6, <1>8, SMT
<1>13. balance < bank => FromUint(balance) >= new.total_reserves
  <2>1. CASE k > 0
    <3>1. 1 * Scale <= balance * Scale
      BY <1>12, <2>1, ScaleAssumption, MulMono, SMT
    <3> QED
      BY <3>1, <2>1, <1>5, <1>6, <1>7, <1>11, <1>12, ScaleAssumption, SMT DEF FromUint
  <2>2. CASE k = 0
    BY <1>12, <2>2
  <2> QED
    BY <1>6, <2>1, <2>2, SMT
<1>14. new.prev_exchange_rate * aterra_supply <= pool_value(new, balance)
  <2>1. pool_value(st, bank + d) <= pool_value(new, balance)
    <3>1. out * Scale <= Scale * k
      BY <1>6, <1>8, ScaleAssumption, MulMono, SMT
    <3>2. balance * Scale = (bank + d) * Scale - out * Scale
      BY <1>2, <1>8, ScaleAssumption, SMT
    <3> QED
      BY <3>1, <3>2, <1>2, <1>5, <1>6, <1>7, <1>8, <1>11, <1>12,
         ScaleAssumption, SMT DEF pool_value, FromUint, MarketState
  <2>2. /\ pool_value(st, bank + d) \in Int /\ pool_value(new, balance) \in Int
        /\ st.prev_exchange_rate * aterra_supply \in Int
    BY <1>2, <1>5, <1>11, <1>12, ScaleAssumption, SMT
       DEF pool_value, FromUint, MarketState
  <2> QED
    BY <1>3, <1>11, <2>1, <2>2, SMT DEF StateGood
<1>15. StateGood(new, aterra_supply, balance)
  BY <1>3, <1>11, <1>14 DEF StateGood, AheadOf
<1>16. spent' \in Nat /\ borrower_info' \in [Users -> BorrowerInfo]
  BY <1>4 DEF IInv, TypeOK
<1> QED
  BY <1>2, <1>4, <1>12, <1>13, <1>15, <1>16, GoodStep

LEMMA EpochGood == ASSUME IInv, EpochOperations PROVE StepGood
<1>1. PICK x \in EpochRates, t \in TargetRates, h \in ThresholdRates,
           d \in Amounts \cup {0} : execute_epoch_operations(bank, x, t, h, d)
  BY DEF EpochOperations
<1>2. x \in Nat /\ t \in Nat /\ h \in Nat /\ d \in Nat
  BY MarketAssumption, SMT
<1> QED
  BY <1>1, <1>2, EpochOperationsGood

(***************************************************************************)
(* Interest of the blocks that have passed                                 *)
(***************************************************************************)
\* The step settles interest with what was there before it.
Accrues ==
    /\ state'.global_interest_index = index_due
    /\ state'.last_interest_updated = height
    /\ height' = height

\* What compute_interest stores is the index that was due.
LEMMA AccruedIndex ==
  ASSUME IInv, NEW target \in Nat, CanComputeInterest(bank, target)
  PROVE  LET r == compute_interest(bank, target)
             a == accrued(bank, target)
         IN  /\ r.global_interest_index = index_due
             /\ r.last_interest_updated = height
             /\ a.global_interest_index = index_due
             /\ a.last_interest_updated = height
             /\ r \in MarketState /\ a \in MarketState
<1> DEFINE rate == borrow_rate(state, bank)
           c == charge_interest(state, height, rate)
           yield == excess_yield(c, height, aterra_supply, bank, target)
           res == [c EXCEPT !.total_reserves = @ + yield]
           new == compute_exchange_rate_raw(res, aterra_supply, bank)
           r == compute_interest(bank, target)
           a == accrued(bank, target)
<1>1. /\ state \in MarketState /\ bank \in Nat /\ height \in Nat /\ TypeOK
      /\ aterra_supply \in Nat /\ state.last_interest_updated <= height
      /\ pool_value(state, bank) >= 0
  BY BeforeGood DEF IInv, TypeOK, IndexesOrdered
<1>2. /\ r \in MarketState /\ a \in MarketState
      /\ r.global_interest_index >= state.global_interest_index
  BY AccruedGood DEF StateGood
<1>3. rate \in Nat
  BY <1>1, BorrowRateNat
<1>4. r.global_interest_index = index_due /\ r.last_interest_updated = height
  <2>1. CASE state.last_interest_updated >= height
    <3>1. r = state
      BY <2>1 DEF compute_interest, compute_interest_raw
    <3> HIDE DEF r
    <3>2. state.last_interest_updated = height
      BY <1>1, <2>1, SMT DEF MarketState
    <3> QED
      BY <2>1, <3>1, <3>2 DEF index_due
  <2>2. CASE ~(state.last_interest_updated >= height)
    <3>1. r = [[[res EXCEPT !.prev_aterra_supply = aterra_supply]
                     EXCEPT !.prev_exchange_rate = new]
                     EXCEPT !.last_interest_updated = height]
      BY <2>2 DEF compute_interest, compute_interest_raw
    <3>2. state.last_interest_updated < height
      BY <1>1, <2>2, SMT DEF MarketState
    <3>3. c \in MarketState
      BY <1>1, <1>3, <3>2, ChargeGrows
    <3>4. index_due = c.global_interest_index
      BY <2>2 DEF index_due
    <3> HIDE DEF r, new, yield, c
    <3>5. /\ DOMAIN res = DOMAIN c
          /\ res.global_interest_index = c.global_interest_index
      BY <3>3, SMT DEF MarketState
    <3>6. DOMAIN c = {"total_liabilities", "total_reserves", "last_interest_updated",
                      "last_reward_updated", "global_interest_index",
                      "global_reward_index", "anc_emission_rate",
                      "prev_aterra_supply", "prev_exchange_rate"}
      BY <3>3, SMT DEF MarketState
    <3> HIDE DEF res
    <3> QED
      BY <3>1, <3>4, <3>5, <3>6, SMT
  <2> QED
    BY <2>1, <2>2
<1>5. a.global_interest_index = r.global_interest_index
      /\ a.last_interest_updated = r.last_interest_updated
  <2>1. r.global_interest_index >= One
    <3>1. /\ r.global_interest_index >= state.global_interest_index
          /\ state.global_interest_index >= One
      BY <1>2 DEF IInv, IndexesOrdered
    <3> QED
      BY <1>1, <1>2, <3>1, ScaleAssumption, SMT DEF MarketState, One
  <2>2. a = compute_reward(r, height)
    BY DEF accrued
  <2> HIDE DEF r, a
  <2> QED
    BY <1>1, <1>2, <2>1, <2>2, RewardKeeps
<1> HIDE DEF r, a
<1> QED
  BY <1>2, <1>4, <1>5 DEF r, a

\* The calls of one borrower settle the borrower's own record with that index.
LEMMA LoanCallAccrues ==
  ASSUME IInv, NEW u \in Users, NEW a \in Nat, NEW l, NEW t \in Nat,
         \/ borrow_stable(u, a, l, t)
         \/ settle_repayment(u, a, t)
         \/ claim_rewards(u, t)
  PROVE  Accrues
<1> DEFINE st == accrued(bank, t)
           liability == settle_borrower(st, borrower_info[u])
           repay == Lesser(liability.loan_amount, a)
<1>1. /\ st \in MarketState /\ st.global_interest_index = index_due
      /\ st.last_interest_updated = height
  BY AccruedIndex DEF borrow_stable, settle_repayment, claim_rewards
<1>2. /\ height' = height
      /\ \/ state' = [st EXCEPT !.total_liabilities = @ + FromUint(a)]
         \/ state' = [st EXCEPT !.total_liabilities = @ - FromUint(repay)]
         \/ state' = st
  BY DEF borrow_stable, settle_repayment, claim_rewards
<1> HIDE DEF st, repay
<1>3. /\ state'.global_interest_index = st.global_interest_index
      /\ state'.last_interest_updated = st.last_interest_updated
  BY <1>1, <1>2, SMT DEF MarketState
<1> QED
  BY <1>1, <1>2, <1>3 DEF Accrues

LEMMA DepositorAccrues == ASSUME IInv, Deposit \/ Redeem PROVE Accrues
<1>1. PICK a \in Amounts, t \in TargetRates : deposit_stable(a, t) \/ redeem_stable(a, t)
  BY DEF Deposit, Redeem
<1> DEFINE st == accrued(bank, t)
           rate == compute_exchange_rate_raw(st, aterra_supply, bank)
           mint == UintDivDec(a, rate)
<1>2. /\ st \in MarketState /\ st.global_interest_index = index_due
      /\ st.last_interest_updated = height
  BY <1>1, InputTypes, AccruedIndex DEF deposit_stable, redeem_stable
<1>3. /\ height' = height
      /\ \/ state' = [st EXCEPT !.prev_aterra_supply = @ + mint]
         \/ state' = [st EXCEPT !.prev_aterra_supply = @ - a]
  BY <1>1 DEF deposit_stable, redeem_stable
<1> HIDE DEF st, mint
<1>4. /\ state'.global_interest_index = st.global_interest_index
      /\ state'.last_interest_updated = st.last_interest_updated
  BY <1>2, <1>3, SMT DEF MarketState
<1> QED
  BY <1>2, <1>3, <1>4 DEF Accrues

LEMMA EpochAccrues == ASSUME IInv, EpochOperations PROVE Accrues
<1>1. PICK x \in EpochRates, t \in TargetRates, h \in ThresholdRates,
           d \in Amounts \cup {0} : execute_epoch_operations(bank, x, t, h, d)
  BY DEF EpochOperations
<1> DEFINE r == compute_interest(bank, t)
           q == query_epoch_state(height, bank, d, t)
           priced == [r EXCEPT !.prev_exchange_rate = q]
           st == epoch_interest(bank, d, t)
           kept == st.total_reserves - FromUint(epoch_reserves(bank, d, t))
           emission == query_anc_emission_rate(
                         emission_config[config.distribution_model],
                         x, t, h, st.anc_emission_rate)
<1>2. /\ t \in Nat /\ d \in Nat /\ bank + d \in Nat /\ height \in Nat
  BY MarketAssumption, BeforeGood, SMT
<1>20. CanComputeInterest(bank, t)
  BY <1>1 DEF execute_epoch_operations, can_execute_epoch_operations,
              can_query_epoch_state, CanComputeInterest
<1>3. /\ r \in MarketState /\ r.global_interest_index = index_due
      /\ r.last_interest_updated = height
  BY <1>2, <1>20, AccruedIndex
<1>4. StateGood(st, aterra_supply, bank + d)
  BY <1>2, <1>20, EpochInterestGood
<1>5. st.global_interest_index = index_due /\ st.last_interest_updated = height
  <2>1. st = compute_reward(priced, height)
    BY DEF epoch_interest
  <2>2. compute_reward(priced, height).global_interest_index = priced.global_interest_index
        /\ compute_reward(priced, height).last_interest_updated = priced.last_interest_updated
    <3> HIDE DEF r, q
    <3>1. DOMAIN priced = DOMAIN r
      OBVIOUS
    <3>2. DOMAIN r = {"total_liabilities", "total_reserves", "last_interest_updated",
                      "last_reward_updated", "global_interest_index",
                      "global_reward_index", "anc_emission_rate",
                      "prev_aterra_supply", "prev_exchange_rate"}
      BY <1>3, SMT DEF MarketState
    <3> HIDE DEF priced
    <3> QED
      BY <3>1, <3>2, SMT DEF compute_reward
  <2>3. /\ priced.global_interest_index = r.global_interest_index
        /\ priced.last_interest_updated = r.last_interest_updated
    <3> HIDE DEF r, q
    <3> QED
      BY <1>3, SMT DEF MarketState
  <2> HIDE DEF st, priced
  <2> QED
    BY <1>3, <2>1, <2>2, <2>3
<1>6. /\ height' = height
      /\ state' = [[st EXCEPT !.total_reserves = kept] EXCEPT !.anc_emission_rate = emission]
  BY <1>1 DEF execute_epoch_operations
<1> HIDE DEF st, kept, emission
<1>7. /\ state'.global_interest_index = st.global_interest_index
      /\ state'.last_interest_updated = st.last_interest_updated
  BY <1>4, <1>6, SMT DEF StateGood, MarketState
<1> QED
  BY <1>5, <1>6, <1>7 DEF Accrues

\* What was due stays due where interest was settled, and where nothing of
\* what it is computed from has changed.
LEMMA DueAfter ==
  ASSUME IInv,
         \/ Accrues
         \/ /\ UNCHANGED <<state, bank, height, interest_config>>
            /\ config'.interest_model = config.interest_model
  PROVE  index_due' = index_due
<1>1. CASE Accrues
  <2>1. height \in Nat
    BY BeforeGood
  <2>2. state'.last_interest_updated >= height'
    BY <1>1, <2>1, SMT DEF Accrues
  <2> QED
    BY <1>1, <2>2 DEF Accrues, index_due
<1>2. CASE /\ UNCHANGED <<state, bank, height, interest_config>>
           /\ config'.interest_model = config.interest_model
  BY <1>2 DEF index_due, borrow_rate, charge_interest
<1> QED
  BY <1>1, <1>2

LEMMA ConfigKeepsDue == ASSUME IInv, UpdateConfig \/ register_contracts PROVE index_due' = index_due
<1>1. CASE register_contracts
  <2>1. config'.interest_model = config.interest_model
    BY <1>1, SMT DEF register_contracts, IInv, TypeOK, MarketConfig
  <2> QED
    BY <1>1, <2>1, DueAfter DEF register_contracts
<1>2. CASE UpdateConfig
  <2>1. PICK s \in Users, o \in Users, m \in InterestModels \cup {None},
             d \in DistributionModels, f \in BorrowFactors, t \in TargetRates :
               update_config(s, o, m, d, f, t)
    BY <1>2 DEF UpdateConfig
  <2>2. CASE m = None
    <3>1. config'.interest_model = config.interest_model
      BY <2>1, <2>2, SMT DEF update_config, IInv, TypeOK, MarketConfig
    <3>2. UNCHANGED <<state, bank, height, interest_config>>
      BY <2>1, <2>2 DEF update_config
    <3> QED
      BY <3>1, <3>2, DueAfter
  <2>3. CASE m # None
    <3>1. Accrues
      BY <2>1, <2>3, InputTypes, AccruedIndex DEF update_config, Accrues
    <3> QED
      BY <3>1, DueAfter
  <2> QED
    BY <2>2, <2>3
<1> QED
  BY <1>1, <1>2

(***************************************************************************)
(* The theorems                                                            *)
(***************************************************************************)
LEMMA InitGood == Init => IInv
<1> SUFFICES ASSUME Init PROVE IInv
  OBVIOUS
<1>1. Scale \in Nat /\ Scale > 0 /\ InitialDeposit \in Nat /\ InitialDeposit > 0
      /\ InitialEmission \in Nat
  BY ScaleAssumption, MarketAssumption
<1>2. config \in MarketConfig
  BY DEF Init, MarketConfig
<1>3. state \in MarketState
  BY <1>1 DEF Init, MarketState, One
<1>4. borrower_info \in [Users -> BorrowerInfo]
  BY <1>1 DEF Init, BorrowerInfo, One
<1>5. TypeOK
  BY <1>1, <1>2, <1>3, <1>4, SMT DEF Init, TypeOK
<1>6. RateBacked
  <2>1. /\ state.prev_exchange_rate = Scale /\ state.total_liabilities = 0
        /\ state.total_reserves = 0 /\ bank = InitialDeposit
        /\ aterra_supply = InitialDeposit
    BY DEF Init, One
  <2> QED
    BY <1>1, <2>1, SMT DEF RateBacked, pool_value, FromUint, One
<1>7. ahead = 0
  BY <1>1, SMT DEF Init, ahead
<1>8. IndexesOrdered
  BY <1>1, SMT DEF Init, IndexesOrdered, One
<1> QED
  BY <1>5, <1>6, <1>7, <1>8, SMT DEF IInv

LEMMA StepIsGood == ASSUME IInv, [Next]_mvars PROVE StepGood
<1>1. CASE UNCHANGED mvars
  <2>1. UNCHANGED <<state, borrower_info, bank, aterra_supply>> /\ TypeOK'
        /\ height' = height
    BY <1>1 DEF mvars, IInv, TypeOK
  <2>2. height' >= height
    BY <2>1, SMT DEF IInv, TypeOK
  <2> QED
    BY <2>1, <2>2, UntouchedGood
<1>2. CASE Next
  BY <1>2, DepositGood, RedeemGood, BorrowGood, RepayGood, RepayFromLiquidationGood,
     ClaimGood, GovernanceGood, UpdateConfigGood, EpochGood, NextBlockGood,
     DonationGood, HolderBurnGood DEF Next
<1> QED
  BY <1>1, <1>2

\* IInv, and with it each of its four conjuncts, is an invariant.
THEOREM Invariance == Spec => []IInv
<1>1. IInv /\ [Next]_mvars => IInv'
  BY StepIsGood DEF StepGood
<1> QED
  BY <1>1, InitGood, PTL DEF Spec

\* Every number the market stores stays a natural number: none of the
\* subtractions that the handlers perform is taken below zero.
THEOREM TypeCorrect == Spec => []TypeOK
<1>1. IInv => TypeOK
  BY DEF IInv
<1> QED
  BY <1>1, Invariance, PTL

\* At any scale, tax and rates, the pool covers every aTerra at the exchange
\* rate last published, whatever the users, the owner and the epochs do.
THEOREM RateAlwaysBacked == Spec => []RateBacked
<1>1. IInv => RateBacked
  BY DEF IInv
<1> QED
  BY <1>1, Invariance, PTL

\* Handler by handler, prev_aterra_supply is kept in step with the token's supply:
\* the two only come apart by what holders burn, and until interest is computed.
THEOREM PrevSupplyAlwaysTracks == Spec => PrevSupplyTracks
<1>1. Init => ahead = 0
  BY MarketAssumption, SMT DEF Init, ahead
<1>2. IInv /\ [Next]_mvars
        => [\/ ahead' \in {ahead, 0}
            \/ ahead' > ahead /\ UNCHANGED <<state, bank>>]_mvars
  BY StepIsGood DEF StepGood
<1> QED
  BY <1>1, <1>2, Invariance, PTL DEF Spec, PrevSupplyTracks

\* With IInv, interest can be computed at any later block.
LEMMA NeverStuck == ASSUME IInv PROVE InterestNeverStuck
<1> SUFFICES ASSUME Undisturbed, NEW at \in height .. height + 2, NEW t \in TargetRates
             PROVE  interest_computable(state, at, bank, aterra_supply,
                                        borrow_rate(state, bank), t)
  BY DEF InterestNeverStuck
<1>1. /\ bank \in Nat /\ aterra_supply \in Nat /\ aterra_supply > 0
      /\ height \in Nat /\ pool_value(state, bank) >= 0
      /\ Backed(state, aterra_supply, bank)
      /\ state.prev_exchange_rate > 0 /\ state.prev_aterra_supply <= aterra_supply
  BY BeforeGood DEF Undisturbed
<1>2. state \in MarketState /\ TypeOK
  BY DEF IInv, TypeOK
<1>3. at \in Nat /\ t \in Nat
  BY <1>1, InputTypes, SMT
<1>4. borrow_rate(state, bank) \in Nat
  BY <1>1, <1>2, BorrowRateNat
<1> QED
  BY <1>1, <1>2, <1>3, <1>4, AccrualComputes

\* Unless holders have burned aTerra behind its back, accrual never panics: at any
\* later block, for any target rate, the unsigned subtractions of
\* compute_interest stay at or above zero.
THEOREM InterestNeverGetsStuck == Spec => []InterestNeverStuck
<1>1. IInv => InterestNeverStuck
  BY NeverStuck
<1> QED
  BY <1>1, Invariance, PTL

\* The exchange rate at which the market has published its aTerra never falls, but
\* when interest is computed after holders have burned aTerra.
THEOREM RateNeverFalls == Spec => ExchangeRateNeverFalls
<1>1. IInv /\ [Next]_mvars
        => [ahead = 0 => state'.prev_exchange_rate >= state.prev_exchange_rate]_mvars
  BY StepIsGood DEF StepGood
<1> QED
  BY <1>1, Invariance, PTL DEF Spec, ExchangeRateNeverFalls

\* No payment takes the market below its reserves.
THEOREM ReservesSpared == Spec => PaymentsSpareReserves
<1>1. IInv /\ [Next]_mvars
        => [bank' < bank => FromUint(bank') >= state'.total_reserves]_mvars
  BY StepIsGood DEF StepGood
<1> QED
  BY <1>1, Invariance, PTL DEF Spec, PaymentsSpareReserves

\* Nobody's index runs ahead of the market's, nor the market's of the block.
THEOREM IndexesAlwaysOrdered == Spec => []IndexesOrdered
<1>1. IInv => IndexesOrdered
  BY DEF IInv
<1> QED
  BY <1>1, Invariance, PTL

\* A call never changes the interest of the blocks that have passed, neither by
\* what it moves nor by the model it installs.
THEOREM PastInterestKept == Spec => InterestNotRetroactive
<1> DEFINE Kept == state' # state \/ config' # config => index_due' = index_due
<1>1. ASSUME IInv, Next PROVE Kept
  <2>1. CASE Deposit \/ Redeem
    BY <1>1, <2>1, DepositorAccrues, DueAfter
  <2>2. CASE Borrow \/ Repay \/ RepayFromLiquidation \/ ClaimRewards
    <3>1. Accrues
      <4>1. CASE Borrow
        BY <1>1, <4>1, InputTypes, LoanCallAccrues DEF Borrow
      <4>2. CASE Repay
        BY <1>1, <4>2, InputTypes, LoanCallAccrues DEF Repay, repay_stable
      <4>3. CASE RepayFromLiquidation
        <5>1. PICK u \in Users, a \in Amounts, t \in TargetRates :
                settle_repayment(u, (bank + a) - bank, t)
          BY <4>3 DEF RepayFromLiquidation, repay_stable_from_liquidation
        <5>2. (bank + a) - bank \in Nat
          BY <1>1, BeforeGood, InputTypes, SMT
        <5> QED
          BY <1>1, <5>1, <5>2, InputTypes, LoanCallAccrues
      <4>4. CASE ClaimRewards
        <5>1. 0 \in Nat
          OBVIOUS
        <5> QED
          BY <1>1, <4>4, <5>1, InputTypes, LoanCallAccrues DEF ClaimRewards
      <4> QED
        BY <2>2, <4>1, <4>2, <4>3, <4>4
    <3> QED
      BY <1>1, <3>1, DueAfter
  <2>3. CASE register_contracts \/ UpdateConfig
    BY <1>1, <2>3, ConfigKeepsDue
  <2>4. CASE EpochOperations
    BY <1>1, <2>4, EpochAccrues, DueAfter
  <2>5. CASE UpdateInterestModel \/ UpdateDistributionModel \/ NextBlock \/ Donation
                \/ HolderBurn
    BY <2>5 DEF UpdateInterestModel, update_interest_model, UpdateDistributionModel,
                update_distribution_model, NextBlock, Donation, Donate,
                HolderBurn, holder_burn
  <2> QED
    BY <1>1, <2>1, <2>2, <2>3, <2>4, <2>5 DEF Next
<1>2. IInv /\ [Next]_mvars => [Kept]_mvars
  BY <1>1
<1> QED
  BY <1>2, Invariance, PTL DEF Spec, InterestNotRetroactive

\* Depositing and redeeming at once gains nothing, in spite of rounding: the
\* rate may only rise by what rounding the mint left in the pool.
THEOREM NoProfitFromRounding == Spec => []DepositRedeemNoProfit
<1>1. IInv => DepositRedeemNoProfit
  <2> DEFINE rate == compute_exchange_rate_raw(state, aterra_supply, bank)
             mint(a) == UintDivDec(a, rate)
             after(a) == compute_exchange_rate_raw(state, aterra_supply + mint(a), bank + a)
  <2> SUFFICES ASSUME IInv, rate > 0, NEW a \in Amounts
               PROVE  UintMulDec(mint(a), after(a)) <= a
    BY DEF DepositRedeemNoProfit
  <2> DEFINE value == pool_value(state, bank)
             m == mint(a)
             later == after(a)
  <2>1. /\ a \in Nat /\ bank \in Nat /\ aterra_supply \in Nat /\ aterra_supply > 0
        /\ StateGood(state, aterra_supply, bank)
    BY InputTypes, BeforeGood
  <2>2. /\ state \in MarketState /\ value \in Int /\ rate \in Nat
        /\ rate >= state.prev_exchange_rate
    BY <2>1, GoodNumbers
  <2>3. value < (rate + 1) * aterra_supply
    <3>1. \A k \in Int : k * aterra_supply <= value => k <= rate
      BY <2>1, <2>2, RateGreatest
    <3>2. ~((rate + 1) * aterra_supply <= value)
      BY <2>2, <3>1, SMT
    <3> QED
      BY <2>1, <2>2, <3>2, SMT
  <2>4. rate > 0
    OBVIOUS
  <2> HIDE DEF rate
  <2>5. m \in Nat /\ m * rate <= a * Scale
    BY <2>1, <2>2, <2>4, UintDivDecBound
  <2> HIDE DEF m, mint
  <2>6. later \in Int /\ later * (aterra_supply + m) <= value + a * Scale
    <3>1. /\ aterra_supply + m \in Nat /\ aterra_supply + m > 0 /\ bank + a \in Nat
      BY <2>1, <2>5, SMT
    <3>2. /\ later \in Int
          /\ later * (aterra_supply + m) <= pool_value(state, bank + a)
      BY <2>2, <3>1, RateGreatest DEF m
    <3>3. pool_value(state, bank + a) = value + a * Scale
      BY <2>1, <2>2, ScaleAssumption, SMT DEF pool_value, FromUint, MarketState
    <3> QED
      BY <3>2, <3>3
  <2> HIDE DEF later, value, after
  <2>7. m * later <= a * Scale
    <3>1. CASE later <= rate
      <4>1. later * m <= rate * m
        BY <2>2, <2>5, <2>6, <3>1, MulMono, SMT
      <4> QED
        BY <4>1, <2>1, <2>2, <2>5, <2>6, ScaleAssumption, SMT
    <3>2. CASE rate + 1 <= later
      <4>1. (rate + 1) * aterra_supply <= later * aterra_supply
        BY <2>1, <2>2, <2>6, <3>2, MulMono, SMT
      <4>2. later * (aterra_supply + m) = later * aterra_supply + m * later
        BY <2>1, <2>5, <2>6, SMT
      <4> QED
        BY <4>1, <4>2, <2>1, <2>2, <2>3, <2>5, <2>6, ScaleAssumption, SMT
    <3> QED
      BY <2>2, <2>6, <3>1, <3>2, SMT
  <2>8. UintMulDec(m, later) <= a
    <3>1. m * later \in Int /\ a * Scale \in Int
      BY <2>1, <2>5, <2>6, ScaleAssumption, SMT
    <3>2. (m * later) \div Scale <= (a * Scale) \div Scale
      BY <2>7, <3>1, ScaleAssumption, DivMono
    <3>3. (a * Scale) \div Scale = a
      <4>1. (a * Scale) \div (1 * Scale) = a \div 1
        BY <2>1, ScaleAssumption, DivCommonFactor
      <4> QED
        BY <4>1, <2>1, ScaleAssumption, SMT
    <3> QED
      BY <3>2, <3>3 DEF UintMulDec
  <2> QED
    BY <2>8 DEF m, later
<1> QED
  BY <1>1, Invariance, PTL

\* With nothing lent out, all aTerra held outside the market is redeemable.
THEOREM RedeemableWithoutDebt == Spec => []AllRedeemableWithoutDebt
<1>1. IInv => AllRedeemableWithoutDebt
  <2> DEFINE rate == borrow_rate(state, bank)
             st(at, t) == compute_interest_raw(state, at, bank, aterra_supply, rate, t)
             price(at, t) == compute_exchange_rate_raw(st(at, t), aterra_supply, bank)
             held == aterra_supply - InitialDeposit
  <2> SUFFICES ASSUME IInv, Undisturbed, state.total_liabilities = 0,
                      NEW at \in height .. height + 2, NEW t \in TargetRates
               PROVE  assert_redeem_amount(st(at, t), bank,
                                           UintMulDec(held, price(at, t)))
    BY DEF AllRedeemableWithoutDebt
  <2> DEFINE r == st(at, t)
             p == price(at, t)
             redeem == UintMulDec(held, p)
  <2>1. /\ bank \in Nat /\ aterra_supply \in Nat /\ aterra_supply > 0
        /\ height \in Nat /\ pool_value(state, bank) >= 0
        /\ Backed(state, aterra_supply, bank)
        /\ held \in Nat /\ held <= aterra_supply
        /\ state.prev_exchange_rate > 0 /\ state.prev_aterra_supply <= aterra_supply
    BY BeforeGood, MarketAssumption, SMT DEF Undisturbed
  <2>2. state \in MarketState /\ TypeOK
    BY DEF IInv, TypeOK
  <2>3. at \in Nat /\ t \in Nat
    BY <2>1, InputTypes, SMT
  <2>4. rate \in Nat
    BY <2>1, <2>2, BorrowRateNat
  <2> HIDE DEF rate
  <2>5. /\ r \in MarketState /\ Backed(r, aterra_supply, bank)
        /\ r.total_liabilities = 0
    <3>1. r \in MarketState /\ Backed(r, aterra_supply, bank)
      BY <2>1, <2>2, <2>3, <2>4, AccrualComputes, AccrualBacked DEF AccruedFrom
    <3>2. r.total_liabilities = 0
      BY <2>1, <2>2, <2>3, <2>4, AccrualMakesNoDebt
    <3> QED
      BY <3>1, <3>2
  <2> HIDE DEF r
  <2>6. /\ p \in Nat /\ p * aterra_supply <= pool_value(r, bank)
    <3>1. /\ p \in Int /\ p * aterra_supply <= pool_value(r, bank)
          /\ \A k \in Int : k * aterra_supply <= pool_value(r, bank) => k <= p
      BY <2>1, <2>5, RateGreatest DEF r
    <3>2. r.prev_exchange_rate \in Nat
      BY <2>5 DEF MarketState
    <3> QED
      BY <3>1, <3>2, <2>5, SMT DEF Backed
  <2> HIDE DEF p, held
  <2>7. redeem \in Nat /\ redeem * Scale <= held * p
    BY <2>1, <2>6, UintMulDecBound
  <2> HIDE DEF redeem
  <2>8. held * p <= aterra_supply * p
    BY <2>1, <2>6, MulMono, SMT
  <2>9. redeem * Scale + r.total_reserves <= bank * Scale
    BY <2>1, <2>5, <2>6, <2>7, <2>8, ScaleAssumption, SMT
       DEF pool_value, FromUint, MarketState
  <2>10. assert_redeem_amount(r, bank, redeem)
    BY <2>9 DEF assert_redeem_amount, FromUint
  <2> QED
    BY <2>10 DEF r, p, redeem
<1> QED
  BY <1>1, Invariance, PTL

\* The market implements the promise of RateFloor: its initial state maps to an
\* initial state and every step to a step or a stutter.
THEOREM ToRateFloor == Spec => ImplementsRateFloor
<1>1. Init => Floor!FloorInit
  <2> SUFFICES ASSUME Init PROVE Floor!FloorInit
    OBVIOUS
  <2>1. IInv
    BY InitGood
  <2>2. /\ pool_value(state, bank) \in Int /\ aterra_supply \in Nat
        /\ RateBacked /\ state.prev_exchange_rate = One
    BY <2>1, BeforeGood, GoodNumbers DEF IInv, Init
  <2>3. ahead = 0
    BY MarketAssumption, SMT DEF Init, ahead
  <2> QED
    BY <2>2, <2>3 DEF Floor!FloorInit, Floor!Covered, RateBacked
<1>2. IInv /\ [Next]_mvars => [Floor!Trade \/ Floor!Discard]_(Floor!floorVars)
  <2> SUFFICES ASSUME IInv, [Next]_mvars PROVE Floor!Trade \/ Floor!Discard
    BY DEF Floor!floorVars
  <2>1. /\ IInv'
        /\ ahead = 0 => state'.prev_exchange_rate >= state.prev_exchange_rate
        /\ \/ ahead' \in {ahead, 0}
           \/ ahead' > ahead /\ UNCHANGED <<state, bank>>
    BY StepIsGood DEF StepGood
  <2>2. /\ state' \in MarketState /\ aterra_supply' \in Nat /\ bank' \in Nat
        /\ RateBacked'
    BY <2>1 DEF IInv, TypeOK
  <2>3. pool_value(state, bank)' \in Int
    BY <2>2, ScaleAssumption, SMT DEF pool_value, FromUint, MarketState
  <2>4. state'.prev_exchange_rate \in Nat
    BY <2>2 DEF MarketState
  <2>5. CASE ahead' \in {ahead, 0}
    BY <2>1, <2>2, <2>3, <2>4, <2>5 DEF Floor!Trade, Floor!Covered, RateBacked
  <2>6. CASE ahead' > ahead /\ UNCHANGED <<state, bank>>
    <3>1. /\ aterra_supply \in Nat /\ state.prev_aterra_supply \in Nat
          /\ InitialDeposit \in Nat
      BY MarketAssumption DEF IInv, TypeOK, MarketState
    <3>2. /\ aterra_supply' < aterra_supply
          /\ ahead' = ahead + (aterra_supply - aterra_supply')
      BY <2>2, <2>6, <3>1, SMT DEF ahead
    <3>3. pool_value(state, bank)' = pool_value(state, bank)
      BY <2>6 DEF pool_value, FromUint
    <3> QED
      BY <2>2, <2>6, <3>2, <3>3 DEF Floor!Discard
  <2> QED
    BY <2>1, <2>5, <2>6
<1> QED
  BY <1>1, <1>2, Invariance, PTL DEF Spec, ImplementsRateFloor, Floor!FloorSpec

-----------------------------------------------------------------------------
(***************************************************************************)
(* What borrowers owe and earn together, for any number of them.           *)
(*                                                                         *)
(* The argument: a loan of L made or settled at index I is worth L * G / I *)
(* at index G, before any rounding, and all truncations are on the side of *)
(* the total but one: that of total_liabilities when interest is charged.  *)
(* The invariant compares the total with the sum of those fractions.  As   *)
(* it has to speak of integers, it takes them times M, for every M that is *)
(* a multiple of all the indexes: L * G * k, where k * I = M.              *)
(***************************************************************************)

\* k holds the quotients of M by the indexes I.
Common(I, M, k) ==
    /\ M \in Nat /\ M > 0
    /\ k \in [Users -> Nat]
    /\ \A u \in Users : k[u] * I[u] = M

\* The loans L at index one, times M.
Weight(L, k) == SumFunctionOnSet([u \in Users |-> L[u] * k[u]], Users)

\* The total covers the loans at index G but for n units, grown with the index.
Covers(L, I, G, total, n) ==
    \A M, k : Common(I, M, k) =>
      (Scale * Scale) * (G * Weight(L, k)) <= M * (Scale * total + n * G)

LEMMA UsersFinite == IsFiniteSet(Users)
BY MarketAssumption

LEMMA WeightNat ==
    ASSUME NEW L \in [Users -> Nat], NEW k \in [Users -> Nat]
    PROVE  Weight(L, k) \in Nat
<1> DEFINE f == [u \in Users |-> L[u] * k[u]]
<1>1. \A u \in Users : f[u] \in Nat
  OBVIOUS
<1> HIDE DEF f
<1>2. SumFunctionOnSet(f, Users) \in Nat
  BY <1>1, UsersFinite, SumNat
<1> QED
  BY <1>2 DEF Weight, f

-----------------------------------------------------------------------------
(***************************************************************************)
(* A charge of interest                                                    *)
(***************************************************************************)
\* The total loses less than a unit; the loans lose nothing to compare with,
\* and the n units it lacks already grow as they do.
LEMMA ChargeArithmetic ==
    ASSUME NEW G \in Nat, NEW total \in Nat, NEW n \in Nat, NEW n2 \in Nat,
           NEW f \in Nat, NEW Q \in Nat, NEW M \in Nat,
           G >= Scale, n2 >= n + 1,
           (Scale * Scale) * (G * Q) <= M * (Scale * total + n * G)
    PROVE  LET G2 == DecMul(G, One + f)
           IN  (Scale * Scale) * (G2 * Q)
                 <= M * (Scale * (total + DecMul(total, f)) + n2 * G2)
<1> DEFINE G2 == DecMul(G, One + f)
           S  == Scale
           t2 == total + DecMul(total, f)
           W  == (S * S) * Q - n * M
<1>1. S \in Nat /\ S > 0
  BY ScaleAssumption
<1>2. G2 \in Nat /\ S * G2 <= G * (S + f) /\ G2 >= G
  <2>1. G * (S + f) \in Nat
    BY <1>1
  <2>2. G2 = (G * (S + f)) \div S
    BY DEF DecMul, One
  <2>3. G2 \in Nat /\ S * G2 <= G * (S + f)
    BY <1>1, <2>1, <2>2, DivNat, DivInt
  <2>4. G * S <= G * (S + f)
    <3>1. G * f \in Nat /\ G * (S + f) = G * S + G * f
      BY <1>1
    <3> QED
      BY <3>1, <1>1
  <2>5. G <= G2
    BY <1>1, <2>1, <2>2, <2>4, DivGreatest
  <2> QED
    BY <2>3, <2>5
<1>3. t2 \in Nat /\ total * (S + f) <= S * t2 + S
  <2> DEFINE d == DecMul(total, f)
  <2>1. total * f \in Nat
    OBVIOUS
  <2>2. d \in Nat /\ total * f < S * d + S
    BY <1>1, <2>1, DivNat, DivInt DEF DecMul
  <2> HIDE DEF d
  <2>3. total * (S + f) = total * S + total * f
    BY <1>1
  <2>4. S * (total + d) = total * S + S * d
    BY <1>1, <2>2
  <2>5. total + d \in Nat
    BY <2>2
  <2> QED
    BY <1>1, <2>1, <2>2, <2>3, <2>4, <2>5 DEF d
<1> HIDE DEF G2, S, t2
<1>4. W \in Int /\ n * M \in Nat /\ (S * S) * Q \in Nat /\ M * S \in Nat
  BY <1>1
<1>5. G * W <= (M * S) * total
  <2>1. (S * S) * (G * Q) = G * ((S * S) * Q)
    BY <1>1
  <2>2. M * (S * total + n * G) = (M * S) * total + G * (n * M)
    BY <1>1
  <2>3. G * W = G * ((S * S) * Q) - G * (n * M)
    BY <1>1
  <2>4. G * ((S * S) * Q) <= (M * S) * total + G * (n * M)
    BY <2>1, <2>2 DEF S
  <2>5. G * ((S * S) * Q) \in Int /\ (M * S) * total \in Int /\ G * (n * M) \in Int
    BY <1>4
  <2> QED
    BY <2>3, <2>4, <2>5
<1>6. /\ (S * S) * (G2 * Q) = G2 * W + G2 * (n * M)
      /\ M * (S * t2 + n2 * G2) = (M * S) * t2 + G2 * (n2 * M)
      /\ G2 * W \in Int /\ G2 * (n * M) \in Nat /\ (M * S) * t2 \in Nat
      /\ n2 * M \in Nat /\ G2 * (n2 * M) \in Nat /\ G2 * M \in Nat
  BY <1>1, <1>2, <1>3
<1>7. G2 * (n * M) + G2 * M <= G2 * (n2 * M)
  <2>1. n * M + M <= n2 * M
    <3>1. (n + 1) * M <= n2 * M
      BY MulMono
    <3> QED
      BY <3>1
  <2>2. (n * M + M) * G2 <= (n2 * M) * G2
    BY <1>2, <1>4, <1>6, <2>1, MulMono
  <2> QED
    BY <1>2, <1>4, <1>6, <2>2
<1>8. G2 * W <= (M * S) * t2 + G2 * M
  <2>1. CASE W <= 0
    <3>1. W * G2 <= 0 * G2
      BY <1>2, <1>4, <2>1, MulMono
    <3>2. G2 * W <= 0
      BY <1>2, <1>4, <3>1
    <3> HIDE DEF W
    <3> QED
      BY <1>6, <3>2
  <2>2. CASE W >= 0
    <3> HIDE DEF W
    <3>1. (S * G2) * W <= (G * (S + f)) * W
      <4>1. S * G2 \in Int /\ G * (S + f) \in Int
        BY <1>1, <1>2
      <4> QED
        BY <1>2, <1>4, <2>2, <4>1, MulMono
    <3>2. (G * W) * (S + f) <= ((M * S) * total) * (S + f)
      <4>1. G * W \in Int /\ (M * S) * total \in Int /\ S + f \in Nat
        BY <1>1, <1>4
      <4> QED
        BY <1>5, <4>1, MulMono
    <3>3. (total * (S + f)) * (M * S) <= (S * t2 + S) * (M * S)
      <4>1. total * (S + f) \in Int /\ S * t2 + S \in Int
        BY <1>1, <1>3
      <4> QED
        BY <1>3, <1>4, <4>1, MulMono
    <3>4. /\ (G * (S + f)) * W = (G * W) * (S + f)
          /\ ((M * S) * total) * (S + f) = (total * (S + f)) * (M * S)
      BY <1>1, <1>4
    <3>5. (S * G2) * W <= (S * t2 + S) * (M * S)
      <4>1. /\ (S * G2) * W \in Int /\ (G * (S + f)) * W \in Int
            /\ (total * (S + f)) * (M * S) \in Int /\ (S * t2 + S) * (M * S) \in Int
        BY <1>1, <1>2, <1>3, <1>4
      <4> QED
        BY <3>1, <3>2, <3>3, <3>4, <4>1
    <3>6. /\ (S * G2) * W = (G2 * W) * S
          /\ (S * t2 + S) * (M * S) = ((M * S) * t2 + M * S) * S
      BY <1>1, <1>2, <1>3, <1>4
    <3>7. G2 * W <= (M * S) * t2 + M * S
      BY <1>1, <1>4, <1>6, <3>5, <3>6, MulCancel
    <3>8. S * M <= G2 * M
      <4>1. S <= G2
        BY <1>1, <1>2 DEF S
      <4> QED
        BY <1>1, <1>2, <4>1, MulMono
    <3>9. M * S = S * M
      BY <1>1
    <3> DEFINE a == G2 * W
               b == (M * S) * t2
               c == M * S
               d == G2 * M
    <3>10. a \in Int /\ b \in Nat /\ c \in Nat /\ d \in Nat /\ a <= b + c /\ c <= d
      BY <1>4, <1>6, <3>7, <3>8, <3>9
    <3> HIDE DEF a, b, c, d
    <3>11. a <= b + d
      BY <3>10
    <3> QED
      BY <3>11 DEF a, b, d
  <2> QED
    BY <1>4, <2>1, <2>2
<1>9. (S * S) * (G2 * Q) <= M * (S * t2 + n2 * G2)
  <2> HIDE DEF W
  <2> QED
    BY <1>6, <1>7, <1>8
<1> QED
  BY <1>9 DEF S, G2, t2

LEMMA ChargeCovers ==
    ASSUME NEW L \in [Users -> Nat], NEW I \in [Users -> Nat],
           NEW G \in Nat, NEW total \in Nat, NEW n \in Nat, NEW n2 \in Nat,
           NEW f \in Nat, G >= Scale, n2 >= n + 1,
           Covers(L, I, G, total, n)
    PROVE  Covers(L, I, DecMul(G, One + f), total + DecMul(total, f), n2)
<1> SUFFICES ASSUME NEW M, NEW k, Common(I, M, k)
             PROVE  (Scale * Scale) * (DecMul(G, One + f) * Weight(L, k))
                      <= M * (Scale * (total + DecMul(total, f))
                                + n2 * DecMul(G, One + f))
  BY DEF Covers
<1>1. M \in Nat /\ Weight(L, k) \in Nat
  BY WeightNat DEF Common
<1>2. (Scale * Scale) * (G * Weight(L, k)) <= M * (Scale * total + n * G)
  BY DEF Covers
<1> QED
  BY <1>1, <1>2, ChargeArithmetic
-----------------------------------------------------------------------------
(***************************************************************************)
(* A borrower brought up to date, who then borrows or repays               *)
(***************************************************************************)
\* The loans of the others.
Others(L, k, u) == SumFunctionOnSet([v \in Users |-> L[v] * k[v]], Users \ {u})

LEMMA WeightSplits ==
    ASSUME NEW L \in [Users -> Nat], NEW k \in [Users -> Nat], NEW u \in Users
    PROVE  /\ Others(L, k, u) \in Nat
           /\ Weight(L, k) = L[u] * k[u] + Others(L, k, u)
<1> DEFINE f == [v \in Users |-> L[v] * k[v]]
           T == Users \ {u}
<1>1. f[u] = L[u] * k[u] /\ \A v \in Users : f[v] \in Nat /\ f[v] \in Int
  OBVIOUS
<1>2. IsFiniteSet(T) /\ \A v \in T : f[v] \in Nat
  BY <1>1, UsersFinite, FS_Subset
<1> HIDE DEF f
<1>3. SumFunctionOnSet(f, Users) = f[u] + SumFunctionOnSet(f, Users \ {u})
  BY <1>1, UsersFinite, SumRemove
<1>4. SumFunctionOnSet(f, T) \in Nat
  <2> HIDE DEF T
  <2> QED
    BY <1>2, SumNat
<1> QED
  BY <1>1, <1>3, <1>4 DEF Weight, Others, f

\* Only what the others owe, and what k is for them, counts.
LEMMA OthersAgree ==
    ASSUME NEW L \in [Users -> Nat], NEW k \in [Users -> Nat], NEW u \in Users,
           NEW L2 \in [Users -> Nat], \A v \in Users \ {u} : L2[v] = L[v]
    PROVE  Others(L2, k, u) = Others(L, k, u)
<1> DEFINE f == [v \in Users |-> L[v] * k[v]]
           g == [v \in Users |-> L2[v] * k[v]]
           T == Users \ {u}
<1>1. IsFiniteSet(T)
  BY UsersFinite, FS_Subset
<1>2. \A v \in T : g[v] = f[v]
  OBVIOUS
<1> HIDE DEF f, g, T
<1>3. SumFunctionOnSet(g, T) = SumFunctionOnSet(f, T)
  BY <1>1, <1>2, SumAgree
<1> QED
  BY <1>3 DEF Others, f, g, T

LEMMA OthersScale ==
    ASSUME NEW L \in [Users -> Nat], NEW k \in [Users -> Nat], NEW u \in Users,
           NEW c \in Nat, NEW k2 \in [Users -> Nat],
           Multiple(k2, c, k, Users \ {u})
    PROVE  Others(L, k2, u) = c * Others(L, k, u)
<1> DEFINE f == [v \in Users |-> L[v] * k[v]]
           g == [v \in Users |-> L[v] * k2[v]]
           T == Users \ {u}
<1>1. IsFiniteSet(T)
  BY UsersFinite, FS_Subset
<1>2. ASSUME NEW v \in T PROVE f[v] \in Int /\ g[v] = c * f[v]
  <2>1. /\ L[v] \in Nat /\ k[v] \in Nat
        /\ g[v] = L[v] * (c * k[v]) /\ f[v] = L[v] * k[v]
    BY DEF Multiple
  <2>2. L[v] * (c * k[v]) = c * (L[v] * k[v]) /\ L[v] * k[v] \in Int
    BY <2>1
  <2> QED
    BY <2>1, <2>2
<1> HIDE DEF f, g, T
<1>3. SumFunctionOnSet(g, T) = c * SumFunctionOnSet(f, T)
  <2>1. c \in Int
    OBVIOUS
  <2>2. Multiple(g, c, f, T)
    BY <1>2 DEF Multiple
  <2> QED
    BY <1>1, <2>1, <2>2, SumScale
<1> QED
  BY <1>3 DEF Others, f, g, T

\* The numbers of a settlement: F is the loan brought to index G, of which
\* change is borrowed or, when negative, repaid.
LEMMA SettleArithmetic ==
    ASSUME NEW G \in Nat, NEW total \in Nat, NEW n \in Nat, NEW F \in Nat,
           NEW l \in Nat, NEW i \in Nat, NEW R \in Nat, NEW M \in Nat,
           NEW change \in Int, i > 0, F * i <= l * G,
           (Scale * Scale) * (G * (l * M + i * R))
             <= (M * i) * (Scale * total + n * G)
    PROVE  (Scale * Scale) * ((F + change) * M + G * R)
             <= M * (Scale * (total + FromUint(change)) + n * G)
<1> DEFINE S == Scale
           X == S * total + n * G
           SS == S * S
<1>1. S \in Nat /\ SS \in Nat /\ X \in Nat
  BY ScaleAssumption
<1>2. SS * (G * (l * M + i * R)) <= (M * i) * X
  OBVIOUS
<1>3. M * (S * (total + FromUint(change)) + n * G) = M * X + SS * (change * M)
  BY <1>1 DEF FromUint
<1> HIDE DEF S, SS, X
<1>4. SS * ((F + change) * M + G * R)
        = (SS * (F * M) + SS * (G * R)) + SS * (change * M)
  BY <1>1
<1>5. SS * (F * M) + SS * (G * R) <= M * X
  <2> DEFINE a == SS * (F * M) + SS * (G * R)
  <2>1. a * i = (F * i) * (SS * M) + SS * (i * (G * R))
    BY <1>1
  <2>2. (F * i) * (SS * M) <= (l * G) * (SS * M)
    <3>1. F * i \in Int /\ l * G \in Int /\ SS * M \in Int /\ SS * M >= 0
      BY <1>1
    <3> QED
      BY <3>1, MulMono
  <2>3. (l * G) * (SS * M) + SS * (i * (G * R)) = SS * (G * (l * M + i * R))
    BY <1>1
  <2>4. (M * i) * X = (M * X) * i
    BY <1>1
  <2>5. /\ a \in Int /\ M * X \in Int /\ a * i \in Int
        /\ (F * i) * (SS * M) \in Int /\ (l * G) * (SS * M) \in Int
        /\ SS * (i * (G * R)) \in Int /\ (M * X) * i \in Int
    BY <1>1
  <2> HIDE DEF a
  <2>6. a * i <= (M * X) * i
    BY <1>2, <2>1, <2>2, <2>3, <2>4, <2>5
  <2> QED
    BY <2>5, <2>6, MulCancel DEF a
<1>6. /\ SS * (F * M) + SS * (G * R) \in Int /\ M * X \in Int
      /\ SS * (change * M) \in Int
  BY <1>1
<1>7. SS * ((F + change) * M + G * R)
        <= M * (S * (total + FromUint(change)) + n * G)
  BY <1>3, <1>4, <1>5, <1>6 DEF S
<1> QED
  BY <1>7 DEF S, SS

\* Only u's loan changes.
AgreeBut(u, L, I, L2, I2) == \A v \in Users \ {u} : L2[v] = L[v] /\ I2[v] = I[v]

\* Common quotients for the indexes before u's changed.
LEMMA CommonBefore ==
    ASSUME NEW I \in [Users -> Nat], NEW I2, NEW u \in Users, I[u] > 0,
           \A v \in Users \ {u} : I2[v] = I[v],
           NEW M, NEW k, Common(I2, M, k)
    PROVE  \E k1 \in [Users -> Nat] :
             /\ k1[u] = M /\ Multiple(k1, I[u], k, Users \ {u})
             /\ Common(I, M * I[u], k1)
<1> DEFINE i == I[u]
<1>0. M \in Nat /\ M > 0 /\ k \in [Users -> Nat] /\ i \in Nat /\ i > 0
  BY DEF Common
<1>1. PICK k1 \in [Users -> Nat] :
        k1[u] = M /\ Multiple(k1, i, k, Users \ {u})
  <2> DEFINE g == [v \in Users |-> IF v = u THEN M ELSE i * k[v]]
  <2>1. g \in [Users -> Nat]
    BY <1>0
  <2>2. g[u] = M /\ Multiple(g, i, k, Users \ {u})
    BY <1>0 DEF Multiple
  <2> HIDE DEF g
  <2> QED
    BY <2>1, <2>2
<1>2. Common(I, M * i, k1)
  <2>1. ASSUME NEW v \in Users PROVE k1[v] * I[v] = M * i
    <3>1. CASE v = u
      BY <1>1, <3>1
    <3>2. CASE v # u
      <4>1. k[v] * I[v] = M /\ k1[v] = i * k[v] /\ k[v] \in Nat /\ I[v] \in Nat
        BY <3>2, <1>0, <1>1 DEF Common, Multiple
      <4>2. (i * k[v]) * I[v] = (k[v] * I[v]) * i
        BY <4>1, <1>0
      <4> QED
        BY <4>1, <4>2
    <3> QED
      BY <3>1, <3>2
  <2>2. M * i \in Nat /\ M * i > 0
    BY <1>0
  <2> HIDE DEF i
  <2> QED
    BY <1>1, <2>1, <2>2 DEF Common
<1> QED
  BY <1>1, <1>2

\* A loan F at index G that is worth no more than the loan before, with what is
\* borrowed or repaid on top, is covered by the total with the same on top.
LEMMA SettleCovers ==
    ASSUME NEW L \in [Users -> Nat], NEW I \in [Users -> Nat],
           NEW G \in Nat, NEW total \in Nat, NEW n \in Nat, NEW u \in Users,
           NEW F \in Nat, NEW change \in Int, F + change \in Nat,
           I[u] > 0, F * I[u] <= L[u] * G,
           Covers(L, I, G, total, n),
           NEW L2 \in [Users -> Nat], NEW I2 \in [Users -> Nat],
           L2[u] = F + change, I2[u] = G, AgreeBut(u, L, I, L2, I2)
    PROVE  Covers(L2, I2, G, total + FromUint(change), n)
<1> SUFFICES ASSUME NEW M, NEW k, Common(I2, M, k)
             PROVE  (Scale * Scale) * (G * Weight(L2, k))
                      <= M * (Scale * (total + FromUint(change)) + n * G)
  BY DEF Covers
<1> DEFINE i == I[u]
           R == Others(L, k, u)
<1>0. M \in Nat /\ M > 0 /\ k \in [Users -> Nat] /\ i \in Nat /\ i > 0 /\ L[u] \in Nat
  BY DEF Common
<1>1. PICK k1 \in [Users -> Nat] :
        /\ k1[u] = M /\ Multiple(k1, i, k, Users \ {u})
        /\ Common(I, M * i, k1)
  BY ZenonT(40), CommonBefore DEF AgreeBut
<1>2. Common(I, M * i, k1)
  BY <1>1
<1>3. (Scale * Scale) * (G * Weight(L, k1)) <= (M * i) * (Scale * total + n * G)
  <2> HIDE DEF i
  <2> QED
    BY <1>2 DEF Covers
<1>4. R \in Nat /\ Weight(L, k1) = L[u] * M + i * R
  <2>1. R \in Nat
    BY <1>0, WeightSplits
  <2>2. Weight(L, k1) = L[u] * k1[u] + Others(L, k1, u)
    BY <1>1, WeightSplits
  <2>4. Others(L, k1, u) = i * R
    <3> HIDE DEF i, R
    <3>1. i \in Nat /\ k1 \in [Users -> Nat] /\ k \in [Users -> Nat] /\ Multiple(k1, i, k, Users \ {u})
      BY <1>0, <1>1
    <3>2. Others(L, k1, u) = i * Others(L, k, u)
      BY <3>1, OthersScale
    <3> QED
      BY <3>2 DEF R
  <2> QED
    BY <1>1, <2>1, <2>2, <2>4
<1>5. Weight(L2, k) = (F + change) * k[u] + R
  <2>1. Weight(L2, k) = L2[u] * k[u] + Others(L2, k, u)
    BY <1>0, WeightSplits
  <2>2. Others(L2, k, u) = R
    BY <1>0, OthersAgree DEF AgreeBut
  <2> HIDE DEF R
  <2> QED
    BY <1>4, <2>1, <2>2
<1> HIDE DEF i, R
<1>6. k[u] * G = M /\ k[u] \in Nat
  BY <1>0 DEF Common
<1>7. G * Weight(L2, k) = (F + change) * M + G * R
  <2>1. G * ((F + change) * k[u] + R) = (F + change) * (k[u] * G) + G * R
    BY <1>4, <1>6
  <2> QED
    BY <1>5, <1>6, <2>1
<1>8. F * i <= L[u] * G
  BY DEF i
<1>9. (Scale * Scale) * ((F + change) * M + G * R)
        <= M * (Scale * (total + FromUint(change)) + n * G)
  BY <1>0, <1>3, <1>4, <1>8, SettleArithmetic
<1> QED
  BY <1>7, <1>9
-----------------------------------------------------------------------------
(***************************************************************************)
(* What the total covers                                                   *)
(***************************************************************************)
LEMMA CommonExists ==
    ASSUME NEW I \in [Users -> Nat], \A u \in Users : I[u] > 0
    PROVE  \E M, k : Common(I, M, k)
<1> DEFINE Ok(T) == \E M \in Nat : M > 0 /\ \A u \in T : \E q \in Nat : q * I[u] = M
           Good == {T \in SUBSET Users : Ok(T)}
<1>1. ASSUME NEW T \in SUBSET Users, \A x \in T : T \ {x} \in Good PROVE T \in Good
  <2>1. CASE T = {}
    <3>1. 1 \in Nat /\ 1 > 0 /\ \A u \in T : \E q \in Nat : q * I[u] = 1
      BY <2>1
    <3> QED
      BY <3>1
  <2>2. CASE T # {}
    <3>1. PICK x \in T : TRUE
      BY <2>2
    <3>2. Ok(T \ {x})
      BY <1>1
    <3>3. PICK m \in Nat : m > 0 /\ \A u \in T \ {x} : \E q \in Nat : q * I[u] = m
      BY <3>2
    <3> DEFINE i == I[x]
    <3>4. i \in Nat /\ i > 0 /\ m * i \in Nat /\ m * i > 0
      <4>1. i \in Nat /\ i > 0
        OBVIOUS
      <4> HIDE DEF i
      <4> QED
        BY <3>3, <4>1
    <3>5. ASSUME NEW u \in T PROVE \E q \in Nat : q * I[u] = m * i
      <4>1. CASE u = x
        BY <4>1
      <4>2. CASE u # x
        <5>1. PICK q \in Nat : q * I[u] = m
          BY <3>3, <4>2
        <5>2. I[u] \in Nat
          OBVIOUS
        <5> HIDE DEF i
        <5>3. q * i \in Nat /\ (q * i) * I[u] = (q * I[u]) * i
          BY <3>4, <5>2
        <5> QED
          BY <5>1, <5>3
      <4> QED
        BY <4>1, <4>2
    <3> HIDE DEF i
    <3>6. Ok(T)
      BY <3>4, <3>5
    <3> QED
      BY <3>6
  <2> QED
    BY <2>1, <2>2
<1> HIDE DEF Good
<1>2. \A T \in SUBSET Users : T \in Good
  BY <1>1, UsersFinite, SubsetInduction
<1>3. Ok(Users)
  BY <1>2 DEF Good
<1>4. PICK M \in Nat : M > 0 /\ \A u \in Users : \E q \in Nat : q * I[u] = M
  BY <1>3
<1> DEFINE k == [u \in Users |-> CHOOSE q \in Nat : q * I[u] = M]
<1>5. k \in [Users -> Nat] /\ \A u \in Users : k[u] * I[u] = M
  BY <1>4
<1> HIDE DEF k
<1>6. Common(I, M, k)
  BY <1>4, <1>5 DEF Common
<1> QED
  BY <1>6

\* Debts brought to index G with a loss at most are covered but for n units.
LEMMA CoversDebts ==
    ASSUME NEW L \in [Users -> Nat], NEW I \in [Users -> Nat],
           NEW G \in Nat, NEW total \in Nat, NEW n \in Nat,
           Covers(L, I, G, total, n), \A u \in Users : I[u] > 0,
           NEW o \in [Users -> Nat], \A u \in Users : o[u] * I[u] <= L[u] * G
    PROVE  /\ SumFunctionOnSet(o, Users) \in Nat
           /\ Scale * (FromUint(SumFunctionOnSet(o, Users)) - total) <= n * G
<1> DEFINE D == SumFunctionOnSet(o, Users)
           S == Scale
<1>1. PICK M, k : Common(I, M, k)
  BY CommonExists
<1>2. M \in Nat /\ M > 0 /\ k \in [Users -> Nat] /\ S \in Nat
  BY <1>1, ScaleAssumption DEF Common
<1> DEFINE W == Weight(L, k)
           f == [u \in Users |-> L[u] * k[u]]
           fG == [u \in Users |-> G * f[u]]
           oM == [u \in Users |-> M * o[u]]
<1>3. ASSUME NEW u \in Users
      PROVE  /\ o[u] \in Int /\ oM[u] \in Int /\ oM[u] = M * o[u]
             /\ f[u] \in Int /\ fG[u] \in Int /\ fG[u] = G * f[u]
             /\ oM[u] <= fG[u]
  <2> DEFINE x == o[u]
             i == I[u]
             l == L[u]
             q == k[u]
  <2>1. x \in Nat /\ i \in Nat /\ l \in Nat /\ q \in Nat /\ q * i = M /\ x * i <= l * G
    BY <1>1, <1>2 DEF Common
  <2>2. oM[u] = M * x /\ f[u] = l * q /\ fG[u] = G * (l * q)
    BY <1>2, <2>1
  <2>3. o[u] = x
    OBVIOUS
  <2> HIDE DEF x, i, l, q
  <2>4. (x * i) * q <= (l * G) * q
    <3>1. x * i \in Int /\ l * G \in Int
      BY <2>1
    <3> QED
      BY <2>1, <3>1, MulMono
  <2>5. (x * i) * q = M * x /\ (l * G) * q = G * (l * q)
    <3>1. (x * i) * q = (q * i) * x
      BY <2>1
    <3> QED
      BY <2>1, <3>1
  <2>6. M * x \in Int /\ G * (l * q) \in Int /\ l * q \in Int
    BY <1>2, <2>1
  <2> HIDE DEF oM, f, fG
  <2> QED
    BY <2>1, <2>2, <2>3, <2>4, <2>5, <2>6
<1>4. W = SumFunctionOnSet(f, Users) /\ W \in Nat
  BY <1>2, WeightNat DEF Weight
<1> HIDE DEF f, fG, oM, W
<1>5. D \in Nat
  BY UsersFinite, SumNat
<1>6. SumFunctionOnSet(oM, Users) = M * D
  <2>1. M \in Int /\ Multiple(oM, M, o, Users)
    BY <1>2, <1>3 DEF Multiple
  <2> QED
    BY <2>1, UsersFinite, SumScale
<1>7. SumFunctionOnSet(fG, Users) = G * W
  <2>1. G \in Int /\ Multiple(fG, G, f, Users)
    BY <1>3 DEF Multiple
  <2>2. SumFunctionOnSet(fG, Users) = G * SumFunctionOnSet(f, Users)
    BY <2>1, UsersFinite, SumScale
  <2> QED
    BY <1>4, <2>2
<1>8. M * D <= G * W
  <2>1. \A u \in Users : oM[u] \in Int /\ fG[u] \in Int /\ oM[u] <= fG[u]
    BY <1>3
  <2>2. SumFunctionOnSet(oM, Users) <= SumFunctionOnSet(fG, Users)
    BY <2>1, UsersFinite, SumMonotone
  <2> QED
    BY <1>6, <1>7, <2>2
<1>9. (S * S) * (G * W) <= M * (S * total + n * G)
  BY <1>1 DEF Covers, W
<1> HIDE DEF D, S
<1>10. ((S * S) * D) * M <= (S * total + n * G) * M
  <2>1. M * D \in Int /\ G * W \in Int /\ S * S \in Nat
    BY <1>2, <1>4, <1>5
  <2>2. (M * D) * (S * S) <= (G * W) * (S * S)
    BY <1>8, <2>1, MulMono
  <2>3. /\ (M * D) * (S * S) = ((S * S) * D) * M
        /\ (G * W) * (S * S) = (S * S) * (G * W)
        /\ M * (S * total + n * G) = (S * total + n * G) * M
    BY <1>2, <1>4, <1>5
  <2>4. /\ ((S * S) * D) * M \in Int /\ (S * S) * (G * W) \in Int
        /\ (S * total + n * G) * M \in Int
    BY <1>2, <1>4, <1>5
  <2> QED
    BY <1>9, <2>2, <2>3, <2>4
<1>11. (S * S) * D <= S * total + n * G
  <2>1. (S * S) * D \in Int /\ S * total + n * G \in Int
    BY <1>2, <1>5
  <2> QED
    BY <1>2, <1>10, <2>1, MulCancel
<1>12. S * (D * S - total) = (S * S) * D - S * total /\ n * G \in Int
       /\ (S * S) * D \in Int /\ S * total \in Int
  BY <1>2, <1>5
<1>13. S * (D * S - total) <= n * G
  BY <1>11, <1>12
<1> QED
  BY <1>5, <1>13 DEF D, S, FromUint
-----------------------------------------------------------------------------
(***************************************************************************)
(* The invariant of the market                                             *)
(***************************************************************************)
loans   == [u \in Users |-> borrower_info[u].loan_amount]
indexes == [u \in Users |-> borrower_info[u].interest_index]

\* The total of a state of the contract covers the borrowers there are.
CoveredBy(st) ==
    Covers(loans, indexes, st.global_interest_index, st.total_liabilities,
           st.last_interest_updated)

DInv == IInv /\ CoveredBy(state)

LEMMA LoansTyped ==
    ASSUME IInv
    PROVE  /\ loans \in [Users -> Nat] /\ indexes \in [Users -> Nat]
           /\ \A u \in Users : indexes[u] > 0
           /\ state \in MarketState /\ state.global_interest_index >= Scale
           /\ borrower_info \in [Users -> BorrowerInfo]
<1>1. /\ state \in MarketState /\ borrower_info \in [Users -> BorrowerInfo]
      /\ One <= state.global_interest_index
      /\ \A u \in Users : One <= borrower_info[u].interest_index
  BY DEF IInv, TypeOK, IndexesOrdered
<1>2. ASSUME NEW u \in Users
      PROVE  /\ borrower_info[u].loan_amount \in Nat
             /\ borrower_info[u].interest_index \in Nat
             /\ borrower_info[u].interest_index > 0
  BY <1>1, ScaleAssumption DEF BorrowerInfo, One
<1>3. state.global_interest_index >= Scale
  BY <1>1, ScaleAssumption DEF One, MarketState
<1> QED
  BY <1>1, <1>2, <1>3 DEF loans, indexes

\* What the settlement of a borrower makes of the loan.
LEMMA LoanBrought ==
    ASSUME NEW st \in MarketState, NEW info \in BorrowerInfo, info.interest_index > 0
    PROVE  LET F == settle_borrower(st, info).loan_amount
           IN  /\ F = compute_borrower_interest(st, info).loan_amount
               /\ F \in Nat
               /\ F * info.interest_index <= info.loan_amount * st.global_interest_index
<1> DEFINE L == info.loan_amount
           i == info.interest_index
           G == st.global_interest_index
           m == UintMulDec(L, G)
           F == UintDivDec(m, i)
           lent == compute_borrower_interest(st, info)
<1>1. L \in Nat /\ i \in Nat /\ i > 0 /\ G \in Nat
  BY DEF BorrowerInfo, MarketState
<1>2. info = [interest_index |-> i, reward_index |-> info.reward_index,
              loan_amount |-> L, pending_rewards |-> info.pending_rewards]
  BY DEF BorrowerInfo
<1>3. lent.loan_amount = F
        /\ lent = [interest_index |-> G, reward_index |-> info.reward_index,
                   loan_amount |-> F, pending_rewards |-> info.pending_rewards]
  <2> HIDE DEF F
  <2>1. lent = [[info EXCEPT !.loan_amount = F] EXCEPT !.interest_index = G]
    BY DEF compute_borrower_interest, F
  <2> HIDE DEF lent, L, i, G
  <2> QED
    BY <1>2, <2>1
<1>4. settle_borrower(st, info).loan_amount = F
  <2> HIDE DEF F, lent
  <2>1. settle_borrower(st, info) = compute_borrower_reward(st, lent)
    BY DEF settle_borrower, lent
  <2> HIDE DEF L, i, G
  <2> QED
    BY <1>3, <2>1 DEF compute_borrower_reward
<1> HIDE DEF L, i, G
<1>5. m \in Nat /\ m * Scale <= L * G
  BY <1>1, UintMulDecBound
<1> HIDE DEF m
<1>6. F \in Nat /\ F * i <= m * Scale
  BY <1>1, <1>5, UintDivDecBound
<1> HIDE DEF F
<1>7. F * i <= L * G
  <2>1. F * i \in Int /\ m * Scale \in Int /\ L * G \in Int
    BY <1>1, <1>5, <1>6, ScaleAssumption
  <2> QED
    BY <1>5, <1>6, <2>1
<1> QED
  BY <1>3, <1>4, <1>6, <1>7 DEF L, i, G, lent

\* Interest is charged, and rewards leave the total and the index alone.
LEMMA InterestCovers ==
    ASSUME DInv, NEW target \in Nat, CanComputeInterest(bank, target)
    PROVE  /\ CoveredBy(compute_interest(bank, target))
           /\ CoveredBy(accrued(bank, target))
<1> DEFINE rate == borrow_rate(state, bank)
           r == compute_interest_raw(state, height, bank, aterra_supply, rate, target)
           a == accrued(bank, target)
           G == state.global_interest_index
           total == state.total_liabilities
           n == state.last_interest_updated
           f == DecMul(FromUint(height - n), rate)
           c == charge_interest(state, height, rate)
           yield == excess_yield(c, height, aterra_supply, bank, target)
           res == [c EXCEPT !.total_reserves = @ + yield]
           new == compute_exchange_rate_raw(res, aterra_supply, bank)
           step1 == [res EXCEPT !.prev_aterra_supply = aterra_supply]
           step2 == [step1 EXCEPT !.prev_exchange_rate = new]
<1>1. IInv /\ Covers(loans, indexes, G, total, n)
  BY DEF DInv, CoveredBy
<1>2. /\ loans \in [Users -> Nat] /\ indexes \in [Users -> Nat]
      /\ state \in MarketState /\ G >= Scale
  BY <1>1, LoansTyped
<1>3. G \in Nat /\ total \in Nat /\ n \in Nat
  BY <1>2 DEF MarketState
<1>4. bank \in Nat /\ aterra_supply \in Nat /\ height \in Nat /\ rate \in Nat
  BY <1>1, <1>2, BeforeGood, BorrowRateNat DEF IInv
<1>5. r = compute_interest(bank, target) /\ a = compute_reward(r, height)
  BY DEF compute_interest, accrued
<1>6. r \in MarketState /\ r.global_interest_index >= One
  <2>1. StateGood(r, aterra_supply, bank)
    BY <1>1, <1>5, AccruedGood
  <2> HIDE DEF r
  <2> QED
    BY <1>2, <1>3, <2>1, ScaleAssumption DEF StateGood, MarketState, One
<1>7. CoveredBy(r)
  <2>1. CASE n >= height
    <3>1. r = state
      BY <2>1 DEF compute_interest_raw
    <3> HIDE DEF r
    <3> QED
      BY <1>1, <3>1 DEF CoveredBy
  <2>2. CASE n < height
    <3>1. f \in Nat
      <4>1. FromUint(height - n) \in Nat
        BY <1>3, <1>4, <2>2, ScaleAssumption DEF FromUint
      <4> QED
        BY <1>4, <4>1, DecMulNat
    <3>2. height >= n + 1
      BY <1>3, <1>4, <2>2
    <3> HIDE DEF rate, f, G, total, n
    <3>3. Covers(loans, indexes, DecMul(G, One + f), total + DecMul(total, f), height)
      BY <1>1, <1>2, <1>3, <1>4, <3>1, <3>2, ChargeCovers
    <3>4. /\ c \in MarketState
          /\ c.global_interest_index = DecMul(G, One + f)
          /\ c.total_liabilities = total + DecMul(total, f)
      <4>1. c = [[state EXCEPT !.global_interest_index = DecMul(G, One + f)]
                   EXCEPT !.total_liabilities = total + DecMul(total, f)]
        BY DEF charge_interest, G, total, n, f
      <4>2. DecMul(G, One + f) \in Nat /\ total + DecMul(total, f) \in Nat
        <5>1. One + f \in Nat
          BY <3>1, ScaleAssumption DEF One
        <5>2. DecMul(G, One + f) \in Nat /\ DecMul(total, f) \in Nat
          BY <1>3, <3>1, <5>1, DecMulNat
        <5> QED
          BY <1>3, <5>2
      <4> HIDE DEF c
      <4> QED
        BY <1>2, <4>1, <4>2 DEF MarketState
    <3>5. r = [step2 EXCEPT !.last_interest_updated = height]
      <4>1. ~(state.last_interest_updated >= height)
        BY <1>3, <1>4, <2>2 DEF n
      <4> QED
        BY <4>1 DEF compute_interest_raw
    <3> HIDE DEF r, c, new, yield
    <3>6. /\ r.global_interest_index = c.global_interest_index
          /\ r.total_liabilities = c.total_liabilities
          /\ r.last_interest_updated = height
      <4>1. DOMAIN c = {"total_liabilities", "total_reserves", "last_interest_updated",
                        "last_reward_updated", "global_interest_index",
                        "global_reward_index", "anc_emission_rate",
                        "prev_aterra_supply", "prev_exchange_rate"}
        BY <3>4 DEF MarketState
      <4>2. /\ DOMAIN res = DOMAIN c
            /\ res.global_interest_index = c.global_interest_index
            /\ res.total_liabilities = c.total_liabilities
        BY <4>1
      <4> HIDE DEF res
      <4>3. /\ DOMAIN step1 = DOMAIN c
            /\ step1.global_interest_index = c.global_interest_index
            /\ step1.total_liabilities = c.total_liabilities
        BY <4>1, <4>2
      <4> HIDE DEF step1
      <4>4. /\ DOMAIN step2 = DOMAIN c
            /\ step2.global_interest_index = c.global_interest_index
            /\ step2.total_liabilities = c.total_liabilities
        BY <4>1, <4>3
      <4> HIDE DEF step2
      <4> QED
        BY <3>5, <4>1, <4>4
    <3> QED
      BY <3>3, <3>4, <3>6 DEF CoveredBy
  <2> QED
    BY <1>3, <1>4, <2>1, <2>2
<1> HIDE DEF r
<1>8. /\ a.total_liabilities = r.total_liabilities
      /\ a.global_interest_index = r.global_interest_index
      /\ a.last_interest_updated = r.last_interest_updated
  <2> HIDE DEF a
  <2> QED
    BY <1>4, <1>5, <1>6, RewardKeeps
<1> HIDE DEF a
<1>9. CoveredBy(a)
  BY <1>7, <1>8 DEF CoveredBy
<1> QED
  BY <1>5, <1>7, <1>9 DEF a
-----------------------------------------------------------------------------
(***************************************************************************)
(* One lemma for each kind of step                                         *)
(***************************************************************************)
\* A step that leaves the borrowers, the total and the index as in st.
LEMMA KeepCovers ==
    ASSUME NEW st, CoveredBy(st), UNCHANGED borrower_info,
           state'.global_interest_index = st.global_interest_index,
           state'.total_liabilities = st.total_liabilities,
           state'.last_interest_updated = st.last_interest_updated
    PROVE  CoveredBy(state)'
<1>1. loans' = loans /\ indexes' = indexes
  BY DEF loans, indexes
<1> QED
  BY <1>1 DEF CoveredBy

\* A step that settles u in st and then adds change to its loan.
LEMMA LoanCovers ==
    ASSUME DInv, IInv', NEW st, StateGood(st, aterra_supply, bank), CoveredBy(st),
           NEW u \in Users, NEW info, NEW change \in Int,
           borrower_info' = [borrower_info EXCEPT ![u] = info],
           info.interest_index = st.global_interest_index,
           info.loan_amount = settle_borrower(st, borrower_info[u]).loan_amount + change,
           state'.global_interest_index = st.global_interest_index,
           state'.total_liabilities = st.total_liabilities + FromUint(change),
           state'.last_interest_updated = st.last_interest_updated
    PROVE  CoveredBy(state)'
<1> DEFINE F == settle_borrower(st, borrower_info[u]).loan_amount
           G == st.global_interest_index
           total == st.total_liabilities
           n == st.last_interest_updated
<1>1. /\ loans \in [Users -> Nat] /\ indexes \in [Users -> Nat] /\ indexes[u] > 0
      /\ borrower_info \in [Users -> BorrowerInfo]
      /\ loans[u] = borrower_info[u].loan_amount
      /\ indexes[u] = borrower_info[u].interest_index
  BY LoansTyped DEF DInv, loans, indexes
<1>2. PICK L2 \in [Users -> Nat], I2 \in [Users -> Nat] : L2 = loans' /\ I2 = indexes'
  <2>1. /\ \A v \in Users : borrower_info'[v].loan_amount \in Nat
        /\ \A v \in Users : borrower_info'[v].interest_index \in Nat
    BY DEF IInv, TypeOK, BorrowerInfo
  <2>2. /\ loans' = [v \in Users |-> borrower_info'[v].loan_amount]
        /\ indexes' = [v \in Users |-> borrower_info'[v].interest_index]
    BY DEF loans, indexes
  <2>3. loans' \in [Users -> Nat] /\ indexes' \in [Users -> Nat]
    BY <2>1, <2>2
  <2> QED
    BY <2>3
<1>3. G \in Nat /\ total \in Nat /\ n \in Nat /\ st \in MarketState
  BY DEF StateGood, MarketState
<1>4. F \in Nat /\ F * indexes[u] <= loans[u] * G
  <2>1. borrower_info[u] \in BorrowerInfo /\ borrower_info[u].interest_index > 0
    BY <1>1
  <2>2. /\ F \in Nat
        /\ F * borrower_info[u].interest_index <= borrower_info[u].loan_amount * G
    BY <1>3, <2>1, LoanBrought
  <2> HIDE DEF F, G
  <2> QED
    BY <1>1, <2>2
<1>5. L2[u] = F + change /\ I2[u] = G
  <2>1. borrower_info'[u] = info
    BY <1>1
  <2> QED
    BY <1>2, <2>1 DEF loans, indexes
<1>6. AgreeBut(u, loans, indexes, L2, I2)
  <2>1. \A v \in Users \ {u} : borrower_info'[v] = borrower_info[v]
    BY <1>1
  <2> QED
    BY <1>2, <2>1 DEF loans, indexes, AgreeBut
<1>7. Covers(loans, indexes, G, total, n)
  BY DEF CoveredBy
<1> HIDE DEF F, G, total, n
<1>8. F + change \in Nat
  <2>1. L2[u] \in Nat
    OBVIOUS
  <2> QED
    BY <1>5, <2>1, Zenon
<1>9. Covers(L2, I2, G, total + FromUint(change), n)
  <2>1. /\ loans \in [Users -> Nat] /\ indexes \in [Users -> Nat]
        /\ G \in Nat /\ total \in Nat /\ n \in Nat /\ F \in Nat
        /\ F + change \in Nat /\ indexes[u] > 0
        /\ F * indexes[u] <= loans[u] * G /\ Covers(loans, indexes, G, total, n)
    BY <1>1, <1>3, <1>4, <1>7, <1>8
  <2>2. L2[u] = F + change /\ I2[u] = G /\ AgreeBut(u, loans, indexes, L2, I2)
    BY <1>5, <1>6
  <2> QED
    BY <2>1, <2>2, SettleCovers
<1> QED
  BY <1>2, <1>9 DEF CoveredBy, G, total, n

LEMMA LendingCovers ==
    ASSUME DInv, IInv', NEW u \in Users, NEW b \in Amounts, NEW l,
           NEW t \in TargetRates, borrow_stable(u, b, l, t)
    PROVE  CoveredBy(state)'
<1> DEFINE st == accrued(bank, t)
           liability == settle_borrower(st, borrower_info[u])
           info == [liability EXCEPT !.loan_amount = @ + b]
<1>2. b \in Nat /\ b \in Int /\ t \in Nat /\ IInv
  BY InputTypes DEF DInv
<1>20. CanComputeInterest(bank, t)
  BY DEF borrow_stable
<1>3. StateGood(st, aterra_supply, bank) /\ CoveredBy(st) /\ st \in MarketState
  BY <1>2, <1>20, AccruedGood, InterestCovers DEF StateGood
<1>4. /\ state' = [st EXCEPT !.total_liabilities = @ + FromUint(b)]
      /\ borrower_info' = [borrower_info EXCEPT ![u] = info]
  BY DEF borrow_stable
<1> HIDE DEF st
<1>5. liability \in BorrowerInfo /\ liability.interest_index = st.global_interest_index
  BY <1>2, <1>3, SettleGood
<1>6. info.loan_amount = settle_borrower(st, borrower_info[u]).loan_amount + b
      /\ info.interest_index = st.global_interest_index
  <2> HIDE DEF liability
  <2>1. info.loan_amount = liability.loan_amount + b
        /\ info.interest_index = st.global_interest_index
    BY <1>5 DEF BorrowerInfo
  <2> QED
    BY <2>1 DEF liability
<1> HIDE DEF info
<1>7. /\ state'.global_interest_index = st.global_interest_index
      /\ state'.total_liabilities = st.total_liabilities + FromUint(b)
      /\ state'.last_interest_updated = st.last_interest_updated
  BY <1>3, <1>4 DEF MarketState
<1> QED
  BY <1>2, <1>3, <1>4, <1>6, <1>7, LoanCovers

LEMMA BorrowCovers == ASSUME DInv, IInv', Borrow PROVE CoveredBy(state)'
BY LendingCovers DEF Borrow

LEMMA RepaymentCovers ==
    ASSUME DInv, IInv', NEW u \in Users, NEW a \in Nat, NEW t \in Nat,
           settle_repayment(u, a, t)
    PROVE  CoveredBy(state)'
<1> DEFINE st == accrued(bank, t)
           liability == settle_borrower(st, borrower_info[u])
           repay == Lesser(liability.loan_amount, a)
           info == [liability EXCEPT !.loan_amount = @ - repay]
           back == 0 - repay
<1>1. IInv
  BY DEF DInv
<1>20. CanComputeInterest(bank, t)
  BY DEF settle_repayment
<1>2. StateGood(st, aterra_supply, bank) /\ CoveredBy(st) /\ st \in MarketState
  BY <1>1, <1>20, AccruedGood, InterestCovers DEF StateGood
<1>3. /\ state' = [st EXCEPT !.total_liabilities = @ - FromUint(repay)]
      /\ borrower_info' = [borrower_info EXCEPT ![u] = info]
  BY DEF settle_repayment
<1> HIDE DEF st
<1>4. liability \in BorrowerInfo /\ liability.interest_index = st.global_interest_index
  BY <1>1, <1>2, SettleGood
<1>5. repay \in Nat
  <2> HIDE DEF liability
  <2> QED
    BY <1>4 DEF BorrowerInfo, Lesser
<1>6. info.loan_amount = settle_borrower(st, borrower_info[u]).loan_amount + back
      /\ info.interest_index = st.global_interest_index
  <2> HIDE DEF liability, repay
  <2>1. info.loan_amount = liability.loan_amount + back
        /\ info.interest_index = st.global_interest_index
    BY <1>4, <1>5 DEF BorrowerInfo
  <2> QED
    BY <2>1 DEF liability
<1> HIDE DEF info, repay
<1>7. /\ state'.global_interest_index = st.global_interest_index
      /\ state'.total_liabilities = st.total_liabilities + FromUint(back)
      /\ state'.last_interest_updated = st.last_interest_updated
  <2>1. FromUint(back) = 0 - FromUint(repay) /\ FromUint(repay) \in Int
    BY <1>5, ScaleAssumption DEF FromUint
  <2> HIDE DEF back
  <2> QED
    BY <1>2, <1>3, <2>1 DEF MarketState
<1>8. back \in Int
  BY <1>5
<1> HIDE DEF back
<1> QED
  BY <1>2, <1>3, <1>6, <1>7, <1>8, LoanCovers

LEMMA RepayCovers ==
    ASSUME DInv, IInv', Repay \/ RepayFromLiquidation PROVE CoveredBy(state)'
<1>1. PICK u \in Users, a \in Amounts, t \in TargetRates :
        \/ repay_stable(u, a, t)
        \/ repay_stable_from_liquidation(u, bank + a, bank, t)
  BY DEF Repay, RepayFromLiquidation
<1>2. a \in Nat /\ t \in Nat /\ bank \in Nat
  BY InputTypes DEF DInv, IInv, TypeOK
<1>3. (bank + a) - bank = a
  BY <1>2
<1>4. settle_repayment(u, a, t)
  BY <1>1, <1>3 DEF repay_stable, repay_stable_from_liquidation
<1> QED
  BY <1>2, <1>4, RepaymentCovers

LEMMA ClaimingCovers ==
    ASSUME DInv, IInv', NEW u \in Users, NEW t \in TargetRates, claim_rewards(u, t)
    PROVE  CoveredBy(state)'
<1> DEFINE st == accrued(bank, t)
           liability == settle_borrower(st, borrower_info[u])
           claim == Trunc(liability.pending_rewards)
           info == [liability EXCEPT !.pending_rewards = @ - FromUint(claim)]
<1>2. t \in Nat /\ IInv
  BY InputTypes DEF DInv
<1>20. CanComputeInterest(bank, t)
  BY DEF claim_rewards
<1>3. StateGood(st, aterra_supply, bank) /\ CoveredBy(st) /\ st \in MarketState
  BY <1>2, <1>20, AccruedGood, InterestCovers DEF StateGood
<1>4. state' = st /\ borrower_info' = [borrower_info EXCEPT ![u] = info]
  BY DEF claim_rewards
<1> HIDE DEF st, claim
<1>5. liability \in BorrowerInfo /\ liability.interest_index = st.global_interest_index
  BY <1>2, <1>3, SettleGood
<1>6. info.loan_amount = settle_borrower(st, borrower_info[u]).loan_amount + 0
      /\ info.interest_index = st.global_interest_index
  <2> HIDE DEF liability
  <2>1. info.loan_amount = liability.loan_amount + 0
        /\ info.interest_index = st.global_interest_index
    BY <1>5 DEF BorrowerInfo
  <2> QED
    BY <2>1 DEF liability
<1> HIDE DEF info
<1>7. /\ state'.global_interest_index = st.global_interest_index
      /\ state'.total_liabilities = st.total_liabilities + FromUint(0)
      /\ state'.last_interest_updated = st.last_interest_updated
  BY <1>3, <1>4, ScaleAssumption DEF MarketState, FromUint
<1>8. 0 \in Int
  OBVIOUS
<1> QED
  BY <1>3, <1>4, <1>6, <1>7, <1>8, LoanCovers

LEMMA ClaimCovers == ASSUME DInv, IInv', ClaimRewards PROVE CoveredBy(state)'
BY ClaimingCovers DEF ClaimRewards

LEMMA DepositorCovers == ASSUME DInv, Deposit \/ Redeem PROVE CoveredBy(state)'
<1>1. PICK a \in Amounts, t \in TargetRates : deposit_stable(a, t) \/ redeem_stable(a, t)
  BY DEF Deposit, Redeem
<1> DEFINE st == accrued(bank, t)
           rate == compute_exchange_rate_raw(st, aterra_supply, bank)
           mint == UintDivDec(a, rate)
<1>2. t \in Nat /\ IInv
  BY InputTypes DEF DInv
<1>20. CanComputeInterest(bank, t)
  BY <1>1 DEF deposit_stable, redeem_stable
<1>3. CoveredBy(st) /\ st \in MarketState
  BY <1>2, <1>20, AccruedGood, InterestCovers DEF StateGood
<1>4. /\ UNCHANGED borrower_info
      /\ \/ state' = [st EXCEPT !.prev_aterra_supply = @ + mint]
         \/ state' = [st EXCEPT !.prev_aterra_supply = @ - a]
  BY <1>1 DEF deposit_stable, redeem_stable
<1> HIDE DEF st, mint
<1>5. /\ state'.global_interest_index = st.global_interest_index
      /\ state'.total_liabilities = st.total_liabilities
      /\ state'.last_interest_updated = st.last_interest_updated
  BY <1>3, <1>4 DEF MarketState
<1> QED
  BY <1>3, <1>4, <1>5, KeepCovers

LEMMA EpochCovers == ASSUME DInv, EpochOperations PROVE CoveredBy(state)'
<1>1. PICK x \in EpochRates, t \in TargetRates, h \in ThresholdRates,
           d \in Amounts \cup {0} : execute_epoch_operations(bank, x, t, h, d)
  BY DEF EpochOperations
<1> DEFINE r == compute_interest(bank, t)
           q == query_epoch_state(height, bank, d, t)
           priced == [r EXCEPT !.prev_exchange_rate = q]
           st == epoch_interest(bank, d, t)
           kept == st.total_reserves - FromUint(epoch_reserves(bank, d, t))
           emission == query_anc_emission_rate(
                         emission_config[config.distribution_model],
                         x, t, h, st.anc_emission_rate)
<1>2. t \in Nat /\ d \in Nat /\ IInv
  BY MarketAssumption DEF DInv
<1>20. CanComputeInterest(bank, t)
  BY <1>1 DEF execute_epoch_operations, can_execute_epoch_operations,
              can_query_epoch_state, CanComputeInterest
<1>3. CoveredBy(r) /\ r \in MarketState
  BY <1>2, <1>20, AccruedGood, InterestCovers DEF StateGood
<1>4. st \in MarketState
  BY <1>2, <1>20, EpochInterestGood DEF StateGood
<1>5. /\ st.global_interest_index = r.global_interest_index
      /\ st.total_liabilities = r.total_liabilities
      /\ st.last_interest_updated = r.last_interest_updated
  <2>1. st = compute_reward(priced, height)
    BY DEF epoch_interest
  <2> HIDE DEF r, q, st
  <2>2. DOMAIN r = {"total_liabilities", "total_reserves", "last_interest_updated",
                    "last_reward_updated", "global_interest_index",
                    "global_reward_index", "anc_emission_rate",
                    "prev_aterra_supply", "prev_exchange_rate"}
    BY <1>3 DEF MarketState
  <2>3. /\ DOMAIN priced = DOMAIN r
        /\ priced.global_interest_index = r.global_interest_index
        /\ priced.total_liabilities = r.total_liabilities
        /\ priced.last_interest_updated = r.last_interest_updated
    BY <2>2
  <2> HIDE DEF priced
  <2> QED
    BY <2>1, <2>2, <2>3 DEF compute_reward
<1>6. /\ UNCHANGED borrower_info
      /\ state' = [[st EXCEPT !.total_reserves = kept] EXCEPT !.anc_emission_rate = emission]
  BY <1>1 DEF execute_epoch_operations
<1> HIDE DEF st, kept, emission, r
<1>7. /\ state'.global_interest_index = st.global_interest_index
      /\ state'.total_liabilities = st.total_liabilities
      /\ state'.last_interest_updated = st.last_interest_updated
  BY <1>4, <1>6 DEF MarketState
<1> QED
  BY <1>3, <1>5, <1>6, <1>7, KeepCovers

LEMMA RestCovers ==
    ASSUME DInv,
           \/ register_contracts \/ UpdateConfig \/ UpdateInterestModel
           \/ UpdateDistributionModel \/ NextBlock \/ Donation \/ HolderBurn
           \/ UNCHANGED mvars
    PROVE  CoveredBy(state)'
<1>1. CASE UNCHANGED state
  <2>1. UNCHANGED borrower_info
    BY DEF register_contracts, UpdateConfig, update_config, UpdateInterestModel,
           update_interest_model, UpdateDistributionModel, update_distribution_model,
           NextBlock, Donation, Donate, HolderBurn, holder_burn, mvars
  <2> QED
    BY <1>1, <2>1, KeepCovers DEF DInv
<1>2. CASE ~UNCHANGED state
  <2>1. UpdateConfig
    BY <1>2 DEF register_contracts, UpdateInterestModel, update_interest_model,
                UpdateDistributionModel, update_distribution_model, NextBlock,
                Donation, Donate, HolderBurn, holder_burn, mvars
  <2>2. PICK t \in TargetRates : /\ CanComputeInterest(bank, t)
                                /\ state' = compute_interest(bank, t) /\ UNCHANGED borrower_info
    BY <1>2, <2>1 DEF UpdateConfig, update_config
  <2>3. CoveredBy(compute_interest(bank, t))
    BY <2>2, InputTypes, InterestCovers
  <2> QED
    BY <2>2, <2>3, KeepCovers
<1> QED
  BY <1>1, <1>2

LEMMA StepCovers == ASSUME DInv, [Next]_mvars PROVE DInv'
<1>1. IInv'
  BY StepIsGood DEF DInv, StepGood
<1>2. CoveredBy(state)'
  BY <1>1, BorrowCovers, RepayCovers, ClaimCovers, DepositorCovers, EpochCovers,
     RestCovers DEF Next
<1> QED
  BY <1>1, <1>2 DEF DInv

LEMMA InitCovers == ASSUME Init PROVE DInv
<1>1. IInv
  BY InitGood
<1>2. /\ state.global_interest_index \in Nat /\ state.total_liabilities = 0
      /\ state.last_interest_updated = 0
      /\ \A u \in Users : loans[u] = 0
  BY <1>1, LoansTyped DEF Init, loans, MarketState
<1> SUFFICES ASSUME NEW M, NEW k, Common(indexes, M, k)
             PROVE  (Scale * Scale) * (state.global_interest_index * Weight(loans, k))
                      <= M * (Scale * 0 + 0 * state.global_interest_index)
  BY <1>1, <1>2 DEF DInv, CoveredBy, Covers
<1> DEFINE f == [u \in Users |-> loans[u] * k[u]]
<1>3. M \in Nat /\ \A u \in Users : k[u] \in Nat
  BY DEF Common
<1>4. \A u \in Users : f[u] = 0
  BY <1>2, <1>3
<1> HIDE DEF f
<1>5. SumFunctionOnSet(f, Users) = 0
  BY <1>4, UsersFinite, SumZero
<1>6. Weight(loans, k) = 0
  BY <1>5 DEF Weight, f
<1> QED
  BY <1>2, <1>3, <1>6, ScaleAssumption

LEMMA CoveredAlways == Spec => []DInv
<1>1. Init => DInv
  BY InitCovers
<1>2. DInv /\ [Next]_mvars => DInv'
  BY StepCovers
<1> QED
  BY <1>1, <1>2, PTL DEF Spec

\* With the invariant, the total covers what is owed but for the rounding loss.
LEMMA OwedCovered == ASSUME DInv PROVE DebtsCovered
<1> DEFINE o == [u \in Users |-> owed(u)]
           G == state.global_interest_index
           total == state.total_liabilities
           n == state.last_interest_updated
<1>1. /\ loans \in [Users -> Nat] /\ indexes \in [Users -> Nat]
      /\ \A u \in Users : indexes[u] > 0
      /\ state \in MarketState
      /\ borrower_info \in [Users -> BorrowerInfo]
  BY LoansTyped DEF DInv
<1>2. ASSUME NEW u \in Users
      PROVE  o[u] \in Nat /\ o[u] * indexes[u] <= loans[u] * G
  <2>1. borrower_info[u] \in BorrowerInfo /\ borrower_info[u].interest_index > 0
        /\ loans[u] = borrower_info[u].loan_amount
        /\ indexes[u] = borrower_info[u].interest_index
    BY <1>1 DEF loans, indexes
  <2>2. owed(u) = settle_borrower(state, borrower_info[u]).loan_amount
    BY <1>1, <2>1, LoanBrought DEF owed
  <2>3. owed(u) \in Nat /\ owed(u) * borrower_info[u].interest_index
                             <= borrower_info[u].loan_amount * G
    BY <1>1, <2>1, <2>2, LoanBrought
  <2>4. o[u] = owed(u)
    OBVIOUS
  <2> HIDE DEF o, G
  <2> QED
    BY <2>1, <2>3, <2>4
<1>3. o \in [Users -> Nat]
  BY <1>2
<1>4. G \in Nat /\ total \in Nat /\ n \in Nat
  BY <1>1 DEF MarketState
<1>5. Covers(loans, indexes, G, total, n)
  BY DEF DInv, CoveredBy
<1>6. n * G = rounding_loss
  BY DEF rounding_loss
<1> HIDE DEF o, G, total, n
<1>7. Scale * (FromUint(SumFunctionOnSet(o, Users)) - total) <= n * G
  BY <1>1, <1>2, <1>3, <1>4, <1>5, CoversDebts
<1> QED
  BY <1>6, <1>7 DEF DebtsCovered, o, total

\* At any scale and rates, for any number of borrowers, the total covers what
\* they owe but for what rounding down the charges of interest has lost.
THEOREM DebtsAlwaysCovered == Spec => []DebtsCovered
<1>1. DInv => DebtsCovered
  BY OwedCovered
<1> QED
  BY <1>1, CoveredAlways, PTL

-----------------------------------------------------------------------------
(***************************************************************************)
(* A block's emission shared out                                           *)
(***************************************************************************)
\* What compute_reward adds to the index when a is accrued.
Gain(total, G, a) ==
    IF DecDiv(total, G) = 0 THEN 0 ELSE DecDiv(a, DecDiv(total, G))

\* What the index grows by, when a is accrued, rewards the loans Q with a and a
\* share of it at most.  The quotient is by liabilities that lack the n units;
\* they are few next to the loans as long as x is no more than the unit.
Shares(G, total, n, Q, M, a, x) ==
    /\ G \in Nat /\ total \in Nat /\ n \in Nat /\ Q \in Nat
    /\ M \in Nat /\ a \in Nat /\ x \in Nat /\ G > 0
    /\ Q > 0 => M <= G * Q
    /\ x = 2 * (n + 1) * G /\ x <= Scale * Scale
    /\ (Scale * Scale) * (G * Q) <= M * (Scale * total + n * G)

LEMMA ShareArithmetic ==
    ASSUME NEW G, NEW total, NEW n, NEW Q, NEW M, NEW a, NEW x,
           Shares(G, total, n, Q, M, a, x)
    PROVE  /\ Gain(total, G, a) \in Nat
           /\ (Scale * Scale) * ((Scale * Gain(total, G, a)) * Q)
                <= (Scale * Scale + x) * (M * a)
<1> DEFINE S == Scale
           SS == S * S
           N == n + 1
           B == DecDiv(total, G)
           more == Gain(total, G, a)
<1>0. /\ G \in Nat /\ total \in Nat /\ n \in Nat /\ Q \in Nat
      /\ M \in Nat /\ a \in Nat /\ x \in Nat /\ G > 0
      /\ Q > 0 => M <= G * Q
      /\ x = 2 * N * G /\ x <= SS
      /\ SS * (G * Q) <= M * (S * total + n * G)
  BY DEF Shares
<1> USE <1>0
<1>1. S \in Nat /\ S > 0 /\ SS \in Nat /\ N \in Nat /\ SS + x \in Nat
      /\ (SS + x) * (M * a) \in Nat
  BY ScaleAssumption
<1>2. B \in Nat /\ S * total <= G * (B + 1)
  <2>1. total * S \in Nat /\ total * S = S * total
    BY <1>1
  <2>2. B \in Nat /\ total * S < G * B + G
    BY <2>1, DivNat, DivInt DEF DecDiv
  <2> HIDE DEF B
  <2> QED
    BY <1>1, <2>1, <2>2
<1> HIDE DEF B
<1>3. more \in Nat /\ (B = 0 => more = 0) /\ (B > 0 => B * more <= a * S)
  <2>1. CASE B = 0
    BY <2>1 DEF Gain, B
  <2>2. CASE B > 0
    <3>1. a * S \in Nat
      BY <1>1
    <3>2. DecDiv(a, B) \in Nat /\ B * DecDiv(a, B) <= a * S
      BY <1>2, <2>2, <3>1, DivNat, DivInt DEF DecDiv
    <3>3. more = DecDiv(a, B)
      BY <2>2 DEF Gain, B
    <3> HIDE DEF more
    <3> QED
      BY <1>2, <2>2, <3>2, <3>3
  <2> QED
    BY <1>2, <2>1, <2>2
<1>4. ASSUME B = 0 \/ Q = 0 PROVE SS * ((S * more) * Q) <= (SS + x) * (M * a)
  <2> HIDE DEF more, S, SS
  <2>1. (S * more) * Q = 0
    BY <1>1, <1>3, <1>4
  <2> QED
    BY <1>1, <2>1
<1>5. ASSUME B > 0, Q > 0 PROVE SS * ((S * more) * Q) <= (SS + x) * (M * a)
  <2> HIDE DEF more, S, SS, N
  <2>1. SS * Q <= M * (B + N)
    <3>1. M * (S * total + n * G) <= M * (G * (B + 1) + n * G)
      <4>1. S * total + n * G \in Int /\ G * (B + 1) + n * G \in Int
            /\ S * total + n * G <= G * (B + 1) + n * G
        BY <1>1, <1>2
      <4> DEFINE p == S * total + n * G
                 q == G * (B + 1) + n * G
      <4> HIDE DEF p, q
      <4>2. p * M <= q * M /\ p * M = M * p /\ q * M = M * q
        BY <4>1, MulMono DEF p, q
      <4> QED
        BY <4>2 DEF p, q
    <3>2. M * (G * (B + 1) + n * G) = (M * (B + N)) * G
      BY <1>1, <1>2 DEF N
    <3>3. SS * (G * Q) = (SS * Q) * G /\ SS * Q \in Int /\ M * (B + N) \in Int
          /\ SS * (G * Q) \in Int /\ M * (S * total + n * G) \in Int
      BY <1>1, <1>2
    <3>4. SS * (G * Q) <= M * (S * total + n * G)
      BY DEF S, SS
    <3>5. (SS * Q) * G <= (M * (B + N)) * G
      BY <1>1, <1>2, <3>1, <3>2, <3>3, <3>4
    <3> QED
      BY <3>3, <3>5, MulCancel
  <2>2. SS <= (2 * G) * B
    <3>1. M > 0
      <4>1. SS * Q > 0
        BY <1>1, <1>5 DEF SS
      <4> QED
        BY <1>1, <1>2, <2>1, <4>1
    <3>2. SS * M <= (G * (B + N)) * M
      <4>1. M * SS <= (G * Q) * SS
        BY <1>1, <1>5, MulMono
      <4>2. (SS * Q) * G <= (M * (B + N)) * G
        <5>1. SS * Q \in Int /\ M * (B + N) \in Int
          BY <1>1, <1>2
        <5> QED
          BY <2>1, <5>1, MulMono
      <4>3. (G * Q) * SS = (SS * Q) * G /\ (M * (B + N)) * G = (G * (B + N)) * M
            /\ M * SS = SS * M
        BY <1>1, <1>2
      <4>4. M * SS \in Int /\ (G * Q) * SS \in Int /\ (M * (B + N)) * G \in Int
        BY <1>1, <1>2
      <4> QED
        BY <4>1, <4>2, <4>3, <4>4
    <3>3. SS <= G * (B + N)
      <4>1. G * (B + N) \in Int
        BY <1>1, <1>2
      <4> QED
        BY <1>1, <3>1, <3>2, <4>1, MulCancel
    <3>4. x = 2 * (N * G) /\ x <= SS
      BY <1>1 DEF S, SS, N
    <3>5. G * (B + N) = G * B + N * G /\ (2 * G) * B = 2 * (G * B)
          /\ G * B \in Nat /\ N * G \in Nat
      BY <1>1, <1>2
    <3> QED
      BY <1>1, <3>3, <3>4, <3>5
  <2>3. S * more <= (2 * G) * a
    <3>1. SS * more <= ((2 * G) * B) * more
      <4>1. (2 * G) * B \in Int
        BY <1>2
      <4> QED
        BY <1>1, <1>3, <2>2, <4>1, MulMono
    <3>2. (B * more) * (2 * G) <= (a * S) * (2 * G)
      <4>1. B * more \in Int /\ a * S \in Int /\ 2 * G \in Nat
        BY <1>1, <1>2, <1>3
      <4> QED
        BY <1>3, <1>5, <4>1, MulMono
    <3>3. /\ ((2 * G) * B) * more = (B * more) * (2 * G)
          /\ (a * S) * (2 * G) = ((2 * G) * a) * S
          /\ SS * more = (S * more) * S
      BY <1>1, <1>2, <1>3 DEF SS
    <3>4. /\ SS * more \in Int /\ ((2 * G) * B) * more \in Int
          /\ (a * S) * (2 * G) \in Int /\ S * more \in Int /\ (2 * G) * a \in Int
      BY <1>1, <1>2, <1>3
    <3>5. (S * more) * S <= ((2 * G) * a) * S
      BY <3>1, <3>2, <3>3, <3>4
    <3> QED
      BY <1>1, <3>4, <3>5, MulCancel
  <2>4. SS * ((S * more) * Q) <= (M * (B + N)) * (S * more)
    <3>1. SS * Q \in Int /\ M * (B + N) \in Int /\ S * more \in Nat
      BY <1>1, <1>2, <1>3
    <3>2. (SS * Q) * (S * more) <= (M * (B + N)) * (S * more)
      BY <2>1, <3>1, MulMono
    <3>3. (SS * Q) * (S * more) = SS * ((S * more) * Q)
      BY <1>1, <1>3
    <3> QED
      BY <3>2, <3>3
  <2>5. (M * (B + N)) * (S * more) = (B * more) * (M * S) + (S * more) * (M * N)
    BY <1>1, <1>2, <1>3
  <2>6. (B * more) * (M * S) <= (a * S) * (M * S)
    <3>1. B * more \in Int /\ a * S \in Int /\ M * S \in Nat
      BY <1>1, <1>2, <1>3
    <3> QED
      BY <1>3, <1>5, <3>1, MulMono
  <2>7. (S * more) * (M * N) <= ((2 * G) * a) * (M * N)
    <3>1. S * more \in Int /\ (2 * G) * a \in Int /\ M * N \in Nat
      BY <1>1, <1>3
    <3> QED
      BY <2>3, <3>1, MulMono
  <2>8. (SS + x) * (M * a) = (a * S) * (M * S) + ((2 * G) * a) * (M * N)
    <3>1. x = 2 * (N * G)
      BY <1>1 DEF N
    <3>2. SS * (M * a) = (a * S) * (M * S)
      BY <1>1 DEF SS
    <3>3. (2 * (N * G)) * (M * a) = ((2 * G) * a) * (M * N)
      BY <1>1
    <3>4. (SS + x) * (M * a) = SS * (M * a) + x * (M * a)
      BY <1>1
    <3> QED
      BY <3>1, <3>2, <3>3, <3>4
  <2>9. /\ SS * ((S * more) * Q) \in Int /\ (B * more) * (M * S) \in Int
        /\ (S * more) * (M * N) \in Int /\ (a * S) * (M * S) \in Int
        /\ ((2 * G) * a) * (M * N) \in Int
    BY <1>1, <1>2, <1>3
  <2>10. SS * ((S * more) * Q) <= (SS + x) * (M * a)
    BY <2>4, <2>5, <2>6, <2>7, <2>8, <2>9
  <2> QED
    BY <2>10
<1>6. B = 0 \/ Q = 0 \/ (B > 0 /\ Q > 0)
  BY <1>2
<1>7. more \in Nat /\ SS * ((S * more) * Q) <= (SS + x) * (M * a)
  <2> HIDE DEF more, S, SS
  <2> QED
    BY <1>3, <1>4, <1>5, <1>6, Zenon
<1> QED
  BY <1>7 DEF S, SS, more
-----------------------------------------------------------------------------
(***************************************************************************)
(* What is promised and what is due                                        *)
(***************************************************************************)
\* What borrowers with the pending rewards P, settled at the reward indexes r,
\* are due at index R, times M.
Due(L, P, r, R, M, k) ==
    [u \in Users |-> M * P[u] + (Scale * (R - r[u])) * (L[u] * k[u])]
Dues(L, P, r, R, M, k) == SumFunctionOnSet(Due(L, P, r, R, M, k), Users)

\* With what has been paid, it is no more than E and a share x of it.
Promised(L, I, P, r, R, paid, E, x) ==
    \A M, k : Common(I, M, k) =>
      (Scale * Scale) * (Dues(L, P, r, R, M, k) + M * FromUint(paid))
        <= (Scale * Scale + x) * (M * E)

\* The accounts of the borrowers, and quotients for them.
Accounts(L, P, r) ==
    L \in [Users -> Nat] /\ P \in [Users -> Nat] /\ r \in [Users -> Nat]
Quotients(M, k) == M \in Nat /\ k \in [Users -> Nat]
SettledBy(r, R) == R \in Nat /\ \A u \in Users : r[u] <= R

LEMMA DuesNat ==
    ASSUME NEW L, NEW P, NEW r, Accounts(L, P, r), NEW R, SettledBy(r, R),
           NEW M, NEW k, Quotients(M, k)
    PROVE  /\ \A u \in Users : Due(L, P, r, R, M, k)[u] \in Nat
           /\ Dues(L, P, r, R, M, k) \in Nat
<1> DEFINE f == Due(L, P, r, R, M, k)
<1>1. ASSUME NEW u \in Users PROVE f[u] \in Nat
  <2> DEFINE p == P[u]
             d == R - r[u]
             l == L[u]
             q == k[u]
  <2>1. M \in Nat /\ p \in Nat /\ d \in Nat /\ l \in Nat /\ q \in Nat
    BY DEF Accounts, SettledBy, Quotients
  <2>2. f[u] = M * p + (Scale * d) * (l * q)
    BY DEF Due
  <2> HIDE DEF p, d, l, q, f
  <2>3. M * p \in Nat /\ (Scale * d) * (l * q) \in Nat
    BY <2>1, ScaleAssumption
  <2> QED
    BY <2>2, <2>3
<1> HIDE DEF f
<1>2. SumFunctionOnSet(f, Users) \in Nat
  BY <1>1, UsersFinite, SumNat
<1> QED
  BY <1>1, <1>2 DEF Dues, f

\* When the index grows, every loan earns the same.
LEMMA DuesGrow ==
    ASSUME NEW L, NEW P, NEW r, Accounts(L, P, r), NEW R \in Nat, NEW more \in Nat,
           NEW M, NEW k, Quotients(M, k)
    PROVE  Dues(L, P, r, R + more, M, k)
             = Dues(L, P, r, R, M, k) + (Scale * more) * Weight(L, k)
<1> DEFINE f == Due(L, P, r, R, M, k)
           h == Due(L, P, r, R + more, M, k)
           w == [u \in Users |-> L[u] * k[u]]
           g == [u \in Users |-> (Scale * more) * w[u]]
<1>1. ASSUME NEW u \in Users
      PROVE  /\ f[u] \in Int /\ g[u] \in Int /\ h[u] = f[u] + g[u]
             /\ w[u] \in Int /\ g[u] = (Scale * more) * w[u]
  <2> DEFINE p == P[u]
             d == r[u]
             l == L[u]
             q == k[u]
  <2>1. M \in Nat /\ p \in Nat /\ d \in Nat /\ l \in Nat /\ q \in Nat /\ Scale \in Nat
    BY ScaleAssumption DEF Accounts, Quotients
  <2>2. /\ f[u] = M * p + (Scale * (R - d)) * (l * q)
        /\ h[u] = M * p + (Scale * ((R + more) - d)) * (l * q)
        /\ w[u] = l * q
        /\ g[u] = (Scale * more) * w[u]
    <3>1. f[u] = M * p + (Scale * (R - d)) * (l * q)
      BY Zenon DEF Due
    <3>2. h[u] = M * p + (Scale * ((R + more) - d)) * (l * q)
      BY Zenon DEF Due
    <3>3. w[u] = l * q
      BY Zenon
    <3>4. g[u] = (Scale * more) * w[u]
      BY Zenon
    <3> QED
      BY <3>1, <3>2, <3>3, <3>4
  <2> HIDE DEF p, d, l, q, f, g, h, w
  <2>3. w[u] \in Nat /\ g[u] \in Int /\ f[u] \in Int
    BY <2>1, <2>2
  <2>4. (Scale * ((R + more) - d)) * (l * q)
          = (Scale * (R - d)) * (l * q) + (Scale * more) * (l * q)
    BY <2>1
  <2>5. /\ M * p \in Int /\ (Scale * (R - d)) * (l * q) \in Int
        /\ (Scale * more) * (l * q) \in Int
    BY <2>1
  <2>6. h[u] = f[u] + g[u]
    BY <2>2, <2>4, <2>5
  <2> QED
    BY <2>2, <2>3, <2>6
<1> HIDE DEF f, g, h, w
<1>2. SumFunctionOnSet(h, Users) = SumFunctionOnSet(f, Users) + SumFunctionOnSet(g, Users)
  BY <1>1, UsersFinite, SumAdd
<1>3. SumFunctionOnSet(g, Users) = (Scale * more) * SumFunctionOnSet(w, Users)
  <2>1. Scale * more \in Int /\ Multiple(g, Scale * more, w, Users)
    BY <1>1, ScaleAssumption DEF Multiple
  <2> QED
    BY <2>1, UsersFinite, SumScale
<1> QED
  BY <1>2, <1>3 DEF Dues, Weight, f, h, w

\* A larger share promises more.
LEMMA PromisedMore ==
    ASSUME NEW L, NEW I \in [Users -> Nat], NEW P, NEW r, NEW R, NEW paid,
           NEW E \in Nat, NEW x \in Nat, NEW y \in Nat, x <= y,
           Promised(L, I, P, r, R, paid, E, x),
           \A M, k : Common(I, M, k) =>
             Dues(L, P, r, R, M, k) + M * FromUint(paid) \in Int
    PROVE  Promised(L, I, P, r, R, paid, E, y)
<1> SUFFICES ASSUME NEW M, NEW k, Common(I, M, k)
             PROVE  (Scale * Scale) * (Dues(L, P, r, R, M, k) + M * FromUint(paid))
                      <= (Scale * Scale + y) * (M * E)
  BY DEF Promised
<1> DEFINE D == Dues(L, P, r, R, M, k) + M * FromUint(paid)
           SS == Scale * Scale
           F == M * E
<1>1. SS * D <= (SS + x) * F
  BY DEF Promised
<1>2. D \in Int
  OBVIOUS
<1>3. SS \in Nat /\ F \in Nat
  BY ScaleAssumption DEF Common
<1> HIDE DEF D, SS, F
<1>4. (SS + x) * F <= (SS + y) * F
  BY <1>3, MulMono
<1>5. SS * D \in Int /\ (SS + x) * F \in Int /\ (SS + y) * F \in Int
  BY <1>2, <1>3
<1>6. SS * D <= (SS + y) * F
  BY <1>1, <1>4, <1>5
<1> QED
  BY <1>6 DEF D, SS, F

\* The emission of some blocks is accrued: at interest index G, the loans that
\* the total covers are due no more than has been emitted.
LEMMA SharePromised ==
    ASSUME NEW L \in [Users -> Nat], NEW I \in [Users -> Nat],
           NEW P \in [Users -> Nat], NEW r \in [Users -> Nat], NEW R \in Nat,
           NEW paid \in Nat, NEW E \in Nat, NEW a \in Nat, NEW x \in Nat,
           NEW G \in Nat, NEW total \in Nat, NEW n \in Nat,
           G > 0, \A u \in Users : r[u] <= R /\ I[u] <= G,
           x = 2 * (n + 1) * G, x <= Scale * Scale,
           Covers(L, I, G, total, n), Promised(L, I, P, r, R, paid, E, x)
    PROVE  /\ Gain(total, G, a) \in Nat
           /\ Promised(L, I, P, r, R + Gain(total, G, a), paid, E + a, x)
<1> DEFINE more == Gain(total, G, a)
           SS == Scale * Scale
<1>1. ASSUME NEW M, NEW k, Common(I, M, k)
      PROVE  /\ more \in Nat
             /\ SS * ((Scale * more) * Weight(L, k)) <= (SS + x) * (M * a)
  <2> DEFINE Q == Weight(L, k)
  <2>1. M \in Nat /\ k \in [Users -> Nat] /\ Q \in Nat
    BY <1>1, WeightNat DEF Common
  <2>2. Q > 0 => M <= G * Q
    <3>1. SUFFICES ASSUME Q > 0 PROVE M <= G * Q
      OBVIOUS
    <3>2. PICK u \in Users : L[u] * k[u] > 0
      <4> DEFINE f == [u \in Users |-> L[u] * k[u]]
      <4>1. SUFFICES ASSUME \A u \in Users : ~(L[u] * k[u] > 0) PROVE FALSE
        OBVIOUS
      <4>2. ASSUME NEW u \in Users PROVE f[u] = 0
        <5> DEFINE l == L[u]
                   q == k[u]
        <5>1. l \in Nat /\ q \in Nat /\ f[u] = l * q /\ ~(l * q > 0)
          BY <2>1, <4>1
        <5> HIDE DEF l, q, f
        <5>2. l * q \in Nat
          BY <5>1
        <5> QED
          BY <5>1, <5>2
      <4> HIDE DEF f
      <4>3. SumFunctionOnSet(f, Users) = 0
        BY <4>2, UsersFinite, SumZero
      <4> QED
        BY <3>1, <4>3 DEF Weight, f
    <3> DEFINE l == L[u]
               q == k[u]
               rest == Others(L, k, u)
    <3>3. l \in Nat /\ q \in Nat /\ l * q > 0 /\ rest \in Nat /\ Q = l * q + rest
      BY <2>1, <3>2, WeightSplits
    <3>4. q * I[u] = M /\ I[u] \in Nat /\ I[u] <= G
      BY <1>1 DEF Common
    <3> HIDE DEF l, q, rest, Q
    <3>5. q <= l * q
      <4>1. l >= 1
        BY <3>3
      <4>2. 1 * q <= l * q
        BY <3>3, <4>1, MulMono
      <4> QED
        BY <3>3, <4>2
    <3>6. q <= Q
      <4>1. l * q \in Nat
        BY <3>3
      <4> QED
        BY <3>3, <3>5, <4>1
    <3>7. q * G <= Q * G
      BY <2>1, <3>3, <3>6, MulMono
    <3>8. I[u] * q <= G * q
      BY <3>3, <3>4, MulMono
    <3>9. I[u] * q = q * I[u] /\ G * q = q * G /\ Q * G = G * Q
      BY <2>1, <3>3, <3>4
    <3>10. q * G \in Int /\ G * Q \in Int
      BY <2>1, <3>3
    <3> QED
      BY <2>1, <3>4, <3>7, <3>8, <3>9, <3>10
  <2>3. SS * (G * Q) <= M * (Scale * total + n * G)
    BY <1>1 DEF Covers
  <2> HIDE DEF Q
  <2>4. /\ more \in Nat
        /\ SS * ((Scale * more) * Q) <= (SS + x) * (M * a)
    <3>1. Shares(G, total, n, Q, M, a, x)
      BY <2>1, <2>2, <2>3 DEF Shares
    <3> HIDE DEF SS
    <3>2. /\ more \in Nat
          /\ (Scale * Scale) * ((Scale * more) * Q) <= (Scale * Scale + x) * (M * a)
      BY <3>1, ShareArithmetic
    <3> QED
      BY <3>2 DEF SS
  <2> QED
    BY <2>4 DEF Q
<1>2. more \in Nat
  <2>1. total * Scale \in Nat /\ a * Scale \in Nat
    BY ScaleAssumption
  <2> DEFINE borrowed == DecDiv(total, G)
  <2>2. borrowed \in Nat
    BY DecDivNat
  <2> HIDE DEF borrowed
  <2>3. borrowed > 0 => DecDiv(a, borrowed) \in Nat
    BY <2>2, DecDivNat
  <2> QED
    BY <2>2, <2>3 DEF Gain, borrowed
<1> HIDE DEF more
<1>3. ASSUME NEW M, NEW k, Common(I, M, k)
      PROVE  SS * (Dues(L, P, r, R + more, M, k) + M * FromUint(paid))
               <= (SS + x) * (M * (E + a))
  <2> DEFINE D == Dues(L, P, r, R, M, k)
             D2 == Dues(L, P, r, R + more, M, k)
             c == M * FromUint(paid)
             e == (Scale * more) * Weight(L, k)
  <2>1. /\ M \in Nat /\ k \in [Users -> Nat] /\ SS \in Nat /\ FromUint(paid) \in Nat
        /\ Quotients(M, k) /\ Accounts(L, P, r) /\ SettledBy(r, R)
    BY <1>3, ScaleAssumption DEF Common, FromUint, Quotients, Accounts, SettledBy
  <2>2. D \in Nat /\ D2 = D + e /\ c \in Nat
    <3>1. D \in Nat
      BY <2>1, DuesNat
    <3>2. D2 = D + e
      <4> HIDE DEF SS
      <4>1. PICK m \in Nat : m = more
        BY <1>2
      <4>2. Dues(L, P, r, R + m, M, k) = Dues(L, P, r, R, M, k) + (Scale * m) * Weight(L, k)
        BY <2>1, DuesGrow
      <4> QED
        BY <4>1, <4>2
    <3>3. c \in Nat
      BY <2>1
    <3> QED
      BY <3>1, <3>2, <3>3
  <2>3. e \in Nat
    BY <1>2, <2>1, WeightNat, ScaleAssumption
  <2>4. SS * (D + c) <= (SS + x) * (M * E)
    BY <1>3 DEF Promised
  <2>5. SS * e <= (SS + x) * (M * a)
    BY <1>1, <1>3
  <2> HIDE DEF D, D2, c, e, SS
  <2>6. SS * (D2 + c) = SS * (D + c) + SS * e
    BY <2>1, <2>2, <2>3
  <2>7. (SS + x) * (M * (E + a)) = (SS + x) * (M * E) + (SS + x) * (M * a)
    BY <2>1
  <2>8. /\ SS * (D + c) \in Int /\ SS * e \in Int
        /\ (SS + x) * (M * E) \in Int /\ (SS + x) * (M * a) \in Int
    BY <2>1, <2>2, <2>3
  <2>9. SS * (D2 + c) <= (SS + x) * (M * (E + a))
    BY <2>4, <2>5, <2>6, <2>7, <2>8
  <2> QED
    BY <2>9 DEF D2, c
<1>4. Promised(L, I, P, r, R + more, paid, E + a, x)
  BY <1>3 DEF Promised
<1> QED
  BY <1>2, <1>4 DEF more
-----------------------------------------------------------------------------
(***************************************************************************)
(* A borrower settled and paid                                             *)
(***************************************************************************)
OthersDue(L, P, r, R, M, k, u) ==
    SumFunctionOnSet(Due(L, P, r, R, M, k), Users \ {u})

LEMMA DuesSplit ==
    ASSUME NEW L, NEW P, NEW r, Accounts(L, P, r), NEW R, SettledBy(r, R),
           NEW M, NEW k, Quotients(M, k), NEW u \in Users
    PROVE  /\ OthersDue(L, P, r, R, M, k, u) \in Nat
           /\ Dues(L, P, r, R, M, k)
                = M * P[u] + (Scale * (R - r[u])) * (L[u] * k[u])
                    + OthersDue(L, P, r, R, M, k, u)
<1> DEFINE f == Due(L, P, r, R, M, k)
           T == Users \ {u}
<1>1. f[u] = M * P[u] + (Scale * (R - r[u])) * (L[u] * k[u])
  BY Zenon DEF Due
<1>2. \A v \in Users : f[v] \in Nat
  BY DuesNat
<1> HIDE DEF f
<1>3. \A v \in Users : f[v] \in Int
  BY <1>2
<1>4. SumFunctionOnSet(f, Users) = f[u] + SumFunctionOnSet(f, Users \ {u})
  BY <1>3, UsersFinite, SumRemove
<1>5. SumFunctionOnSet(f, T) \in Nat
  <2>1. IsFiniteSet(T) /\ \A v \in T : f[v] \in Nat
    BY <1>2, UsersFinite, FS_Subset
  <2> HIDE DEF T
  <2> QED
    BY <2>1, SumNat
<1> QED
  BY <1>1, <1>4, <1>5, Zenon DEF Dues, OthersDue, f, T

\* Only u's account changes.
SameBut(u, L, P, r, L2, P2, r2) ==
    \A v \in Users \ {u} : L2[v] = L[v] /\ P2[v] = P[v] /\ r2[v] = r[v]

LEMMA OthersDueScale ==
    ASSUME NEW L, NEW P, NEW r, Accounts(L, P, r), NEW R, SettledBy(r, R),
           NEW L2, NEW P2, NEW r2, NEW u \in Users, SameBut(u, L, P, r, L2, P2, r2),
           NEW M, NEW k, Quotients(M, k), NEW i \in Nat,
           NEW k1, Multiple(k1, i, k, Users \ {u})
    PROVE  OthersDue(L, P, r, R, M * i, k1, u) = i * OthersDue(L2, P2, r2, R, M, k, u)
<1> DEFINE f == Due(L2, P2, r2, R, M, k)
           g == Due(L, P, r, R, M * i, k1)
           T == Users \ {u}
<1>1. ASSUME NEW v \in T PROVE f[v] \in Int /\ g[v] = i * f[v]
  <2> DEFINE p == P[v]
             d == R - r[v]
             l == L[v]
             q == k[v]
  <2>1. M \in Nat /\ p \in Nat /\ d \in Nat /\ l \in Nat /\ q \in Nat /\ Scale \in Nat
    BY ScaleAssumption DEF Accounts, SettledBy, Quotients
  <2>2. v \in Users /\ L2[v] = L[v] /\ P2[v] = P[v] /\ r2[v] = r[v] /\ k1[v] = i * k[v]
    BY DEF SameBut, Multiple
  <2>3. f[v] = M * p + (Scale * d) * (l * q)
    <3>1. f[v] = M * P2[v] + (Scale * (R - r2[v])) * (L2[v] * k[v])
      BY <2>2, Zenon DEF Due
    <3> QED
      BY <2>2, <3>1, Zenon
  <2>4. g[v] = (M * i) * p + (Scale * d) * (l * (i * q))
    <3>1. g[v] = (M * i) * P[v] + (Scale * (R - r[v])) * (L[v] * k1[v])
      BY <2>2, Zenon DEF Due
    <3> QED
      BY <2>2, <3>1, Zenon
  <2> HIDE DEF p, d, l, q, f, g
  <2>5. /\ (M * i) * p = i * (M * p)
        /\ (Scale * d) * (l * (i * q)) = i * ((Scale * d) * (l * q))
    BY <2>1
  <2>6. M * p \in Int /\ (Scale * d) * (l * q) \in Int
    BY <2>1
  <2> QED
    BY <2>3, <2>4, <2>5, <2>6
<1> HIDE DEF f, g
<1>2. i \in Int /\ Multiple(g, i, f, T) /\ IsFiniteSet(T)
  BY <1>1, UsersFinite, FS_Subset DEF Multiple
<1> HIDE DEF T
<1>3. SumFunctionOnSet(g, T) = i * SumFunctionOnSet(f, T)
  BY <1>2, SumScale
<1> QED
  BY <1>3 DEF OthersDue, f, g, T

\* The numbers of a settlement: u had p pending and was due d more on its loan l
\* of index i, is credited with gain and paid claim; D is what the others are due.
SettlementOk(p, d, l, i, gain, claim, p2) ==
    /\ p \in Nat /\ d \in Nat /\ l \in Nat /\ i \in Nat /\ i > 0
    /\ gain \in Nat /\ claim \in Nat /\ p2 \in Nat
    /\ p2 + FromUint(claim) = p + gain
    /\ gain * i <= Scale * (l * d)

LEMMA CreditArithmetic ==
    ASSUME NEW p, NEW d, NEW l, NEW i, NEW gain, NEW claim, NEW p2,
           SettlementOk(p, d, l, i, gain, claim, p2),
           NEW M \in Nat, NEW D \in Nat, NEW paid \in Nat
    PROVE  (M * p2 + D + M * FromUint(paid + claim)) * i
             <= (M * i) * p + (Scale * d) * (l * M) + i * D + (M * i) * FromUint(paid)
<1> DEFINE c == FromUint(claim)
           b == FromUint(paid)
           S == Scale
<1>1. /\ p \in Nat /\ d \in Nat /\ l \in Nat /\ i \in Nat /\ gain \in Nat
      /\ p2 \in Nat /\ p2 + c = p + gain /\ gain * i <= S * (l * d)
      /\ S \in Nat /\ claim \in Nat
  BY ScaleAssumption DEF SettlementOk
<1>2. c \in Nat /\ b \in Nat /\ FromUint(paid + claim) = b + c
  BY <1>1 DEF FromUint
<1> HIDE DEF c, b, S
<1>3. (M * p2 + D + M * (b + c)) * i = (M * i) * (p2 + c) + i * D + (M * i) * b
  BY <1>1, <1>2
<1>4. (M * i) * (p2 + c) = (M * i) * p + (gain * i) * M
  <2>1. (M * i) * (p + gain) = (M * i) * p + (gain * i) * M
    BY <1>1
  <2> QED
    BY <1>1, <2>1
<1>5. (gain * i) * M <= (S * (l * d)) * M
  <2>1. gain * i \in Int /\ S * (l * d) \in Int
    BY <1>1
  <2> QED
    BY <1>1, <2>1, MulMono
<1>6. (S * (l * d)) * M = (S * d) * (l * M)
  BY <1>1
<1>7. /\ (M * i) * p \in Int /\ (gain * i) * M \in Int /\ (S * d) * (l * M) \in Int
      /\ i * D \in Int /\ (M * i) * b \in Int
  BY <1>1, <1>2
<1>8. (M * p2 + D + M * (b + c)) * i
        <= (M * i) * p + (S * d) * (l * M) + i * D + (M * i) * b
  BY <1>3, <1>4, <1>5, <1>6, <1>7
<1> QED
  BY <1>2, <1>8 DEF b, S

\* A borrower is credited with no more than its loan was due, and what it is
\* paid is taken off what is pending.
LEMMA SettlePromised ==
    ASSUME NEW L, NEW P, NEW r, Accounts(L, P, r), NEW R, SettledBy(r, R),
           NEW I \in [Users -> Nat], NEW u \in Users, NEW gain, NEW claim,
           NEW L2, NEW P2, NEW r2, Accounts(L2, P2, r2), NEW I2, r2[u] = R,
           SameBut(u, L, P, r, L2, P2, r2), \A v \in Users \ {u} : I2[v] = I[v],
           SettlementOk(P[u], R - r[u], L[u], I[u], gain, claim, P2[u]),
           NEW paid \in Nat, NEW E \in Nat, NEW x \in Nat,
           Promised(L, I, P, r, R, paid, E, x)
    PROVE  Promised(L2, I2, P2, r2, R, paid + claim, E, x)
<1> SUFFICES ASSUME NEW M, NEW k, Common(I2, M, k)
             PROVE  (Scale * Scale) * (Dues(L2, P2, r2, R, M, k) + M * FromUint(paid + claim))
                      <= (Scale * Scale + x) * (M * E)
  BY DEF Promised
<1> DEFINE i == I[u]
           SS == Scale * Scale
           B == OthersDue(L2, P2, r2, R, M, k, u)
           b == FromUint(paid)
           D2 == Dues(L2, P2, r2, R, M, k) + M * FromUint(paid + claim)
<1>0. /\ M \in Nat /\ M > 0 /\ i \in Nat /\ i > 0 /\ Quotients(M, k) /\ SS \in Nat
      /\ SettledBy(r2, R) /\ claim \in Nat /\ b \in Nat
  <2>1. \A v \in Users : r2[v] <= R
    BY DEF SameBut, SettledBy
  <2> QED
    BY <2>1, ScaleAssumption DEF Common, Quotients, SettlementOk, SettledBy, FromUint
<1>1. PICK k1 \in [Users -> Nat] :
        /\ k1[u] = M /\ Multiple(k1, i, k, Users \ {u})
        /\ Common(I, M * i, k1)
  BY <1>0, CommonBefore
<1> DEFINE D1 == Dues(L, P, r, R, M * i, k1) + (M * i) * b
<1>2. B \in Nat
      /\ Dues(L2, P2, r2, R, M, k)
           = M * P2[u] + (Scale * (R - r2[u])) * (L2[u] * k[u]) + B
  BY <1>0, DuesSplit
<1>3. Dues(L2, P2, r2, R, M, k) = M * P2[u] + B
  <2>1. (Scale * (R - r2[u])) * (L2[u] * k[u]) = 0
    <3> DEFINE y == L2[u] * k[u]
    <3>1. y \in Int /\ R - r2[u] = 0
      <4>1. L2[u] \in Nat /\ k[u] \in Nat /\ R \in Nat
        BY <1>0 DEF Accounts, Quotients, SettledBy
      <4> QED
        BY <4>1
    <3> HIDE DEF y
    <3>2. (Scale * (R - r2[u])) * y = 0
      BY <3>1, ScaleAssumption
    <3> QED
      BY <3>2 DEF y
  <2>2. P2[u] \in Nat
    BY DEF SettlementOk
  <2> HIDE DEF B
  <2> QED
    BY <1>0, <1>2, <2>1, <2>2
<1>4. Dues(L, P, r, R, M * i, k1)
        = (M * i) * P[u] + (Scale * (R - r[u])) * (L[u] * M) + i * B
  <2>1. Quotients(M * i, k1)
    <3> HIDE DEF i
    <3> QED
      BY <1>0, <1>1 DEF Quotients
  <2>2. Dues(L, P, r, R, M * i, k1)
          = (M * i) * P[u] + (Scale * (R - r[u])) * (L[u] * k1[u])
              + OthersDue(L, P, r, R, M * i, k1, u)
    BY <2>1, DuesSplit
  <2>3. OthersDue(L, P, r, R, M * i, k1, u) = i * B
    BY <1>0, <1>1, OthersDueScale
  <2> HIDE DEF i, B
  <2> QED
    BY <1>1, <2>2, <2>3, Zenon
<1>5. D2 * i <= D1
  <2>1. (M * P2[u] + B + M * FromUint(paid + claim)) * i
          <= (M * i) * P[u] + (Scale * (R - r[u])) * (L[u] * M) + i * B + (M * i) * b
    BY <1>0, <1>2, CreditArithmetic
  <2> QED
    BY <1>3, <1>4, <2>1, Zenon
<1>6. SS * D1 <= (SS + x) * ((M * i) * E)
  BY <1>1 DEF Promised
<1>7. D2 \in Nat /\ D1 \in Int
  <2>1. Quotients(M * i, k1)
    <3> HIDE DEF i
    <3> QED
      BY <1>0, <1>1 DEF Quotients
  <2>2. Dues(L2, P2, r2, R, M, k) \in Nat /\ Dues(L, P, r, R, M * i, k1) \in Nat
    BY <1>0, <2>1, DuesNat
  <2>3. FromUint(paid + claim) \in Nat
    BY <1>0, ScaleAssumption DEF FromUint
  <2> HIDE DEF i, b
  <2> QED
    BY <1>0, <2>2, <2>3
<1> HIDE DEF i, SS, D1, D2
<1>8. (SS * D2) * i <= ((SS + x) * (M * E)) * i
  <2>1. (D2 * i) * SS <= D1 * SS
    <3>1. D2 * i \in Int
      BY <1>0, <1>7
    <3> QED
      BY <1>0, <1>5, <1>7, <3>1, MulMono
  <2>2. (D2 * i) * SS = (SS * D2) * i /\ D1 * SS = SS * D1
        /\ (SS + x) * ((M * i) * E) = ((SS + x) * (M * E)) * i
    BY <1>0, <1>7
  <2>3. (SS * D2) * i \in Int /\ SS * D1 \in Int /\ ((SS + x) * (M * E)) * i \in Int
    BY <1>0, <1>7
  <2> QED
    BY <1>6, <2>1, <2>2, <2>3
<1>9. SS * D2 <= (SS + x) * (M * E)
  <2>1. SS * D2 \in Int /\ (SS + x) * (M * E) \in Int
    BY <1>0, <1>7
  <2> QED
    BY <1>0, <1>8, <2>1, MulCancel
<1> QED
  BY <1>9 DEF SS, D2
-----------------------------------------------------------------------------
(***************************************************************************)
(* The market's promise of ANC                                             *)
(***************************************************************************)
pendings   == [u \in Users |-> borrower_info[u].pending_rewards]
settled_at == [u \in Users |-> borrower_info[u].reward_index]

\* The emission of the blocks up to a state's last_reward_updated, and the
\* share that may be promised beyond it.
accrued_emission(st) == emitted - st.anc_emission_rate * (height - st.last_reward_updated)
share(st) == 2 * (st.last_interest_updated + 1) * st.global_interest_index

\* What a state of the contract promises the borrowers there are.
PromisedBy(st) ==
    /\ accrued_emission(st) \in Nat
    /\ share(st) <= Scale * Scale =>
         Promised(loans, indexes, pendings, settled_at, st.global_reward_index,
                  spent, accrued_emission(st), share(st))

RInv == DInv /\ PromisedBy(state)

LEMMA AccountsTyped ==
    ASSUME IInv
    PROVE  /\ Accounts(loans, pendings, settled_at) /\ indexes \in [Users -> Nat]
           /\ \A u \in Users : indexes[u] > 0 /\ indexes[u] <= state.global_interest_index
           /\ SettledBy(settled_at, state.global_reward_index)
           /\ spent \in Nat /\ emitted \in Nat /\ height \in Nat
<1>1. /\ loans \in [Users -> Nat] /\ indexes \in [Users -> Nat]
      /\ \A u \in Users : indexes[u] > 0
      /\ state \in MarketState /\ borrower_info \in [Users -> BorrowerInfo]
  BY LoansTyped
<1>2. ASSUME NEW u \in Users
      PROVE  /\ borrower_info[u].pending_rewards \in Nat
             /\ borrower_info[u].reward_index \in Nat
             /\ borrower_info[u].reward_index <= state.global_reward_index
             /\ borrower_info[u].interest_index <= state.global_interest_index
  <2>1. borrower_info[u] \in BorrowerInfo
    BY <1>1
  <2> QED
    BY <2>1 DEF BorrowerInfo, IInv, IndexesOrdered
<1>3. pendings \in [Users -> Nat] /\ settled_at \in [Users -> Nat]
  BY <1>2 DEF pendings, settled_at
<1>4. SettledBy(settled_at, state.global_reward_index)
  <2>1. state.global_reward_index \in Nat
    BY <1>1 DEF MarketState
  <2> QED
    BY <1>2, <2>1 DEF SettledBy, settled_at
<1>5. \A u \in Users : indexes[u] <= state.global_interest_index
  BY <1>2 DEF indexes
<1> QED
  BY <1>1, <1>3, <1>4, <1>5 DEF Accounts, IInv, TypeOK

LEMMA ShareNat == ASSUME NEW st \in MarketState PROVE share(st) \in Nat
<1>1. st.last_interest_updated \in Nat /\ st.global_interest_index \in Nat
  BY DEF MarketState
<1> QED
  BY <1>1 DEF share

LEMMA ShareMono ==
    ASSUME NEW st \in MarketState, NEW next \in MarketState,
           next.last_interest_updated >= st.last_interest_updated,
           next.global_interest_index >= st.global_interest_index
    PROVE  share(st) <= share(next)
<1> DEFINE a == st.last_interest_updated
           b == next.last_interest_updated
           c == st.global_interest_index
           d == next.global_interest_index
<1>1. a \in Nat /\ b \in Nat /\ c \in Nat /\ d \in Nat /\ a <= b /\ c <= d
  BY DEF MarketState
<1>2. share(st) = (2 * (a + 1)) * c /\ share(next) = (2 * (b + 1)) * d
  BY DEF share
<1> HIDE DEF a, b, c, d
<1>3. 2 * (a + 1) \in Nat /\ 2 * (b + 1) \in Nat /\ 2 * (a + 1) <= 2 * (b + 1)
  BY <1>1
<1> DEFINE y == 2 * (a + 1)
           z == 2 * (b + 1)
<1> HIDE DEF y, z
<1>4. y * c <= z * c /\ c * z <= d * z
  BY <1>1, <1>3, MulMono DEF y, z
<1>5. /\ y * c \in Int /\ z * c \in Int /\ z * d \in Int /\ c * z = z * c /\ d * z = z * d
  BY <1>1, <1>3 DEF y, z
<1>6. y * c <= z * d
  BY <1>4, <1>5
<1> QED
  BY <1>2, <1>6 DEF y, z

\* A state that has charged more interest but no more rewards.
LEMMA ShareKeepsPromise ==
    ASSUME IInv, NEW st \in MarketState, NEW next \in MarketState, PromisedBy(st),
           st.global_reward_index >= state.global_reward_index,
           next.last_interest_updated >= st.last_interest_updated,
           next.global_interest_index >= st.global_interest_index,
           next.global_reward_index = st.global_reward_index,
           next.last_reward_updated = st.last_reward_updated,
           next.anc_emission_rate = st.anc_emission_rate
    PROVE  PromisedBy(next)
<1> DEFINE E == accrued_emission(st)
           R == st.global_reward_index
           x == share(st)
           y == share(next)
<1>1. accrued_emission(next) = E /\ E \in Nat
  BY DEF accrued_emission, PromisedBy
<1>2. x \in Nat /\ y \in Nat /\ x <= y
  BY ShareNat, ShareMono
<1>3. SUFFICES ASSUME y <= Scale * Scale
               PROVE  Promised(loans, indexes, pendings, settled_at, R, spent, E, y)
  BY <1>1 DEF PromisedBy
<1>4. Promised(loans, indexes, pendings, settled_at, R, spent, E, x)
  <2>1. x <= Scale * Scale
    <3>1. Scale * Scale \in Int
      BY ScaleAssumption
    <3> HIDE DEF x, y
    <3> QED
      BY <1>2, <1>3, <3>1
  <2> QED
    BY <2>1 DEF PromisedBy
<1>5. ASSUME NEW M, NEW k, Common(indexes, M, k)
      PROVE  Dues(loans, pendings, settled_at, R, M, k) + M * FromUint(spent) \in Int
  <2>1. Quotients(M, k)
    BY <1>5 DEF Common, Quotients
  <2>2. SettledBy(settled_at, R)
    <3>1. R \in Nat /\ state \in MarketState
      BY DEF MarketState, IInv, TypeOK
    <3>2. /\ SettledBy(settled_at, state.global_reward_index)
          /\ state.global_reward_index \in Nat /\ settled_at \in [Users -> Nat]
      BY <3>1, AccountsTyped DEF MarketState, Accounts
    <3> HIDE DEF R
    <3>3. state.global_reward_index <= R
      BY DEF R
    <3> QED
      BY <3>1, <3>2, <3>3 DEF SettledBy
  <2>3. Dues(loans, pendings, settled_at, R, M, k) \in Nat
    BY <2>1, <2>2, AccountsTyped, DuesNat
  <2>4. M * FromUint(spent) \in Int
    BY <2>1, AccountsTyped, ScaleAssumption DEF FromUint, Quotients
  <2> HIDE DEF R
  <2> QED
    BY <2>3, <2>4
<1>6. indexes \in [Users -> Nat]
  BY AccountsTyped
<1> HIDE DEF E, R, x, y
<1> QED
  BY <1>1, <1>2, <1>4, <1>5, <1>6, PromisedMore

\* The emission of the blocks since the last reward is shared out.
LEMMA RewardKeepsPromise ==
    ASSUME IInv, NEW st \in MarketState, PromisedBy(st), CoveredBy(st),
           st.global_interest_index >= state.global_interest_index,
           st.global_reward_index >= state.global_reward_index,
           st.last_reward_updated <= height
    PROVE  /\ PromisedBy(compute_reward(st, height))
           /\ compute_reward(st, height).last_reward_updated = height
<1> DEFINE r == compute_reward(st, height)
           passed == height - st.last_reward_updated
           a == st.anc_emission_rate * passed
           G == st.global_interest_index
           total == st.total_liabilities
           n == st.last_interest_updated
           R == st.global_reward_index
           E == accrued_emission(st)
           x == share(st)
           more == Gain(total, G, a)
<1>1. /\ height \in Nat /\ emitted \in Nat /\ spent \in Nat
      /\ Accounts(loans, pendings, settled_at) /\ indexes \in [Users -> Nat]
      /\ \A u \in Users : indexes[u] > 0 /\ indexes[u] <= state.global_interest_index
      /\ SettledBy(settled_at, state.global_reward_index)
  BY AccountsTyped
<1>2. /\ G \in Nat /\ total \in Nat /\ n \in Nat /\ R \in Nat
      /\ st.last_reward_updated \in Nat /\ st.anc_emission_rate \in Nat
      /\ state.global_interest_index \in Nat /\ state.global_reward_index \in Nat
      /\ Scale <= state.global_interest_index /\ Scale \in Nat /\ Scale > 0
  BY LoansTyped, ScaleAssumption DEF MarketState
<1>3. G > 0 /\ G >= One
  BY <1>2 DEF One
<1>4. passed \in Nat /\ a \in Nat /\ E \in Nat /\ x \in Nat
  <2>1. passed \in Nat /\ E \in Nat /\ x \in Nat
    BY <1>1, <1>2, ShareNat DEF PromisedBy
  <2> HIDE DEF passed
  <2> QED
    BY <1>2, <2>1
<1>5. CASE st.last_reward_updated = height
  <2>1. r = st
    BY <1>1, <1>5 DEF compute_reward
  <2> HIDE DEF r
  <2> QED
    BY <1>5, <2>1 DEF r
<1>6. CASE st.last_reward_updated < height
  <2>1. DecMul(FromUint(passed), st.anc_emission_rate) = a
    <3> HIDE DEF passed
    <3>1. FromUint(passed) * st.anc_emission_rate = st.anc_emission_rate * FromUint(passed)
      BY <1>2, <1>4 DEF FromUint
    <3>2. DecMul(st.anc_emission_rate, FromUint(passed)) = st.anc_emission_rate * passed
      <4> DEFINE q == st.anc_emission_rate
      <4>1. q \in Int /\ passed \in Int
        BY <1>2, <1>4
      <4> HIDE DEF q
      <4>2. DecMul(q, FromUint(passed)) = q * passed
        BY <4>1, DecMulWhole, Zenon
      <4> QED
        BY <4>2 DEF q
    <3> QED
      BY <3>1, <3>2 DEF DecMul
  <2>2. /\ r.global_reward_index = R + more
        /\ r.last_reward_updated = height
    <3>1. ~(st.last_reward_updated >= height)
      BY <1>1, <1>2, <1>6
    <3>2. r = [st EXCEPT !.global_reward_index = @ + Gain(total, G, DecMul(FromUint(passed), st.anc_emission_rate)),
                         !.last_reward_updated = height]
      BY <3>1 DEF compute_reward, Gain
    <3>3. r = [st EXCEPT !.global_reward_index = R + more, !.last_reward_updated = height]
      BY <2>1, <3>2
    <3> HIDE DEF r, more, R
    <3> QED
      BY <3>3 DEF MarketState
  <2>3. /\ r.global_interest_index = G /\ r.last_interest_updated = n
        /\ r.anc_emission_rate = st.anc_emission_rate
    BY <1>1, <1>3, RewardKeeps
  <2>4. share(r) = x
    BY <2>3 DEF share
  <2>5. accrued_emission(r) = E + a
    <3> HIDE DEF r
    <3>1. accrued_emission(r) = emitted - st.anc_emission_rate * (height - height)
      BY <2>2, <2>3 DEF accrued_emission
    <3>2. E = emitted - a
      BY DEF accrued_emission
    <3> HIDE DEF E, a
    <3>3. st.anc_emission_rate * (height - height) = 0
      BY <1>1, <1>2
    <3> QED
      BY <1>1, <1>4, <3>1, <3>2, <3>3
  <2>6. ASSUME x <= Scale * Scale
        PROVE  Promised(loans, indexes, pendings, settled_at, R + more, spent, E + a, x)
    <3>1. /\ loans \in [Users -> Nat] /\ pendings \in [Users -> Nat]
          /\ settled_at \in [Users -> Nat]
      BY <1>1 DEF Accounts
    <3>2. \A u \in Users : settled_at[u] <= R /\ indexes[u] <= G
      <4> HIDE DEF R, G
      <4>1. state.global_reward_index <= R /\ state.global_interest_index <= G
        BY DEF R, G
      <4> QED
        BY <1>1, <1>2, <3>1, <4>1 DEF SettledBy
    <3>3. x = 2 * (n + 1) * G
      BY DEF share
    <3>4. /\ Covers(loans, indexes, G, total, n)
          /\ Promised(loans, indexes, pendings, settled_at, R, spent, E, x)
      BY <2>6 DEF CoveredBy, PromisedBy
    <3> HIDE DEF G, total, n, R, E, a, x
    <3> QED
      BY <1>1, <1>2, <1>3, <1>4, <2>6, <3>1, <3>2, <3>3, <3>4, SharePromised DEF more
  <2>7. E + a \in Nat
    <3> HIDE DEF E, a
    <3> QED
      BY <1>4
  <2> HIDE DEF r, x, E, a, R, more
  <2>8. PromisedBy(r)
    BY <2>2, <2>4, <2>5, <2>6, <2>7 DEF PromisedBy
  <2> QED
    BY <2>2, <2>8 DEF r
<1> QED
  BY <1>1, <1>2, <1>5, <1>6
\* What the settlement of a borrower adds to what it has pending.
LEMMA RewardBrought ==
    ASSUME NEW st \in MarketState, NEW info \in BorrowerInfo, info.interest_index > 0,
           st.global_interest_index > 0, info.reward_index <= st.global_reward_index
    PROVE  \E gain \in Nat :
             /\ settle_borrower(st, info).pending_rewards = info.pending_rewards + gain
             /\ gain * info.interest_index
                  <= Scale * (info.loan_amount * (st.global_reward_index - info.reward_index))
<1> DEFINE lent == compute_borrower_interest(st, info)
           F == lent.loan_amount
           G == st.global_interest_index
           i == info.interest_index
           L == info.loan_amount
           d == st.global_reward_index - info.reward_index
           X == DecDiv(FromUint(F), G)
           gain == DecMul(X, d)
<1>1. /\ G \in Nat /\ G > 0 /\ i \in Nat /\ i > 0 /\ L \in Nat /\ d \in Nat
      /\ info.pending_rewards \in Nat /\ Scale \in Nat /\ Scale > 0
  BY ScaleAssumption DEF MarketState, BorrowerInfo
<1>2. F \in Nat /\ F * i <= L * G
  BY LoanBrought
<1>3. /\ lent.reward_index = info.reward_index
      /\ lent.pending_rewards = info.pending_rewards
      /\ DOMAIN lent = {"interest_index", "reward_index", "loan_amount", "pending_rewards"}
  <2> DEFINE owes == UintDivDec(UintMulDec(L, G), i)
  <2>1. lent = [[info EXCEPT !.loan_amount = owes] EXCEPT !.interest_index = G]
    BY DEF compute_borrower_interest
  <2> HIDE DEF lent, owes, G
  <2> QED
    BY <2>1 DEF BorrowerInfo
<1>4. settle_borrower(st, info).pending_rewards = info.pending_rewards + gain
  <2>1. settle_borrower(st, info)
          = [[lent EXCEPT !.pending_rewards =
                @ + DecMul(DecDiv(FromUint(F), G), st.global_reward_index - lent.reward_index)]
               EXCEPT !.reward_index = st.global_reward_index]
    BY DEF settle_borrower, compute_borrower_reward
  <2> DEFINE more == DecMul(DecDiv(FromUint(F), G), st.global_reward_index - lent.reward_index)
  <2>2. more = gain
    <3> HIDE DEF lent, F, G
    <3> QED
      BY <1>3
  <2>3. settle_borrower(st, info)
          = [[lent EXCEPT !.pending_rewards = @ + more]
               EXCEPT !.reward_index = st.global_reward_index]
    BY <2>1
  <2> HIDE DEF more, lent, gain
  <2>4. settle_borrower(st, info).pending_rewards = lent.pending_rewards + more
    BY <1>3, <2>3
  <2> QED
    BY <1>3, <2>2, <2>4
<1> HIDE DEF lent, F, G, i, L, d
<1>5. X \in Nat /\ X * G <= (F * Scale) * Scale
  <2>1. (F * Scale) * Scale \in Nat
    BY <1>1, <1>2
  <2>2. X \in Nat /\ G * X <= (F * Scale) * Scale
    BY <1>1, <2>1, DivNat, DivInt DEF DecDiv, FromUint
  <2> HIDE DEF X
  <2> QED
    BY <1>1, <2>2
<1> HIDE DEF X
<1>6. gain \in Nat /\ Scale * gain <= X * d
  <2>1. X * d \in Nat
    BY <1>1, <1>5
  <2> QED
    BY <1>1, <2>1, DivNat, DivInt DEF DecMul
<1> HIDE DEF gain
<1>7. gain * i <= Scale * (L * d)
  <2> DEFINE SG == Scale * G
  <2>1. (Scale * gain) * (G * i) <= (X * d) * (G * i)
    <3>1. Scale * gain \in Int /\ X * d \in Int /\ G * i \in Nat
      BY <1>1, <1>5, <1>6
    <3> QED
      BY <1>6, <3>1, MulMono
  <2>2. (X * G) * (d * i) <= ((F * Scale) * Scale) * (d * i)
    <3>1. X * G \in Int /\ (F * Scale) * Scale \in Int /\ d * i \in Nat
      BY <1>1, <1>2, <1>5
    <3> QED
      BY <1>5, <3>1, MulMono
  <2>3. (F * i) * ((Scale * Scale) * d) <= (L * G) * ((Scale * Scale) * d)
    <3>1. F * i \in Int /\ L * G \in Int /\ (Scale * Scale) * d \in Nat
      BY <1>1, <1>2
    <3> QED
      BY <1>2, <3>1, MulMono
  <2>4. /\ (X * d) * (G * i) = (X * G) * (d * i)
        /\ ((F * Scale) * Scale) * (d * i) = (F * i) * ((Scale * Scale) * d)
        /\ (Scale * gain) * (G * i) = (gain * i) * (Scale * G)
        /\ (L * G) * ((Scale * Scale) * d) = (Scale * (L * d)) * (Scale * G)
    BY <1>1, <1>2, <1>5, <1>6
  <2>5. /\ (Scale * gain) * (G * i) \in Int /\ (X * d) * (G * i) \in Int
        /\ (F * i) * ((Scale * Scale) * d) \in Int
        /\ (L * G) * ((Scale * Scale) * d) \in Int
    BY <1>1, <1>2, <1>5, <1>6
  <2>6. (gain * i) * SG <= (Scale * (L * d)) * SG
    BY <2>1, <2>2, <2>3, <2>4, <2>5
  <2>7. gain * i \in Int /\ Scale * (L * d) \in Int /\ SG \in Int /\ SG > 0
    BY <1>1, <1>6
  <2> HIDE DEF SG
  <2> QED
    BY <2>6, <2>7, MulCancel
<1> QED
  BY <1>4, <1>6, <1>7 DEF i, L, d

-----------------------------------------------------------------------------
(***************************************************************************)
(* The steps, again, for the promise                                       *)
(***************************************************************************)
\* Interest, and interest and rewards, keep the promise.
LEMMA AccruedPromise ==
    ASSUME RInv, NEW target \in Nat, CanComputeInterest(bank, target)
    PROVE  /\ PromisedBy(compute_interest(bank, target))
           /\ PromisedBy(accrued(bank, target))
           /\ accrued(bank, target).last_reward_updated = height
<1> DEFINE rate == borrow_rate(state, bank)
           r == compute_interest(bank, target)
<1>1. DInv /\ IInv /\ PromisedBy(state) /\ state \in MarketState /\ TypeOK
  BY DEF RInv, DInv, IInv, TypeOK
<1>2. /\ bank \in Nat /\ aterra_supply \in Nat /\ aterra_supply > 0 /\ height \in Nat
      /\ Backed(state, aterra_supply, bank) /\ pool_value(state, bank) >= 0
  BY <1>1, BeforeGood
<1>3. rate \in Nat
  BY <1>1, <1>2, BorrowRateNat
<1>4. r = compute_interest_raw(state, height, bank, aterra_supply, rate, target)
  BY DEF compute_interest
<1>20. interest_computable(state, height, bank, aterra_supply, rate, target)
  BY DEF CanComputeInterest
<1> HIDE DEF rate, r
<1>5. AccruedFrom(state, height, bank, aterra_supply, r)
  BY <1>1, <1>2, <1>3, <1>4, <1>20, AccrualBacked
<1>6. CoveredBy(r) /\ StateGood(r, aterra_supply, bank)
  BY <1>1, InterestCovers, AccruedGood DEF r
<1>7. /\ r \in MarketState
      /\ r.last_interest_updated >= state.last_interest_updated
      /\ r.global_interest_index >= state.global_interest_index
      /\ r.global_reward_index = state.global_reward_index
      /\ r.last_reward_updated = state.last_reward_updated
      /\ r.anc_emission_rate = state.anc_emission_rate
      /\ state.global_reward_index >= state.global_reward_index
  <2>1. state.last_interest_updated \in Nat /\ state.global_reward_index \in Nat
    BY <1>1 DEF MarketState
  <2> QED
    BY <1>2, <1>5, <2>1 DEF AccruedFrom
<1>8. PromisedBy(r)
  BY <1>1, <1>7, ShareKeepsPromise
<1>9. r.last_reward_updated <= height /\ r.global_reward_index >= state.global_reward_index
  BY <1>6 DEF StateGood
<1>10. accrued(bank, target) = compute_reward(r, height)
  BY DEF accrued, r
<1> QED
  BY <1>1, <1>6, <1>7, <1>8, <1>9, <1>10, RewardKeepsPromise DEF r

\* A step that leaves the borrowers and what they were promised as in st.  The
\* emission rate may change once all blocks have been accrued.
LEMMA KeepPromise ==
    ASSUME IInv, NEW st \in MarketState, PromisedBy(st),
           UNCHANGED <<borrower_info, spent, emitted, height>>,
           state'.last_interest_updated = st.last_interest_updated,
           state'.global_interest_index = st.global_interest_index,
           state'.global_reward_index = st.global_reward_index,
           state'.last_reward_updated = st.last_reward_updated,
           \/ state'.anc_emission_rate = st.anc_emission_rate
           \/ st.last_reward_updated = height /\ state'.anc_emission_rate \in Nat
    PROVE  PromisedBy(state)'
<1>1. /\ loans' = loans /\ indexes' = indexes
      /\ pendings' = pendings /\ settled_at' = settled_at
  BY DEF loans, indexes, pendings, settled_at
<1>2. share(state)' = share(st)
  BY DEF share
<1>3. accrued_emission(state)' = accrued_emission(st)
  <2>1. CASE state'.anc_emission_rate = st.anc_emission_rate
    BY <2>1 DEF accrued_emission
  <2>2. CASE st.last_reward_updated = height /\ state'.anc_emission_rate \in Nat
    <3>1. accrued_emission(state)' = emitted - state'.anc_emission_rate * (height - height)
      BY <2>2 DEF accrued_emission
    <3>2. accrued_emission(st) = emitted - st.anc_emission_rate * (height - height)
      BY <2>2 DEF accrued_emission
    <3>3. st.anc_emission_rate \in Nat /\ height \in Nat
      BY AccountsTyped DEF MarketState
    <3>4. state'.anc_emission_rate * (height - height) = 0
          /\ st.anc_emission_rate * (height - height) = 0
      BY <2>2, <3>3
    <3> QED
      BY <3>1, <3>2, <3>4
  <2> QED
    BY <2>1, <2>2
<1> QED
  BY <1>1, <1>2, <1>3 DEF PromisedBy

\* A step that settles u in st and pays it claim.
LEMMA AccountPromise ==
    ASSUME IInv, IInv', NEW st, StateGood(st, aterra_supply, bank), PromisedBy(st),
           NEW u \in Users, NEW info, NEW claim \in Nat,
           borrower_info' = [borrower_info EXCEPT ![u] = info],
           info.reward_index = st.global_reward_index,
           info.pending_rewards + FromUint(claim)
             = settle_borrower(st, borrower_info[u]).pending_rewards,
           UNCHANGED <<emitted, height>>, spent' = spent + claim,
           state'.last_interest_updated = st.last_interest_updated,
           state'.global_interest_index = st.global_interest_index,
           state'.global_reward_index = st.global_reward_index,
           state'.last_reward_updated = st.last_reward_updated,
           state'.anc_emission_rate = st.anc_emission_rate
    PROVE  PromisedBy(state)'
<1> DEFINE R == st.global_reward_index
           E == accrued_emission(st)
           x == share(st)
           before == borrower_info[u]
<1>1. /\ Accounts(loans, pendings, settled_at) /\ indexes \in [Users -> Nat]
      /\ indexes[u] > 0 /\ SettledBy(settled_at, state.global_reward_index)
      /\ spent \in Nat /\ state \in MarketState /\ state.global_interest_index >= Scale
      /\ borrower_info \in [Users -> BorrowerInfo]
  BY AccountsTyped, LoansTyped
<1>2. PICK L2, P2, r2, I2 :
        L2 = loans' /\ P2 = pendings' /\ r2 = settled_at' /\ I2 = indexes'
  OBVIOUS
<1>3. Accounts(L2, P2, r2)
  <2>1. Accounts(loans', pendings', settled_at')
    <3>1. \A v \in Users : borrower_info'[v] \in BorrowerInfo
      BY DEF IInv, TypeOK
    <3>2. /\ loans' = [v \in Users |-> borrower_info'[v].loan_amount]
          /\ pendings' = [v \in Users |-> borrower_info'[v].pending_rewards]
          /\ settled_at' = [v \in Users |-> borrower_info'[v].reward_index]
      BY DEF loans, pendings, settled_at
    <3>3. /\ loans' \in [Users -> Nat] /\ pendings' \in [Users -> Nat]
          /\ settled_at' \in [Users -> Nat]
      BY <3>1, <3>2 DEF BorrowerInfo
    <3> QED
      BY <3>3 DEF Accounts
  <2> QED
    BY <1>2, <2>1
<1>4. st \in MarketState /\ R \in Nat /\ R >= state.global_reward_index
      /\ st.global_interest_index > 0
  <2>1. st \in MarketState /\ R >= state.global_reward_index
        /\ st.global_interest_index >= state.global_interest_index
    BY DEF StateGood
  <2>2. st.global_interest_index \in Nat /\ state.global_interest_index \in Nat
    BY <1>1, <2>1 DEF MarketState
  <2>3. st.global_interest_index > 0
    BY <1>1, <2>1, <2>2, ScaleAssumption
  <2>4. R \in Nat
    BY <2>1 DEF MarketState
  <2> QED
    BY <2>1, <2>3, <2>4
<1>5. SettledBy(settled_at, R)
  <2>1. state.global_reward_index \in Nat /\ settled_at \in [Users -> Nat]
    BY <1>1 DEF MarketState, Accounts
  <2> HIDE DEF R
  <2> QED
    BY <1>1, <1>4, <2>1 DEF SettledBy
<1>6. /\ before \in BorrowerInfo /\ loans[u] = before.loan_amount
      /\ indexes[u] = before.interest_index /\ pendings[u] = before.pending_rewards
      /\ settled_at[u] = before.reward_index
  BY <1>1 DEF loans, indexes, pendings, settled_at
<1>7. P2[u] = info.pending_rewards /\ r2[u] = R
  <2>1. borrower_info'[u] = info
    BY <1>1
  <2>2. pendings'[u] = borrower_info'[u].pending_rewards
        /\ settled_at'[u] = borrower_info'[u].reward_index
    BY DEF pendings, settled_at
  <2> QED
    BY <1>2, <2>1, <2>2
<1>8. SameBut(u, loans, pendings, settled_at, L2, P2, r2)
      /\ \A v \in Users \ {u} : I2[v] = indexes[v]
  <2>1. \A v \in Users \ {u} : borrower_info'[v] = borrower_info[v]
    BY <1>1
  <2> QED
    BY <1>2, <2>1 DEF loans, indexes, pendings, settled_at, SameBut
<1>9. PICK gain \in Nat :
        /\ settle_borrower(st, before).pending_rewards = before.pending_rewards + gain
        /\ gain * before.interest_index
             <= Scale * (before.loan_amount * (R - before.reward_index))
  <2>1. before.interest_index > 0 /\ before.reward_index <= st.global_reward_index
    BY <1>1, <1>5, <1>6 DEF SettledBy
  <2> HIDE DEF before, R
  <2> QED
    BY <1>4, <1>6, <2>1, RewardBrought DEF R
<1>10. SettlementOk(pendings[u], R - settled_at[u], loans[u], indexes[u], gain, claim, P2[u])
  <2>1. /\ pendings[u] \in Nat /\ settled_at[u] \in Nat /\ settled_at[u] <= R
        /\ loans[u] \in Nat /\ indexes[u] \in Nat /\ P2[u] \in Nat
    BY <1>1, <1>3, <1>5 DEF Accounts, SettledBy
  <2>2. R - settled_at[u] \in Nat
    <3> HIDE DEF R
    <3> QED
      BY <1>4, <2>1
  <2>3. P2[u] + FromUint(claim) = pendings[u] + gain
    BY <1>6, <1>7, <1>9
  <2>4. gain * indexes[u] <= Scale * (loans[u] * (R - settled_at[u]))
    BY <1>6, <1>9
  <2> QED
    BY <1>1, <2>1, <2>2, <2>3, <2>4 DEF SettlementOk
<1>11. share(state)' = x /\ accrued_emission(state)' = E /\ E \in Nat /\ x \in Nat
  BY <1>4, ShareNat DEF share, accrued_emission, PromisedBy
<1>12. ASSUME x <= Scale * Scale
       PROVE  Promised(L2, I2, P2, r2, R, spent + claim, E, x)
  <2>1. Promised(loans, indexes, pendings, settled_at, R, spent, E, x)
    BY <1>12 DEF PromisedBy
  <2> HIDE DEF R, E, x, before
  <2> QED
    BY <1>1, <1>3, <1>5, <1>7, <1>8, <1>10, <1>11, <2>1, SettlePromised
<1> HIDE DEF E, x
<1>13. PromisedBy(state)'
  BY <1>2, <1>11, <1>12 DEF PromisedBy
<1> QED
  BY <1>13
LEMMA LendingPromise ==
    ASSUME RInv, IInv', NEW u \in Users, NEW b \in Amounts, NEW l,
           NEW t \in TargetRates, borrow_stable(u, b, l, t)
    PROVE  PromisedBy(state)'
<1> DEFINE st == accrued(bank, t)
           liability == settle_borrower(st, borrower_info[u])
           info == [liability EXCEPT !.loan_amount = @ + b]
<1>1. t \in Nat /\ IInv
  BY InputTypes DEF RInv, DInv
<1>20. CanComputeInterest(bank, t)
  BY DEF borrow_stable
<1>2. StateGood(st, aterra_supply, bank) /\ PromisedBy(st) /\ st \in MarketState
  BY <1>1, <1>20, AccruedGood, AccruedPromise DEF StateGood
<1>3. /\ state' = [st EXCEPT !.total_liabilities = @ + FromUint(b)]
      /\ borrower_info' = [borrower_info EXCEPT ![u] = info]
      /\ UNCHANGED <<emitted, height, spent>>
  BY DEF borrow_stable
<1> HIDE DEF st
<1>4. liability \in BorrowerInfo /\ liability.reward_index = st.global_reward_index
  BY <1>1, <1>2, SettleGood
<1>5. /\ info.reward_index = st.global_reward_index
      /\ info.pending_rewards + FromUint(0)
           = settle_borrower(st, borrower_info[u]).pending_rewards
  <2> HIDE DEF liability
  <2>1. info.reward_index = liability.reward_index
        /\ info.pending_rewards = liability.pending_rewards
        /\ liability.pending_rewards \in Nat
    BY <1>4 DEF BorrowerInfo
  <2>2. liability.pending_rewards + FromUint(0) = liability.pending_rewards
    BY <2>1, ScaleAssumption DEF FromUint
  <2> HIDE DEF info
  <2> QED
    BY <1>4, <2>1, <2>2 DEF liability
<1> HIDE DEF info
<1>6. /\ state'.last_interest_updated = st.last_interest_updated
      /\ state'.global_interest_index = st.global_interest_index
      /\ state'.global_reward_index = st.global_reward_index
      /\ state'.last_reward_updated = st.last_reward_updated
      /\ state'.anc_emission_rate = st.anc_emission_rate
  BY <1>2, <1>3 DEF MarketState
<1>7. spent' = spent + 0 /\ 0 \in Nat
  BY <1>1, <1>3, AccountsTyped
<1> QED
  BY <1>1, <1>2, <1>3, <1>5, <1>6, <1>7, AccountPromise

LEMMA RepaymentPromise ==
    ASSUME RInv, IInv', NEW u \in Users, NEW a \in Nat, NEW t \in Nat,
           settle_repayment(u, a, t)
    PROVE  PromisedBy(state)'
<1> DEFINE st == accrued(bank, t)
           liability == settle_borrower(st, borrower_info[u])
           repay == Lesser(liability.loan_amount, a)
           info == [liability EXCEPT !.loan_amount = @ - repay]
<1>1. IInv
  BY DEF RInv, DInv
<1>20. CanComputeInterest(bank, t)
  BY DEF settle_repayment
<1>2. StateGood(st, aterra_supply, bank) /\ PromisedBy(st) /\ st \in MarketState
  BY <1>1, <1>20, AccruedGood, AccruedPromise DEF StateGood
<1>3. /\ state' = [st EXCEPT !.total_liabilities = @ - FromUint(repay)]
      /\ borrower_info' = [borrower_info EXCEPT ![u] = info]
      /\ UNCHANGED <<emitted, height, spent>>
  BY DEF settle_repayment
<1> HIDE DEF st
<1>4. liability \in BorrowerInfo /\ liability.reward_index = st.global_reward_index
  BY <1>1, <1>2, SettleGood
<1>5. /\ info.reward_index = st.global_reward_index
      /\ info.pending_rewards + FromUint(0)
           = settle_borrower(st, borrower_info[u]).pending_rewards
  <2> HIDE DEF liability, repay
  <2>1. info.reward_index = liability.reward_index
        /\ info.pending_rewards = liability.pending_rewards
        /\ liability.pending_rewards \in Nat
    BY <1>4 DEF BorrowerInfo
  <2>2. liability.pending_rewards + FromUint(0) = liability.pending_rewards
    BY <2>1, ScaleAssumption DEF FromUint
  <2> HIDE DEF info
  <2> QED
    BY <1>4, <2>1, <2>2 DEF liability
<1> HIDE DEF info, repay
<1>6. /\ state'.last_interest_updated = st.last_interest_updated
      /\ state'.global_interest_index = st.global_interest_index
      /\ state'.global_reward_index = st.global_reward_index
      /\ state'.last_reward_updated = st.last_reward_updated
      /\ state'.anc_emission_rate = st.anc_emission_rate
  BY <1>2, <1>3 DEF MarketState
<1>7. spent' = spent + 0 /\ 0 \in Nat
  BY <1>1, <1>3, AccountsTyped
<1> QED
  BY <1>1, <1>2, <1>3, <1>5, <1>6, <1>7, AccountPromise

\* What is paid is taken off what is pending.
LEMMA ClaimingPromise ==
    ASSUME RInv, IInv', NEW u \in Users, NEW t \in TargetRates, claim_rewards(u, t)
    PROVE  PromisedBy(state)'
<1> DEFINE st == accrued(bank, t)
           liability == settle_borrower(st, borrower_info[u])
           claim == Trunc(liability.pending_rewards)
           info == [liability EXCEPT !.pending_rewards = @ - FromUint(claim)]
<1>1. t \in Nat /\ IInv
  BY InputTypes DEF RInv, DInv
<1>20. CanComputeInterest(bank, t)
  BY DEF claim_rewards
<1>2. StateGood(st, aterra_supply, bank) /\ PromisedBy(st) /\ st \in MarketState
  BY <1>1, <1>20, AccruedGood, AccruedPromise DEF StateGood
<1>3. /\ state' = st /\ borrower_info' = [borrower_info EXCEPT ![u] = info]
      /\ spent' = spent + claim /\ UNCHANGED <<emitted, height>>
  BY DEF claim_rewards
<1> HIDE DEF st
<1>4. liability \in BorrowerInfo /\ liability.reward_index = st.global_reward_index
  BY <1>1, <1>2, SettleGood
<1>5. liability.pending_rewards \in Nat /\ claim \in Nat
  <2>1. liability.pending_rewards \in Nat
    BY <1>4 DEF BorrowerInfo
  <2> HIDE DEF liability
  <2> QED
    BY <2>1, ScaleAssumption, DivNat DEF Trunc
<1>6. /\ info.reward_index = st.global_reward_index
      /\ info.pending_rewards + FromUint(claim)
           = settle_borrower(st, borrower_info[u]).pending_rewards
  <2> HIDE DEF liability, claim
  <2>1. info.reward_index = liability.reward_index
        /\ info.pending_rewards = liability.pending_rewards - FromUint(claim)
    BY <1>4 DEF BorrowerInfo
  <2>2. FromUint(claim) \in Int
    BY <1>5, ScaleAssumption DEF FromUint
  <2> HIDE DEF info
  <2>3. (liability.pending_rewards - FromUint(claim)) + FromUint(claim)
          = liability.pending_rewards
    BY <1>5, <2>2
  <2> QED
    BY <1>4, <2>1, <2>3 DEF liability
<1> HIDE DEF info, claim
<1> QED
  BY <1>1, <1>2, <1>3, <1>5, <1>6, AccountPromise

LEMMA LoanCallPromise ==
    ASSUME RInv, IInv', Borrow \/ Repay \/ RepayFromLiquidation \/ ClaimRewards
    PROVE  PromisedBy(state)'
<1>1. CASE Borrow
  BY <1>1, LendingPromise DEF Borrow
<1>2. CASE Repay \/ RepayFromLiquidation
  <2>1. PICK u \in Users, a \in Amounts, t \in TargetRates :
          \/ repay_stable(u, a, t)
          \/ repay_stable_from_liquidation(u, bank + a, bank, t)
    BY <1>2 DEF Repay, RepayFromLiquidation
  <2>2. a \in Nat /\ t \in Nat /\ bank \in Nat
    BY InputTypes DEF RInv, DInv, IInv, TypeOK
  <2>3. (bank + a) - bank = a
    BY <2>2
  <2>4. settle_repayment(u, a, t)
    BY <2>1, <2>3 DEF repay_stable, repay_stable_from_liquidation
  <2> QED
    BY <2>2, <2>4, RepaymentPromise
<1>3. CASE ClaimRewards
  BY <1>3, ClaimingPromise DEF ClaimRewards
<1> QED
  BY <1>1, <1>2, <1>3

LEMMA DepositorPromise == ASSUME RInv, Deposit \/ Redeem PROVE PromisedBy(state)'
<1>1. PICK a \in Amounts, t \in TargetRates : deposit_stable(a, t) \/ redeem_stable(a, t)
  BY DEF Deposit, Redeem
<1> DEFINE st == accrued(bank, t)
           rate == compute_exchange_rate_raw(st, aterra_supply, bank)
           mint == UintDivDec(a, rate)
<1>2. t \in Nat /\ IInv
  BY InputTypes DEF RInv, DInv
<1>20. CanComputeInterest(bank, t)
  BY <1>1 DEF deposit_stable, redeem_stable
<1>3. PromisedBy(st) /\ st \in MarketState
  BY <1>2, <1>20, AccruedGood, AccruedPromise DEF StateGood
<1>4. /\ UNCHANGED <<borrower_info, spent, emitted, height>>
      /\ \/ state' = [st EXCEPT !.prev_aterra_supply = @ + mint]
         \/ state' = [st EXCEPT !.prev_aterra_supply = @ - a]
  BY <1>1 DEF deposit_stable, redeem_stable
<1> HIDE DEF st, mint
<1>5. /\ state'.last_interest_updated = st.last_interest_updated
      /\ state'.global_interest_index = st.global_interest_index
      /\ state'.global_reward_index = st.global_reward_index
      /\ state'.last_reward_updated = st.last_reward_updated
      /\ state'.anc_emission_rate = st.anc_emission_rate
  BY <1>3, <1>4 DEF MarketState
<1> QED
  BY <1>2, <1>3, <1>4, <1>5, KeepPromise

\* The rewards of the blocks that have passed are shared out before the rate
\* of emission changes.
LEMMA EpochPromise == ASSUME RInv, IInv', EpochOperations PROVE PromisedBy(state)'
<1>1. PICK x \in EpochRates, t \in TargetRates, h \in ThresholdRates,
           d \in Amounts \cup {0} : execute_epoch_operations(bank, x, t, h, d)
  BY DEF EpochOperations
<1> DEFINE r == compute_interest(bank, t)
           q == query_epoch_state(height, bank, d, t)
           priced == [r EXCEPT !.prev_exchange_rate = q]
           st == epoch_interest(bank, d, t)
           kept == st.total_reserves - FromUint(epoch_reserves(bank, d, t))
           emission == query_anc_emission_rate(
                         emission_config[config.distribution_model],
                         x, t, h, st.anc_emission_rate)
<1>2. t \in Nat /\ d \in Nat /\ IInv /\ DInv /\ state \in MarketState
  BY MarketAssumption DEF RInv, DInv, IInv, TypeOK
<1>20. CanComputeInterest(bank, t)
  BY <1>1 DEF execute_epoch_operations, can_execute_epoch_operations,
              can_query_epoch_state, CanComputeInterest
<1>3. PromisedBy(r) /\ CoveredBy(r) /\ StateGood(r, aterra_supply, bank) /\ r \in MarketState
  BY <1>2, <1>20, AccruedGood, AccruedPromise, InterestCovers DEF StateGood
<1>4. q \in Nat /\ st \in MarketState
  <2>1. StateGood(st, aterra_supply, bank + d)
    BY <1>2, <1>20, EpochInterestGood
  <2>2. st = compute_reward(priced, height)
    BY DEF epoch_interest
  <2>3. st \in MarketState
    BY <2>1 DEF StateGood
  <2>4. st.prev_exchange_rate = q
    <3> HIDE DEF r, q, st
    <3>1. DOMAIN r = {"total_liabilities", "total_reserves", "last_interest_updated",
                      "last_reward_updated", "global_interest_index",
                      "global_reward_index", "anc_emission_rate",
                      "prev_aterra_supply", "prev_exchange_rate"}
      BY <1>3 DEF MarketState
    <3>2. DOMAIN priced = DOMAIN r /\ priced.prev_exchange_rate = q
      BY <3>1
    <3> HIDE DEF priced
    <3> QED
      BY <2>2, <3>1, <3>2 DEF compute_reward
  <2> HIDE DEF st, q
  <2> QED
    BY <2>3, <2>4 DEF MarketState
<1>5. st = compute_reward(priced, height)
  BY DEF epoch_interest
<1> HIDE DEF r, q, st
<1>6. /\ priced \in MarketState
      /\ priced.total_liabilities = r.total_liabilities
      /\ priced.last_interest_updated = r.last_interest_updated
      /\ priced.global_interest_index = r.global_interest_index
      /\ priced.global_reward_index = r.global_reward_index
      /\ priced.last_reward_updated = r.last_reward_updated
      /\ priced.anc_emission_rate = r.anc_emission_rate
  BY <1>3, <1>4 DEF MarketState
<1> HIDE DEF priced
<1>7. CoveredBy(priced)
  BY <1>3, <1>6 DEF CoveredBy
<1>8. PromisedBy(priced)
  <2>1. accrued_emission(priced) = accrued_emission(r) /\ share(priced) = share(r)
    BY <1>6 DEF accrued_emission, share
  <2> QED
    BY <1>3, <1>6, <2>1 DEF PromisedBy
<1>9. PromisedBy(st) /\ st.last_reward_updated = height
  <2>1. /\ priced.global_interest_index >= state.global_interest_index
        /\ priced.global_reward_index >= state.global_reward_index
        /\ priced.last_reward_updated <= height
    BY <1>3, <1>6 DEF StateGood
  <2> QED
    BY <1>2, <1>5, <1>6, <1>7, <1>8, <2>1, RewardKeepsPromise
<1>10. /\ UNCHANGED <<borrower_info, spent, emitted, height>>
       /\ state' = [[st EXCEPT !.total_reserves = kept] EXCEPT !.anc_emission_rate = emission]
  BY <1>1 DEF execute_epoch_operations, st
<1> HIDE DEF kept, emission
<1>11. /\ state'.last_interest_updated = st.last_interest_updated
       /\ state'.global_interest_index = st.global_interest_index
       /\ state'.global_reward_index = st.global_reward_index
       /\ state'.last_reward_updated = st.last_reward_updated
  BY <1>4, <1>10 DEF MarketState
<1>12. state'.anc_emission_rate \in Nat
  BY DEF IInv, TypeOK, MarketState
<1> QED
  BY <1>2, <1>4, <1>9, <1>10, <1>11, <1>12, KeepPromise

\* A block promises its emission and accrues none of it.
LEMMA NextBlockPromise == ASSUME RInv, NextBlock PROVE PromisedBy(state)'
<1> DEFINE a == state.anc_emission_rate
           l == state.last_reward_updated
<1>1. /\ height' = height + 1 /\ emitted' = emitted + a
      /\ UNCHANGED <<state, borrower_info, spent>>
  BY DEF NextBlock
<1>2. a \in Nat /\ l \in Nat /\ height \in Nat /\ emitted \in Nat
  BY DEF RInv, DInv, IInv, TypeOK, MarketState
<1>3. accrued_emission(state)' = accrued_emission(state)
  <2>1. /\ accrued_emission(state)' = emitted' - a * (height' - l)
        /\ accrued_emission(state) = emitted - a * (height - l)
    BY <1>1 DEF accrued_emission
  <2> HIDE DEF a, l
  <2>2. a * ((height + 1) - l) = a * (height - l) + a
    BY <1>2
  <2>3. a * (height - l) \in Int
    BY <1>2
  <2> QED
    BY <1>1, <1>2, <2>1, <2>2, <2>3
<1>4. /\ loans' = loans /\ indexes' = indexes /\ pendings' = pendings
      /\ settled_at' = settled_at /\ share(state)' = share(state)
  BY <1>1 DEF loans, indexes, pendings, settled_at, share
<1> QED
  BY <1>1, <1>3, <1>4 DEF RInv, PromisedBy

LEMMA RestPromise ==
    ASSUME RInv,
           \/ register_contracts \/ UpdateConfig \/ UpdateInterestModel
           \/ UpdateDistributionModel \/ Donation \/ HolderBurn \/ UNCHANGED mvars
    PROVE  PromisedBy(state)'
<1>1. IInv /\ PromisedBy(state) /\ state \in MarketState
      /\ UNCHANGED <<borrower_info, spent, emitted, height>>
  BY DEF RInv, DInv, IInv, TypeOK, register_contracts, UpdateConfig, update_config,
         UpdateInterestModel, update_interest_model, UpdateDistributionModel,
         update_distribution_model, Donation, Donate, HolderBurn, holder_burn, mvars
<1>2. CASE UNCHANGED state
  BY <1>1, <1>2, KeepPromise
<1>3. CASE ~UNCHANGED state
  <2>1. UpdateConfig
    BY <1>3 DEF register_contracts, UpdateInterestModel, update_interest_model,
                UpdateDistributionModel, update_distribution_model,
                Donation, Donate, HolderBurn, holder_burn, mvars
  <2>2. PICK t \in TargetRates : CanComputeInterest(bank, t) /\ state' = compute_interest(bank, t)
    BY <1>3, <2>1 DEF UpdateConfig, update_config
  <2> DEFINE r == compute_interest(bank, t)
  <2>3. PromisedBy(r) /\ r \in MarketState
    BY <1>1, <2>2, InputTypes, AccruedPromise, AccruedGood DEF StateGood
  <2> HIDE DEF r
  <2>4. state' = r
    BY <2>2 DEF r
  <2> QED
    BY <1>1, <2>3, <2>4, KeepPromise
<1> QED
  BY <1>2, <1>3

LEMMA StepPromises == ASSUME RInv, [Next]_mvars PROVE RInv'
<1>1. DInv' /\ IInv'
  <2>1. DInv'
    BY StepCovers DEF RInv
  <2> QED
    BY <2>1 DEF DInv
<1>2. PromisedBy(state)'
  BY <1>1, LoanCallPromise, DepositorPromise, EpochPromise, NextBlockPromise,
     RestPromise DEF Next
<1> QED
  BY <1>1, <1>2 DEF RInv

LEMMA InitPromises == ASSUME Init PROVE RInv
<1>1. DInv /\ IInv
  BY InitCovers DEF DInv
<1>2. /\ spent = 0 /\ emitted = 0 /\ height = 0
      /\ state.last_reward_updated = 0 /\ state.global_reward_index = 0
      /\ state.anc_emission_rate \in Nat /\ state \in MarketState
      /\ \A u \in Users : pendings[u] = 0 /\ settled_at[u] = 0 /\ loans[u] = 0
  BY <1>1, LoansTyped, MarketAssumption DEF Init, loans, pendings, settled_at
<1>3. accrued_emission(state) = 0
  BY <1>2 DEF accrued_emission
<1>4. ASSUME NEW M, NEW k, Common(indexes, M, k)
      PROVE  (Scale * Scale) * (Dues(loans, pendings, settled_at, 0, M, k) + M * FromUint(0))
               <= (Scale * Scale + share(state)) * (M * 0)
  <2> DEFINE f == Due(loans, pendings, settled_at, 0, M, k)
  <2>1. M \in Nat /\ \A u \in Users : k[u] \in Nat
    BY <1>4 DEF Common
  <2>2. \A u \in Users : f[u] = 0
    <3> SUFFICES ASSUME NEW u \in Users PROVE f[u] = 0
      OBVIOUS
    <3>1. f[u] = M * pendings[u] + (Scale * (0 - settled_at[u])) * (loans[u] * k[u])
      BY Zenon DEF Due
    <3>2. pendings[u] = 0 /\ settled_at[u] = 0 /\ loans[u] = 0 /\ k[u] \in Nat
      BY <1>2, <2>1
    <3> HIDE DEF f
    <3> QED
      BY <2>1, <3>1, <3>2, ScaleAssumption
  <2> HIDE DEF f
  <2>3. SumFunctionOnSet(f, Users) = 0
    BY <2>2, UsersFinite, SumZero
  <2>4. Dues(loans, pendings, settled_at, 0, M, k) = 0
    BY <2>3 DEF Dues, f
  <2>5. share(state) \in Nat
    BY <1>2, ShareNat
  <2> QED
    BY <2>1, <2>4, <2>5, ScaleAssumption DEF FromUint
<1>5. PromisedBy(state)
  BY <1>2, <1>3, <1>4 DEF PromisedBy, Promised
<1> QED
  BY <1>1, <1>5 DEF RInv

LEMMA PromiseAlways == Spec => []RInv
<1>1. Init => RInv
  BY InitPromises
<1>2. RInv /\ [Next]_mvars => RInv'
  BY StepPromises
<1> QED
  BY <1>1, <1>2, PTL DEF Spec
\* The numbers of the promise: D units of ANC are due or paid, M times.
LEMMA PromiseArithmetic ==
    ASSUME NEW D \in Int, NEW E \in Nat, NEW e \in Nat, NEW x \in Nat, NEW M \in Nat,
           M > 0, E <= e, (Scale * Scale) * (M * D) <= (Scale * Scale + x) * (M * E)
    PROVE  Scale * Scale * (D - e) <= x * e
<1> DEFINE SS == Scale * Scale
<1>1. SS \in Nat
  BY ScaleAssumption
<1>2. SS * (M * D) <= (SS + x) * (M * E)
  OBVIOUS
<1> HIDE DEF SS
<1>3. (SS * D) * M <= ((SS + x) * E) * M
  BY <1>1, <1>2
<1>4. SS * D \in Int /\ (SS + x) * E \in Int
  BY <1>1
<1>5. SS * D <= (SS + x) * E
  BY <1>3, <1>4, MulCancel
<1>6. E * (SS + x) <= e * (SS + x)
  BY <1>1, MulMono
<1>7. /\ (SS + x) * E = E * (SS + x) /\ e * (SS + x) = SS * e + x * e
      /\ SS * (D - e) = SS * D - SS * e
      /\ SS * e \in Int /\ x * e \in Int /\ E * (SS + x) \in Int
  BY <1>1
<1>8. SS * (D - e) <= x * e
  BY <1>4, <1>5, <1>6, <1>7
<1> QED
  BY <1>8 DEF SS

\* With the invariant, what is paid and due is within what has been emitted.
LEMMA DueCovered == ASSUME RInv PROVE RewardsCovered
<1> DEFINE due == [u \in Users |-> reward_due(u)]
           R == state.global_reward_index
           E == accrued_emission(state)
           x == share(state)
           a == state.anc_emission_rate
           l == state.last_reward_updated
<1>1. /\ IInv /\ state \in MarketState /\ borrower_info \in [Users -> BorrowerInfo]
      /\ state.global_interest_index > 0
  BY LoansTyped, ScaleAssumption DEF RInv, DInv, MarketState
<1>2. /\ Accounts(loans, pendings, settled_at) /\ indexes \in [Users -> Nat]
      /\ \A u \in Users : indexes[u] > 0
      /\ SettledBy(settled_at, R) /\ spent \in Nat /\ emitted \in Nat /\ height \in Nat
  BY <1>1, AccountsTyped
<1>3. E \in Nat /\ E <= emitted /\ x \in Nat /\ x = excess_share
  <2>1. E \in Nat /\ x \in Nat /\ x = excess_share
    BY <1>1, ShareNat DEF RInv, PromisedBy, share, excess_share
  <2>2. E = emitted - a * (height - l)
    BY DEF accrued_emission
  <2>3. a \in Nat /\ height - l \in Nat
    <3>1. a \in Nat /\ l \in Nat /\ l <= height
      BY <1>1 DEF MarketState, IInv, IndexesOrdered
    <3> HIDE DEF l, a
    <3> QED
      BY <1>2, <3>1
  <2> DEFINE d == height - l
  <2> HIDE DEF a, E, x, d
  <2>4. a * d \in Nat
    BY <2>3 DEF d
  <2>5. E = emitted - a * d
    BY <2>2 DEF d
  <2> QED
    BY <1>2, <2>1, <2>4, <2>5
<1>4. PICK M, k : Common(indexes, M, k)
  BY <1>2, CommonExists
<1>5. M \in Nat /\ M > 0 /\ k \in [Users -> Nat] /\ Quotients(M, k)
  BY <1>4 DEF Common, Quotients
<1> DEFINE f == Due(loans, pendings, settled_at, R, M, k)
           g == [u \in Users |-> M * due[u]]
<1>6. ASSUME NEW u \in Users
      PROVE  /\ due[u] \in Int /\ g[u] = M * due[u] /\ g[u] \in Int
             /\ f[u] \in Int /\ g[u] <= f[u]
  <2> DEFINE info == borrower_info[u]
             p == info.pending_rewards
             d == R - info.reward_index
             i == info.interest_index
             L == info.loan_amount
             q == k[u]
  <2>1. /\ info \in BorrowerInfo /\ loans[u] = L /\ indexes[u] = i
        /\ pendings[u] = p /\ settled_at[u] = info.reward_index
    BY <1>1 DEF loans, indexes, pendings, settled_at
  <2>2. /\ p \in Nat /\ d \in Nat /\ i \in Nat /\ i > 0 /\ L \in Nat /\ q \in Nat
        /\ q * i = M /\ Scale \in Nat /\ info.reward_index <= R
    <3>1. info.reward_index \in Nat /\ R \in Nat /\ info.reward_index <= R
      BY <1>2, <2>1 DEF SettledBy, BorrowerInfo
    <3> QED
      BY <1>2, <1>4, <1>5, <2>1, <3>1, ScaleAssumption DEF BorrowerInfo, Common
  <2>3. PICK gain \in Nat : due[u] = p + gain /\ gain * i <= Scale * (L * d)
    <3>1. info.interest_index > 0 /\ info.reward_index <= state.global_reward_index
      BY <2>2
    <3>2. due[u] = settle_borrower(state, info).pending_rewards
      BY DEF reward_due
    <3> HIDE DEF info, due
    <3> QED
      BY <1>1, <2>1, <3>1, <3>2, RewardBrought
  <2>4. f[u] = M * p + (Scale * d) * (L * q)
    <3>1. f[u] = M * pendings[u] + (Scale * (R - settled_at[u])) * (loans[u] * k[u])
      BY Zenon DEF Due
    <3> QED
      BY <2>1, <3>1, Zenon
  <2>5. g[u] = M * due[u]
    BY Zenon
  <2> HIDE DEF f, g, due, p, d, i, L, q
  <2>6. (gain * i) * q <= (Scale * (L * d)) * q
    <3>1. gain * i \in Int /\ Scale * (L * d) \in Int
      BY <2>2
    <3> QED
      BY <2>2, <2>3, <3>1, MulMono
  <2>7. (gain * i) * q = M * gain /\ (Scale * (L * d)) * q = (Scale * d) * (L * q)
    <3>1. (gain * i) * q = (q * i) * gain
      BY <2>2
    <3>2. (Scale * (L * d)) * q = (Scale * d) * (L * q)
      BY <2>2
    <3> QED
      BY <1>5, <2>2, <3>1, <3>2
  <2>8. M * (p + gain) = M * p + M * gain /\ M * p \in Int /\ M * gain \in Int
        /\ (Scale * d) * (L * q) \in Int
    BY <1>5, <2>2
  <2> QED
    BY <2>2, <2>3, <2>4, <2>5, <2>6, <2>7, <2>8
<1> HIDE DEF due, f, g, R, E, x, a, l
<1> DEFINE D == SumFunctionOnSet(due, Users)
           b == FromUint(spent)
<1>7. D \in Int
  BY <1>6, UsersFinite, SumType
<1>8. M * D <= Dues(loans, pendings, settled_at, R, M, k)
  <2>1. SumFunctionOnSet(g, Users) <= SumFunctionOnSet(f, Users)
    BY <1>6, UsersFinite, SumMonotone
  <2>2. SumFunctionOnSet(g, Users) = M * D
    <3>1. M \in Int /\ Multiple(g, M, due, Users)
      BY <1>5, <1>6 DEF Multiple
    <3> QED
      BY <3>1, UsersFinite, SumScale
  <2> QED
    BY <2>1, <2>2 DEF Dues, f
<1>9. Dues(loans, pendings, settled_at, R, M, k) \in Nat /\ b \in Nat
  BY <1>2, <1>5, DuesNat, ScaleAssumption DEF FromUint
<1> HIDE DEF D, b
<1>10. SUFFICES ASSUME x <= Scale * Scale
                PROVE  Scale * Scale * (b + D - emitted) <= x * emitted
  BY <1>3 DEF RewardsCovered, D, b, due
<1>11. (Scale * Scale) * (Dues(loans, pendings, settled_at, R, M, k) + M * b)
         <= (Scale * Scale + x) * (M * E)
  BY <1>4, <1>10 DEF RInv, PromisedBy, Promised, R, E, x, b
<1>12. (Scale * Scale) * (M * (b + D)) <= (Scale * Scale + x) * (M * E)
  <2> DEFINE SS == Scale * Scale
             y == Dues(loans, pendings, settled_at, R, M, k)
             z == (SS + x) * (M * E)
  <2>1. SS \in Nat /\ y \in Nat /\ z \in Nat /\ M * D <= y /\ SS * (y + M * b) <= z
    BY <1>3, <1>5, <1>8, <1>9, <1>11, ScaleAssumption
  <2> HIDE DEF y, z, SS
  <2>2. M * (b + D) = M * D + M * b /\ M * D \in Int /\ M * b \in Int
    BY <1>5, <1>7, <1>9
  <2>3. M * (b + D) <= y + M * b
    BY <2>1, <2>2
  <2>4. (M * (b + D)) * SS <= (y + M * b) * SS
    <3>1. M * (b + D) \in Int /\ y + M * b \in Int
      BY <2>1, <2>2
    <3> QED
      BY <2>1, <2>3, <3>1, MulMono
  <2>5. /\ (M * (b + D)) * SS = SS * (M * (b + D))
        /\ (y + M * b) * SS = SS * (y + M * b)
        /\ SS * (M * (b + D)) \in Int /\ SS * (y + M * b) \in Int
    BY <1>5, <1>7, <1>9, <2>1, <2>2
  <2>6. SS * (M * (b + D)) <= z
    BY <2>1, <2>4, <2>5
  <2> QED
    BY <2>6 DEF SS, z
<1>13. b + D \in Int
  BY <1>7, <1>9
<1> DEFINE total == b + D
<1> HIDE DEF total
<1>14. Scale * Scale * (total - emitted) <= x * emitted
  BY <1>2, <1>3, <1>5, <1>12, <1>13, PromiseArithmetic DEF total
<1>15. b + D - emitted = total - emitted
  BY <1>2, <1>7, <1>9 DEF total
<1> QED
  BY <1>14, <1>15

\* At any scale and rates, for any number of borrowers, the ANC paid out and due
\* stays within the emission promised block by block, but for the share that
\* the loss of rounding in total_liabilities explains.
THEOREM RewardsAlwaysCovered == Spec => []RewardsCovered
<1>1. RInv => RewardsCovered
  BY DueCovered
<1> QED
  BY <1>1, PromiseAlways, PTL
=============================================================================
