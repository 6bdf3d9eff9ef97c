----------------------------- MODULE EpochProofs -----------------------------
(***************************************************************************)
(* Theorems about Epoch, for every value of its constants.                 *)
(***************************************************************************)
EXTENDS Epoch, MarketProofs, SequenceTheorems, FiniteSetTheorems

(***************************************************************************)
(* Messages: the calls of custody contracts run before the last message.   *)
(***************************************************************************)
CustodyCall ==
    [type : {"distribute_rewards", "claim_rewards", "swap_to_stable_denom",
             "distribute_hook"}, custody : Custodies]
    \cup [type : {"swap"}, custody : Custodies, denom : Denoms]

\* The last of several messages stays the last while those before it are
\* replaced by the messages their handlers return.
LEMMA LastStays ==
  ASSUME NEW S, NEW calls \in Seq(S), NEW more \in Seq(S), NEW last, calls # <<>>
  PROVE  /\ calls \o <<last>> # <<>>
         /\ Head(calls \o <<last>>) = Head(calls)
         /\ Head(calls) \in S
         /\ more \o Tail(calls) \in Seq(S)
         /\ more \o Tail(calls \o <<last>>) = (more \o Tail(calls)) \o <<last>>
<1> DEFINE T == S \cup {last}
<1>1. calls \in Seq(T) /\ more \in Seq(T) /\ <<last>> \in Seq(T)
  BY SMT
<1>2. /\ Head(calls) \in S /\ Tail(calls) \in Seq(S) /\ Tail(calls) \in Seq(T)
  BY <1>1, HeadTailProperties
<1>3. more \o Tail(calls) \in Seq(S)
  BY <1>2, ConcatProperties
<1>4. /\ calls \o <<last>> \in Seq(T) /\ calls \o <<last>> # <<>>
      /\ Head(calls \o <<last>>) = Head(calls)
      /\ Tail(calls \o <<last>>) = Tail(calls) \o <<last>>
  BY <1>1, SMT
<1>5. more \o (Tail(calls) \o <<last>>) = (more \o Tail(calls)) \o <<last>>
  BY <1>1, <1>2, ConcatAssociative
<1> QED
  BY <1>2, <1>3, <1>4, <1>5

\* A finite set as a sequence has elements of the set.
LEMMA SetAsSeq ==
  ASSUME NEW S, IsFiniteSet(S)
  PROVE  SetToSeq(S) \in Seq(S)
<1>1. Cardinality(S) \in Nat /\ ExistsBijection(1 .. Cardinality(S), S)
  BY FS_CardinalityType
<1>2. PICK f \in [1 .. Cardinality(S) -> S] : IsInjective(f)
  BY <1>1 DEF ExistsBijection, Bijection, Injection
<1>3. SetToSeq(S) \in [1 .. Cardinality(S) -> S]
  BY <1>2 DEF SetToSeq
<1> QED
  BY <1>1, <1>3, SeqDef

\* What the custody contracts return are again their own messages.
LEMMA SwapCalls ==
  ASSUME NEW c \in Custodies, NEW held \in Seq(Denoms)
  PROVE  [i \in DOMAIN held |-> [type |-> "swap", custody |-> c, denom |-> held[i]]]
           \in Seq(CustodyCall)
<1>1. Len(held) \in Nat /\ DOMAIN held = 1 .. Len(held) /\ \A i \in 1 .. Len(held) : held[i] \in Denoms
  BY LenProperties
<1>2. \A i \in 1 .. Len(held) :
        [type |-> "swap", custody |-> c, denom |-> held[i]] \in CustodyCall
  BY <1>1 DEF CustodyCall
<1> DEFINE calls == [i \in 1 .. Len(held) |->
                       [type |-> "swap", custody |-> c, denom |-> held[i]]]
<1>3. calls \in [1 .. Len(held) -> CustodyCall]
  BY <1>2
<1>4. calls \in Seq(CustodyCall)
  BY <1>1, <1>3, SeqDef
<1> QED
  BY <1>1, <1>4

LEMMA AskCalls ==
  ASSUME NEW c \in Custodies
  PROVE  <<Ask("claim_rewards", c), Ask("swap_to_stable_denom", c),
           Ask("distribute_hook", c)>> \in Seq(CustodyCall)
<1>1. /\ Ask("claim_rewards", c) \in CustodyCall
      /\ Ask("swap_to_stable_denom", c) \in CustodyCall
      /\ Ask("distribute_hook", c) \in CustodyCall
  BY DEF Ask, CustodyCall
<1> QED
  BY <1>1

(***************************************************************************)
(* The market between epochs                                               *)
(***************************************************************************)
\* The market publishes a new rate only with the interest of a later block.
RateMovesWithInterest(st) ==
    /\ st.last_interest_updated >= state.last_interest_updated
    /\ st.last_interest_updated = state.last_interest_updated
         => st.prev_exchange_rate = state.prev_exchange_rate

LEMMA InterestMoves ==
  ASSUME IInv, NEW t \in Nat, CanComputeInterest(bank, t)
  PROVE  /\ compute_interest(bank, t) \in MarketState
         /\ RateMovesWithInterest(compute_interest(bank, t))
         /\ compute_interest(bank, t).last_interest_updated >= height
         /\ accrued(bank, t) \in MarketState
         /\ RateMovesWithInterest(accrued(bank, t))
         /\ accrued(bank, t).last_interest_updated >= height
<1> DEFINE rate == borrow_rate(state, bank)
           r == compute_interest_raw(state, height, bank, aterra_supply, rate, t)
           a == accrued(bank, t)
<1>1. /\ bank \in Nat /\ aterra_supply \in Nat /\ aterra_supply > 0 /\ height \in Nat
      /\ Backed(state, aterra_supply, bank) /\ pool_value(state, bank) >= 0
      /\ state \in MarketState /\ TypeOK
  BY BeforeGood DEF IInv, TypeOK
<1>2. /\ rate \in Nat
      /\ interest_computable(state, height, bank, aterra_supply, rate, t)
  BY <1>1, BorrowRateNat DEF CanComputeInterest
<1> HIDE DEF rate
<1>3. r = compute_interest(bank, t)
  BY DEF compute_interest, rate
<1>4. AccruedFrom(state, height, bank, aterra_supply, r)
  BY <1>1, <1>2, AccrualBacked
<1>5. state.last_interest_updated >= height => r = state
  BY DEF compute_interest_raw
<1> HIDE DEF r
<1>6. /\ r \in MarketState /\ RateMovesWithInterest(r)
      /\ r.last_interest_updated >= height
  BY <1>1, <1>4, <1>5, SMT DEF AccruedFrom, RateMovesWithInterest, MarketState
<1>7. a = compute_reward(r, height)
  BY <1>3 DEF accrued
<1>8. a \in MarketState
  BY AccruedGood DEF StateGood
<1> HIDE DEF a
<1>9. /\ a.last_interest_updated = r.last_interest_updated
      /\ a.prev_exchange_rate = r.prev_exchange_rate
  BY <1>6, <1>7 DEF compute_reward, MarketState
<1> QED
  BY <1>3, <1>6, <1>8, <1>9 DEF RateMovesWithInterest, a

LEMMA MarketCallMoves ==
  ASSUME IInv, MarketCall, target \in TargetRates
  PROVE  RateMovesWithInterest(state')
<1>1. target \in Nat
  BY InputTypes
<1> DEFINE a == accrued(bank, target)
           Kept(st) == /\ st.last_interest_updated = a.last_interest_updated
                       /\ st.prev_exchange_rate = a.prev_exchange_rate
           Moves(st) == CanComputeInterest(bank, target) /\ Kept(st)
<1>2. ASSUME CanComputeInterest(bank, target)
      PROVE  /\ a \in MarketState /\ RateMovesWithInterest(a)
             /\ RateMovesWithInterest(compute_interest(bank, target))
  BY <1>1, <1>2, InterestMoves
<1>4. RateMovesWithInterest(state)
  BY SMT DEF RateMovesWithInterest, IInv, TypeOK, MarketState
<1> HIDE DEF a
<1>5. ASSUME Moves(state') PROVE RateMovesWithInterest(state')
  BY <1>2, <1>5 DEF RateMovesWithInterest
<1>6. ASSUME NEW x \in Amounts, deposit_stable(x, target) PROVE Moves(state')
  BY <1>2, <1>6 DEF deposit_stable, MarketState, a
<1>7. ASSUME NEW x \in Amounts, redeem_stable(x, target) PROVE Moves(state')
  BY <1>2, <1>7 DEF redeem_stable, MarketState, a
<1>8. ASSUME NEW u \in Users, NEW x \in Amounts, NEW l \in BorrowLimits,
             borrow_stable(u, x, l, target)
      PROVE  Moves(state')
  BY <1>2, <1>8 DEF borrow_stable, MarketState, a
<1>9. ASSUME NEW u, NEW x, settle_repayment(u, x, target) PROVE Moves(state')
  BY <1>2, <1>9 DEF settle_repayment, MarketState, a
<1>10. ASSUME NEW u \in Users, claim_rewards(u, target) PROVE Moves(state')
  BY <1>10 DEF claim_rewards, a
<1>11. ASSUME NEW s \in Users, NEW o \in Users, NEW i, NEW d, NEW f,
              update_config(s, o, i, d, f, target)
       PROVE  RateMovesWithInterest(state')
  BY <1>2, <1>4, <1>11 DEF update_config, RateMovesWithInterest
<1>12. ASSUME UNCHANGED state PROVE RateMovesWithInterest(state')
  BY <1>4, <1>12 DEF RateMovesWithInterest
<1>13. CASE register_contracts \/ UpdateInterestModel \/ UpdateDistributionModel
            \/ NextBlock \/ Donation \/ HolderBurn
  BY <1>12, <1>13 DEF register_contracts, UpdateInterestModel, update_interest_model,
     UpdateDistributionModel, update_distribution_model, NextBlock, Donation, Donate,
     HolderBurn, holder_burn
<1> HIDE DEF Moves
<1> QED
  BY <1>5, <1>6, <1>7, <1>8, <1>9, <1>10, <1>11, <1>13
     DEF MarketCall, repay_stable, repay_stable_from_liquidation

\* A call between epochs is one of Market, and leaves the rest of it.
LEMMA MarketCallNext ==
  ASSUME MarketCall, target \in TargetRates
  PROVE  Next
  BY DEF MarketCall, Next, Deposit, Redeem, Borrow, Repay, RepayFromLiquidation,
     ClaimRewards, UpdateConfig

\* The rate that the overseer is told of at this block, with d coins
\* distributed, where interest can be computed: it can be asked for once the
\* market is registered, more coins do not lower it, and it is not below the one
\* published unless holders have burned aTerra.
LEMMA EpochRateGood ==
  ASSUME IInv, NEW d \in Nat, NEW t \in Nat, CanComputeInterest(bank, t)
  PROVE  /\ can_query_epoch_state(height, bank, d, t) <=> config.registered
         /\ query_epoch_state(height, bank, d, t) \in Nat
         /\ query_epoch_state(height, bank, d, t) >= query_epoch_state(height, bank, 0, t)
         /\ ahead = 0 =>
              query_epoch_state(height, bank, d, t) >= state.prev_exchange_rate
         /\ epoch_interest(bank, d, t).prev_exchange_rate
              = query_epoch_state(height, bank, d, t)
         /\ epoch_interest(bank, d, t).last_interest_updated
              = compute_interest(bank, t).last_interest_updated
<1> DEFINE r == compute_interest(bank, t)
           q == query_epoch_state(height, bank, d, t)
           new == [r EXCEPT !.prev_exchange_rate = q]
           e == epoch_interest(bank, d, t)
<1>1. r \in MarketState
  BY InterestMoves
<1>2. e = compute_reward(new, height)
  BY DEF epoch_interest
<1>3. StateGood(e, aterra_supply, bank + d)
  BY EpochInterestGood
<1>4. /\ interest_computable(state, height, bank, aterra_supply,
                             borrow_rate(state, bank), t)
      /\ pool_value(state, bank) >= 0 /\ bank >= 0
      /\ state.last_interest_updated <= height
      /\ state \in MarketState
  BY BeforeGood, SMT DEF CanComputeInterest, IInv, TypeOK, IndexesOrdered
<1>5. can_query_epoch_state(height, bank, d, t) <=> config.registered
  BY <1>4 DEF can_query_epoch_state, IInv, TypeOK, MarketConfig
<1> HIDE DEF r, q, e
<1>6. new.prev_exchange_rate = q /\ new.last_interest_updated = r.last_interest_updated
  BY <1>1 DEF MarketState
<1>7. /\ DOMAIN new = DOMAIN r
      /\ {"prev_exchange_rate", "last_interest_updated"} \subseteq DOMAIN r
  BY <1>1 DEF MarketState
<1> HIDE DEF new
<1>8. /\ e.prev_exchange_rate = new.prev_exchange_rate
      /\ e.last_interest_updated = new.last_interest_updated
  BY <1>2, <1>7 DEF compute_reward
<1>9. q >= query_epoch_state(height, bank, 0, t)
  <2> DEFINE v == pool_value(r, bank)
             v2 == pool_value(r, bank + d)
  <2>1. /\ bank \in Nat /\ bank + 0 = bank /\ bank + d \in Nat
        /\ aterra_supply \in Nat /\ aterra_supply > 0
    BY BeforeGood, SMT
  <2>2. /\ q = compute_exchange_rate_raw(r, aterra_supply, bank + d)
        /\ query_epoch_state(height, bank, 0, t)
             = compute_exchange_rate_raw(r, aterra_supply, bank)
    BY <2>1 DEF query_epoch_state, compute_interest, q, r
  <2>3. v \in Int /\ v2 \in Int
    BY <1>1, <2>1, RateGreatest
  <2>4. v <= v2
    <3>1. bank * Scale <= (bank + d) * Scale
      BY <2>1, ScaleAssumption, MulMono, SMT
    <3>2. /\ r.total_liabilities \in Nat /\ r.total_reserves \in Nat
          /\ bank * Scale \in Int /\ (bank + d) * Scale \in Int
      BY <1>1, <2>1, ScaleAssumption, SMT DEF MarketState
    <3> QED
      BY <3>1, <3>2, SMT DEF pool_value, FromUint
  <2> DEFINE k == compute_exchange_rate_raw(r, aterra_supply, bank)
  <2>5. k \in Int /\ k * aterra_supply <= v
    BY <1>1, <2>1, RateGreatest
  <2>6. \A n \in Int : n * aterra_supply <= v2
                      => n <= compute_exchange_rate_raw(r, aterra_supply, bank + d)
    BY <1>1, <2>1, RateGreatest
  <2>7. compute_exchange_rate_raw(r, aterra_supply, bank + d) \in Int
    BY <1>1, <2>1, RateGreatest
  <2> HIDE DEF v, v2, k
  <2>8. k * aterra_supply <= v2
    <3>1. k * aterra_supply \in Int
      BY <2>1, <2>5, SMT
    <3> QED
      BY <2>3, <2>4, <2>5, <3>1, SMT
  <2>9. k <= compute_exchange_rate_raw(r, aterra_supply, bank + d)
    BY <2>5, <2>6, <2>8
  <2> QED
    BY <2>2, <2>5, <2>7, <2>9, SMT DEF k
<1> QED
  BY <1>3, <1>5, <1>6, <1>8, <1>9 DEF StateGood, MarketState, r, q, e

(***************************************************************************)
(* The invariant.  The overseer computes its new buffer before it pays;    *)
(* what it computed stays covered while rewards arrive (Rewarding), is     *)
(* stored with the rate that the market's message will publish (Ending),   *)
(* and is the state of affairs once that message has run.                  *)
(***************************************************************************)
\* All income is in an epoch's accrued_buffer or in the buffer since then.
Counted(accrued_sum, held, buffer, total) ==
    total = accrued_sum + held - buffer

\* Between transactions, of the overseer's stores.
Settled(held, total, epoch, accrued_sum) ==
    /\ One <= epoch.prev_exchange_rate
    /\ epoch.last_executed_height <= state.last_interest_updated
    /\ ~burned => epoch.prev_exchange_rate <= state.prev_exchange_rate
    /\ epoch.last_executed_height = state.last_interest_updated
         => epoch.prev_exchange_rate = state.prev_exchange_rate
    /\ epoch.prev_interest_buffer <= held
    /\ Counted(accrued_sum, held, epoch.prev_interest_buffer, total)

\* Custody contracts are sending rewards.  The market still computes the rate
\* that the overseer began with.
Rewarding ==
    /\ epoch_state = saved.epoch_state
    /\ blocks > 0
    /\ CanComputeInterest(bank, target)
    /\ current_rate >= epoch_state.prev_exchange_rate
    /\ \E calls \in Seq(CustodyCall), b \in Nat :
         /\ queue = calls \o <<UpdateMessage(b, received)>>
         /\ b <= coins[Overseer]
         /\ Counted(accrued_buffers, coins[Overseer], b, income)

\* The overseer has stored its epoch, the market has not.
Ending ==
    /\ queue = <<MarketMessage(epoch_state.deposit_rate, received)>>
    /\ epoch_state.last_executed_height = height
    /\ CanComputeInterest(bank, target)
    /\ One <= epoch_state.prev_exchange_rate
    /\ epoch_state.prev_exchange_rate = query_epoch_state(height, bank, received, target)
    /\ epoch_state.prev_interest_buffer <= coins[Overseer]
    /\ Counted(accrued_buffers, coins[Overseer], epoch_state.prev_interest_buffer, income)

\* What the overseer's history knows of aTerra that holders burned.
BurnsSeen == burned \in BOOLEAN /\ (ahead > 0 => burned)

EInv ==
    /\ IInv
    /\ EpochTypeOK
    /\ BurnsSeen
    /\ Idle => /\ received = 0
               /\ Settled(coins[Overseer], income, epoch_state, accrued_buffers)
    /\ ~Idle => /\ config.registered
                /\ Settled(saved.coins[Overseer], saved.income, saved.epoch_state,
                           saved.accrued_buffers)
                /\ Rewarding \/ Ending

LEMMA ConfigTypes ==
  ASSUME EpochTypeOK
  PROVE  /\ target \in TargetRates /\ target \in Nat
         /\ overseer_config.threshold_deposit_rate \in Nat
         /\ overseer_config.buffer_distribution_factor \in Nat
         /\ overseer_config.anc_purchase_factor \in Nat
         /\ overseer_config.epoch_period \in Nat
<1>1. overseer_config \in
        [owner_addr : Users, epoch_period : Nat, target_deposit_rate : TargetRates,
         threshold_deposit_rate : Nat, buffer_distribution_factor : Nat,
         anc_purchase_factor : Nat]
  BY EpochAssumption DEF EpochTypeOK
<1> QED
  BY <1>1, InputTypes DEF target

LEMMA StoreTypes ==
  ASSUME EpochTypeOK
  PROVE  /\ coins \in [{Overseer, Collector} \cup Custodies -> Nat]
         /\ other \in [Custodies -> [Denoms -> Nat]]
         /\ claimable \in [Custodies -> Reward]
         /\ income \in Nat /\ accrued_buffers \in Nat
         /\ epoch_state \in EpochState
         /\ coins[Overseer] \in Nat
  BY DEF EpochTypeOK, present, Stores

\* A deposit rate is a natural number once the exchange rate has not fallen.
LEMMA DepositRateNat ==
  ASSUME NEW rate \in Nat, epoch_state.prev_exchange_rate \in Nat,
         One <= epoch_state.prev_exchange_rate,
         epoch_state.prev_exchange_rate <= rate, blocks \in Nat, blocks > 0
  PROVE  deposit_rate_at(rate) \in Nat
<1> DEFINE prev == epoch_state.prev_exchange_rate
           gain == DecDiv(rate, prev)
<1>1. prev \in Nat /\ prev > 0 /\ prev <= rate
  BY ScaleAssumption, SMT DEF One
<1> HIDE DEF prev
<1>2. rate * Scale \in Int /\ Scale * prev <= rate * Scale
  BY <1>1, ScaleAssumption, MulMono, SMT
<1>3. gain \in Nat /\ Scale <= gain
  BY <1>1, <1>2, ScaleAssumption, DecDivNat, DivGreatest DEF DecDiv
<1> HIDE DEF gain
<1>4. gain - One \in Nat
  BY <1>3, ScaleAssumption, SMT DEF One
<1>5. FromUint(blocks) \in Nat /\ FromUint(blocks) > 0
  BY ScaleAssumption, SMT DEF FromUint
<1>6. DecDiv(gain - One, FromUint(blocks)) \in Nat
  BY <1>4, <1>5, DecDivNat
<1> QED
  BY <1>6 DEF deposit_rate_at, gain, prev

LEMMA MissingNat ==
  ASSUME IInv, EpochTypeOK, One <= epoch_state.prev_exchange_rate,
         CanComputeInterest(bank, target),
         current_rate >= epoch_state.prev_exchange_rate, blocks \in Nat, blocks > 0,
         deposit_rate_at(current_rate) < overseer_config.threshold_deposit_rate
  PROVE  missing_deposits \in Nat
<1>1. /\ epoch_state.prev_exchange_rate \in Nat /\ epoch_state.prev_aterra_supply \in Nat
  BY StoreTypes DEF EpochState
<1>2. current_rate \in Nat
  BY ConfigTypes, EpochRateGood DEF current_rate
<1>3. deposit_rate_at(current_rate) \in Nat
  BY <1>1, <1>2, DepositRateNat, SMT
<1>4. UintMulDec(epoch_state.prev_aterra_supply, epoch_state.prev_exchange_rate) \in Nat
  BY <1>1, UintMulDecBound
<1>5. UintMulDec(epoch_state.prev_aterra_supply, epoch_state.prev_exchange_rate)
        * blocks \in Nat
  BY <1>4, SMT
<1>6. overseer_config.threshold_deposit_rate - deposit_rate_at(current_rate) \in Nat
  BY <1>3, ConfigTypes, SMT
<1> QED
  BY <1>5, <1>6, UintMulDecBound DEF missing_deposits

\* Where the market answers the overseer, it can compute interest itself.
LEMMA QueryComputes ==
  ASSUME NEW d, NEW t, can_query_epoch_state(height, bank, d, t)
  PROVE  config.registered /\ CanComputeInterest(bank, t)
  BY DEF can_query_epoch_state, CanComputeInterest

\* What the overseer spends, and what is left, are natural numbers and together
\* the buffer it has.
LEMMA EpochAmounts ==
  ASSUME IInv, EpochTypeOK, One <= epoch_state.prev_exchange_rate,
         epoch_computable, blocks \in Nat, blocks > 0
  PROVE  /\ accrued_buffer \in Nat
         /\ anc_purchase_amount \in Nat
         /\ distribution \in Nat
         /\ buffer_left \in Nat
         /\ coins[Overseer] = anc_purchase_amount + distribution + buffer_left
<1>1. /\ coins[Overseer] \in Nat /\ epoch_state \in EpochState
      /\ epoch_state.prev_exchange_rate \in Nat
      /\ epoch_state.prev_interest_buffer \in Nat
      /\ epoch_state.prev_aterra_supply \in Nat
  BY StoreTypes DEF EpochState
<1>2. accrued_buffer \in Nat
  BY <1>1, SMT DEF accrued_buffer, epoch_computable
<1>3. anc_purchase_amount \in Nat
  BY <1>2, ConfigTypes, UintMulDecBound DEF anc_purchase_amount
<1>4. /\ current_rate \in Nat /\ current_rate >= epoch_state.prev_exchange_rate
      /\ CanComputeInterest(bank, target)
  BY ConfigTypes, QueryComputes, EpochRateGood DEF current_rate, epoch_computable
<1>6. distribution_buffer \in Nat
  <2>1. coins[Overseer] - anc_purchase_amount \in Nat
    BY <1>1, <1>3, SMT DEF epoch_computable
  <2> QED
    BY <2>1, ConfigTypes, UintMulDecBound DEF distribution_buffer
<1>7. deposit_rate_at(current_rate) < overseer_config.threshold_deposit_rate
        => missing_deposits \in Nat
  BY <1>4, MissingNat
<1>8. distribution \in Nat
  BY <1>6, <1>7, SMT DEF distribution, Lesser
<1>9. buffer_left \in Nat /\ coins[Overseer] = anc_purchase_amount + distribution + buffer_left
  BY <1>1, <1>3, <1>8, SMT DEF buffer_left, epoch_computable
<1> QED
  BY <1>2, <1>3, <1>8, <1>9

(***************************************************************************)
(* The steps of an epoch                                                   *)
(***************************************************************************)
Purses == [{Overseer, Collector} \cup Custodies -> Nat]

LEMMA PresentTyped ==
  ASSUME coins' \in Purses, other' \in [Custodies -> [Denoms -> Nat]],
         claimable' \in [Custodies -> Reward], income' \in Nat,
         accrued_buffers' \in Nat, epoch_state' \in EpochState
  PROVE  present' \in Stores
  BY DEF present, Stores, Purses

\* Neither the market nor the chain's height moves until the last message.
LEMMA MarketStays ==
  ASSUME IInv, BurnsSeen, UNCHANGED <<mvars, burned>>
  PROVE  /\ IInv' /\ BurnsSeen'
         /\ \A h, i, e, a : Settled(h, i, e, a)' <=> Settled(h', i', e', a')
  BY StepIsGood DEF StepGood, Settled, Counted, mvars, BurnsSeen, ahead

LEMMA RateStays ==
  ASSUME UNCHANGED <<mvars, overseer_config>>
  PROVE  /\ CanComputeInterest(bank, target)' <=> CanComputeInterest(bank, target)
         /\ current_rate' = current_rate
  BY DEF CanComputeInterest, current_rate, query_epoch_state, borrow_rate, target, mvars

LEMMA AsksToDistribute ==
  ASSUME EpochTypeOK
  PROVE  [i \in 1 .. Lesser(Len(whitelist), DefaultLimit) |->
            Ask("distribute_rewards", whitelist[i])] \in Seq(CustodyCall)
<1> DEFINE n == Lesser(Len(whitelist), DefaultLimit)
           calls == [i \in 1 .. n |-> Ask("distribute_rewards", whitelist[i])]
<1>1. /\ Len(whitelist) \in Nat
      /\ \A i \in 1 .. Len(whitelist) : whitelist[i] \in Custodies
  BY LenProperties DEF EpochTypeOK
<1>2. n \in Nat /\ n <= Len(whitelist)
  BY <1>1, EpochAssumption, SMT DEF Lesser
<1> HIDE DEF n
<1>3. \A i \in 1 .. n : whitelist[i] \in Custodies
  BY <1>1, <1>2, SMT
<1>4. \A i \in 1 .. n : Ask("distribute_rewards", whitelist[i]) \in CustodyCall
  BY <1>3 DEF Ask, CustodyCall
<1>5. calls \in [1 .. n -> CustodyCall]
  BY <1>4
<1> QED
  BY <1>2, <1>5, SeqDef DEF n

LEMMA EpochBegins ==
  ASSUME EInv, overseer_execute_epoch_operations
  PROVE  EInv'
<1> DEFINE p == anc_purchase_amount
           d == distribution
           b == buffer_left
           calls == [i \in 1 .. Lesser(Len(whitelist), DefaultLimit) |->
                       Ask("distribute_rewards", whitelist[i])]
<1>1. /\ Idle /\ IInv /\ EpochTypeOK /\ BurnsSeen
      /\ Settled(coins[Overseer], income, epoch_state, accrued_buffers)
      /\ epoch_computable /\ blocks > 0
  BY DEF EInv, overseer_execute_epoch_operations
<1>2. /\ coins \in Purses /\ coins[Overseer] \in Nat /\ coins[Collector] \in Nat
      /\ income \in Nat /\ accrued_buffers \in Nat
      /\ epoch_state \in EpochState /\ epoch_state.prev_interest_buffer \in Nat
      /\ Overseer # Collector
  BY <1>1, StoreTypes DEF Purses, EpochState, Overseer, Collector
<1>3. blocks \in Nat
  BY <1>1, <1>2, SMT DEF blocks, IInv, TypeOK, EpochState
<1>4. /\ accrued_buffer \in Nat /\ p \in Nat /\ d \in Nat /\ b \in Nat
      /\ coins[Overseer] = p + d + b
  BY <1>1, <1>3, EpochAmounts DEF Settled
<1>5. accrued_buffer = coins[Overseer] - epoch_state.prev_interest_buffer
  BY DEF accrued_buffer
<1>6. /\ coins' = [coins EXCEPT ![Overseer] = @ - Outlay(p) - Outlay(d),
                                ![Collector] = @ + deduct_tax(p)]
      /\ received' = deduct_tax(d)
      /\ queue' = calls \o <<UpdateMessage(b, deduct_tax(d))>>
      /\ accrued_buffers' = accrued_buffers + accrued_buffer
      /\ income' = income + left_over(p) + left_over(d)
      /\ saved' = present
      /\ UNCHANGED <<mvars, other, claimable, overseer_config, epoch_state, whitelist,
                     burned>>
  BY DEF overseer_execute_epoch_operations, told
<1>7. calls \in Seq(CustodyCall)
  BY <1>1, AsksToDistribute
<1>8. /\ config.registered /\ CanComputeInterest(bank, target)
      /\ current_rate >= epoch_state.prev_exchange_rate
  BY <1>1, QueryComputes DEF epoch_computable
<1> HIDE DEF p, d, b, calls
<1>9. /\ Outlay(p) \in Nat /\ Outlay(p) <= p /\ deduct_tax(p) \in Nat
      /\ Outlay(d) \in Nat /\ Outlay(d) <= d /\ deduct_tax(d) \in Nat
  BY <1>4, OutlayBound
<1> DEFINE l == left_over(p) + left_over(d)
<1>19. /\ l \in Nat /\ income' = income + l
       /\ l = p + d - Outlay(p) - Outlay(d)
  <2>1. l = p - Outlay(p) + (d - Outlay(d))
    BY DEF left_over
  <2>2. income' = income + left_over(p) + left_over(d)
    BY <1>6
  <2>3. left_over(p) \in Nat /\ left_over(d) \in Nat
    BY <1>4, <1>9, SMT DEF left_over
  <2> HIDE DEF l
  <2>4. l \in Nat /\ l = p + d - Outlay(p) - Outlay(d)
    <3>1. left_over(p) + left_over(d) \in Nat
      BY <2>3, SMT
    <3> QED
      BY <2>1, <1>4, <1>9, <3>1, SMT DEF l
  <2>5. income + left_over(p) + left_over(d) = income + (left_over(p) + left_over(d))
    BY <2>3, <1>2, SMT
  <2> QED
    BY <2>2, <2>4, <2>5 DEF l
<1> HIDE DEF l
<1>10. /\ coins'[Overseer] = coins[Overseer] - Outlay(p) - Outlay(d)
       /\ coins'[Overseer] \in Nat /\ b <= coins'[Overseer]
       /\ coins'[Overseer] = b + l /\ income' \in Nat
  <2>1. coins'[Overseer] = coins[Overseer] - Outlay(p) - Outlay(d)
    BY <1>2, <1>6 DEF Purses
  <2> QED
    BY <2>1, <1>2, <1>4, <1>9, <1>19, SMT
<1>11. coins' \in Purses
  <2>1. coins[Collector] + deduct_tax(p) \in Nat
    BY <1>2, <1>9, SMT
  <2>2. coins[Overseer] - Outlay(p) - Outlay(d) \in Nat
    BY <1>10
  <2> QED
    BY <2>1, <2>2, <1>2, <1>6 DEF Purses
<1>12. accrued_buffers' \in Nat
  BY <1>2, <1>4, <1>6, SMT
<1>13. present' \in Stores
  BY <1>1, <1>2, <1>6, <1>10, <1>11, <1>12, StoreTypes, PresentTyped
<1>14. queue' # <<>> /\ saved' \in Stores /\ saved' # None
  <2>1. queue' # <<>>
    BY <1>6, <1>7, SMT
  <2> QED
    BY <2>1, <1>1, <1>6, NoneAssumption DEF EpochTypeOK
<1>15. EpochTypeOK'
  BY <1>1, <1>6, <1>9, <1>13, <1>14 DEF EpochTypeOK, Idle
<1>16. Counted(accrued_buffers', coins'[Overseer], b, income')
  <2>1. Counted(accrued_buffers, coins[Overseer], epoch_state.prev_interest_buffer, income)
    BY <1>1 DEF Settled
  <2>2. income = accrued_buffers + coins[Overseer] - epoch_state.prev_interest_buffer
    BY <2>1 DEF Counted
  <2>3. accrued_buffers' = accrued_buffers
                             + (coins[Overseer] - epoch_state.prev_interest_buffer)
    BY <1>5, <1>6
  <2>4. income' = income + l /\ coins'[Overseer] = b + l
    BY <1>10, <1>19
  <2>5. income' = accrued_buffers' + coins'[Overseer] - b
    BY <2>2, <2>3, <2>4, <1>2, <1>4, <1>19, SMT
  <2> QED
    BY <2>5 DEF Counted
<1>17. Rewarding'
  <2>1. epoch_state' = saved'.epoch_state
    BY <1>6 DEF present
  <2>2. blocks' > 0
    BY <1>1, <1>6 DEF blocks, mvars
  <2>3. queue' = calls \o <<UpdateMessage(b, received')>>
    BY <1>6
  <2>4. CanComputeInterest(bank, target)' /\ (current_rate >= epoch_state.prev_exchange_rate)'
    BY <1>6, <1>8, RateStays
  <2> QED
    BY <2>1, <2>2, <2>3, <2>4, <1>4, <1>7, <1>10, <1>16
       DEF Rewarding, UpdateMessage, Counted
<1>18. /\ IInv' /\ BurnsSeen' /\ config'.registered
       /\ Settled(saved.coins[Overseer], saved.income, saved.epoch_state,
                  saved.accrued_buffers)'
  <2>1. /\ saved'.coins = coins /\ saved'.income = income
        /\ saved'.epoch_state = epoch_state /\ saved'.accrued_buffers = accrued_buffers
    BY <1>6 DEF present
  <2>2. IInv' /\ BurnsSeen'
    BY <1>1, <1>6, MarketStays
  <2>3. state' = state /\ config' = config /\ burned' = burned
    BY <1>6 DEF mvars
  <2> QED
    BY <2>1, <2>2, <2>3, <1>1, <1>8 DEF Settled, Counted
<1> QED
  BY <1>14, <1>15, <1>17, <1>18 DEF EInv, Idle

\* A message of another type than the last two is a call of a custody contract.
LEMMA HeadIsCall ==
  ASSUME EInv, queue # <<>>,
         Head(queue).type \notin {"update_epoch_state", "market_epoch"}
  PROVE  Rewarding /\ Head(queue) \in CustodyCall
<1>1. Rewarding
  <2>1. Rewarding \/ Ending
    BY DEF EInv, Idle
  <2>2. ~Ending
    BY DEF Ending, MarketMessage
  <2> QED
    BY <2>1, <2>2
<1>2. PICK calls \in Seq(CustodyCall), b \in Nat :
        queue = calls \o <<UpdateMessage(b, received)>>
  BY <1>1 DEF Rewarding
<1>3. calls # <<>>
  <2> SUFFICES ASSUME calls = <<>> PROVE FALSE
    OBVIOUS
  <2>1. Head(queue) = UpdateMessage(b, received)
    BY <1>2, SMT
  <2> QED
    BY <2>1 DEF UpdateMessage
<1>4. Head(queue) = Head(calls) /\ Head(calls) \in CustodyCall
  BY <1>2, <1>3, EmptySeq, LastStays
<1> QED
  BY <1>1, <1>4

\* What arrives is counted as income and as held.
LEMMA CountedMore ==
  ASSUME NEW a \in Nat, NEW h \in Nat, NEW b \in Nat, NEW i \in Nat, NEW n \in Nat,
         b <= h, Counted(a, h, b, i)
  PROVE  b <= h + n /\ Counted(a, h + n, b, i + n)
<1>1. i <= a + h - b => i + n <= a + (h + n) - b
  BY SMT
<1>2. i = a + h - b => i + n = a + (h + n) - b
  BY SMT
<1>3. b <= h + n
  BY SMT
<1> QED
  BY <1>1, <1>2, <1>3 DEF Counted

\* A call of a custody contract: it returns calls of its own, and what the
\* overseer receives is income.
LEMMA CallRuns ==
  ASSUME EInv, queue # <<>>,
         Head(queue).type \notin {"update_epoch_state", "market_epoch"},
         NEW more \in Seq(CustodyCall), queue' = more \o Tail(queue),
         coins' \in Purses, other' \in [Custodies -> [Denoms -> Nat]],
         claimable' \in [Custodies -> Reward],
         NEW n \in Nat, coins'[Overseer] = coins[Overseer] + n, income' = income + n,
         UNCHANGED <<mvars, overseer_config, epoch_state, whitelist, received,
                     accrued_buffers, saved, burned>>
  PROVE  EInv'
<1>1. /\ Rewarding /\ IInv /\ EpochTypeOK /\ BurnsSeen /\ config.registered
      /\ Settled(saved.coins[Overseer], saved.income, saved.epoch_state,
                 saved.accrued_buffers)
  BY HeadIsCall DEF EInv, Idle
<1>2. PICK calls \in Seq(CustodyCall), b \in Nat :
        /\ queue = calls \o <<UpdateMessage(b, received)>>
        /\ b <= coins[Overseer]
        /\ Counted(accrued_buffers, coins[Overseer], b, income)
  BY <1>1 DEF Rewarding
<1>3. calls # <<>>
  <2> SUFFICES ASSUME calls = <<>> PROVE FALSE
    OBVIOUS
  <2>1. Head(queue) = UpdateMessage(b, received)
    BY <1>2, SMT
  <2> QED
    BY <2>1 DEF UpdateMessage
<1> DEFINE rest == more \o Tail(calls)
<1>4. /\ rest \in Seq(CustodyCall)
      /\ queue' = rest \o <<UpdateMessage(b, received)>>
  <2> DEFINE last == UpdateMessage(b, received)
  <2>1. queue = calls \o <<last>>
    BY <1>2
  <2> HIDE DEF last
  <2>2. /\ rest \in Seq(CustodyCall)
        /\ more \o Tail(calls \o <<last>>) = rest \o <<last>>
    BY SMTT(30), <1>3, LastStays
  <2> QED
    BY <2>1, <2>2 DEF last
<1> HIDE DEF rest
<1>5. queue' # <<>>
  BY <1>4, SMT
<1>6. coins[Overseer] \in Nat /\ income \in Nat /\ accrued_buffers \in Nat
  BY <1>1, StoreTypes
<1>7. b <= coins'[Overseer] /\ Counted(accrued_buffers', coins'[Overseer], b, income')
  <2>1. b <= coins[Overseer] + n /\ Counted(accrued_buffers, coins[Overseer] + n, b, income + n)
    BY <1>2, <1>6, CountedMore
  <2> QED
    BY <2>1
<1>8. Rewarding'
  <2>1. epoch_state' = saved'.epoch_state /\ blocks' > 0 /\ received' = received
    BY <1>1 DEF Rewarding, blocks, mvars
  <2>2. CanComputeInterest(bank, target)' /\ (current_rate >= epoch_state.prev_exchange_rate)'
    BY <1>1, RateStays DEF Rewarding
  <2> QED
    BY <2>1, <2>2, <1>4, <1>7 DEF Rewarding, UpdateMessage, Counted
<1>9. EpochTypeOK'
  <2>1. income' \in Nat /\ accrued_buffers' \in Nat /\ epoch_state' \in EpochState
    BY <1>1, <1>6, StoreTypes, SMT
  <2>2. present' \in Stores
    BY <2>1, PresentTyped
  <2>3. saved \in Stores /\ saved # None
    BY <1>1 DEF EpochTypeOK, Idle
  <2> QED
    BY <1>1, <1>5, <2>2, <2>3 DEF EpochTypeOK, Idle
<1>10. /\ IInv' /\ BurnsSeen' /\ config'.registered
       /\ Settled(saved.coins[Overseer], saved.income, saved.epoch_state,
                  saved.accrued_buffers)'
  BY <1>1, MarketStays DEF mvars, Settled, Counted
<1> QED
  BY <1>5, <1>8, <1>9, <1>10 DEF EInv, Idle

LEMMA RewardTypes ==
  ASSUME NEW r \in Reward, NEW d \in Denoms
  PROVE  r.stable \in Nat /\ r.other \in [Denoms -> Nat] /\ r.other[d] \in Nat
  BY DEF Reward

LEMMA CustodyMessageGood ==
  ASSUME EInv, CustodyMessage
  PROVE  EInv'
<1> DEFINE m == Head(queue)
           c == m.custody
<1>1. /\ queue # <<>>
      /\ m.type \notin {"update_epoch_state", "market_epoch"}
  BY DEF CustodyMessage, DistributionMessage, distribute_rewards,
     claim_staking_rewards, swap_to_stable_denom, swap, distribute_hook, Current
<1>2. m \in CustodyCall
  BY <1>1, HeadIsCall
<1>3. c \in Custodies /\ (m.type = "swap" => m.denom \in Denoms)
  BY <1>2 DEF CustodyCall
<1>4. EpochTypeOK
  BY DEF EInv
<1>5. /\ coins \in Purses /\ other \in [Custodies -> [Denoms -> Nat]]
      /\ claimable \in [Custodies -> Reward] /\ income \in Nat
      /\ coins[Overseer] \in Nat /\ coins[c] \in Nat /\ claimable[c] \in Reward
      /\ c # Overseer
  BY <1>3, <1>4, StoreTypes, DistributionAssumption DEF Purses
<1>6. UNCHANGED <<mvars, overseer_config, epoch_state, whitelist, received,
                  accrued_buffers, saved, burned>>
  BY DEF CustodyMessage
<1>7. <<>> \in Seq(CustodyCall)
  BY EmptySeq
<1> HIDE DEF m, c
<1>8. ASSUME UNCHANGED <<coins, other, claimable, income>>, NEW more \in Seq(CustodyCall),
             queue' = more \o Tail(queue)
      PROVE  EInv'
  <2>1. coins'[Overseer] = coins[Overseer] + 0 /\ income' = income + 0
    BY <1>5, <1>8, SMT
  <2> QED
    BY <2>1, <1>1, <1>5, <1>6, <1>8, CallRuns DEF m
<1>9. CASE distribute_rewards
  BY <1>3, <1>8, <1>9, AskCalls DEF distribute_rewards, Then, dvars, m, c
<1>10. CASE claim_staking_rewards
  <2>1. /\ coins' = [coins EXCEPT ![c] = @ + claimable[c].stable]
        /\ other' = [other EXCEPT ![c] = [d \in Denoms |-> @[d] + claimable[c].other[d]]]
        /\ claimable' = [claimable EXCEPT ![c] = Nothing]
        /\ queue' = <<>> \o Tail(queue) /\ income' = income
    BY <1>10 DEF claim_staking_rewards, Then, m, c
  <2>2. claimable[c].stable \in Nat /\ coins[c] + claimable[c].stable \in Nat
    BY <1>5, SMT DEF Reward
  <2>3. coins' \in Purses /\ coins'[Overseer] = coins[Overseer]
    BY <1>3, <1>5, <2>1, <2>2 DEF Purses
  <2>4. other' \in [Custodies -> [Denoms -> Nat]]
    <3>1. ASSUME NEW d \in Denoms PROVE other[c][d] + claimable[c].other[d] \in Nat
      <4>1. other[c][d] \in Nat /\ claimable[c].other[d] \in Nat
        BY <1>3, <1>5, RewardTypes
      <4> QED
        BY <4>1, SMT
    <3>2. [d \in Denoms |-> other[c][d] + claimable[c].other[d]] \in [Denoms -> Nat]
      BY <3>1
    <3> QED
      BY <3>2, <1>3, <1>5, <2>1
  <2>5. claimable' \in [Custodies -> Reward]
    <3>1. Nothing \in Reward
      BY DEF Nothing, Reward
    <3> QED
      BY <3>1, <1>5, <2>1
  <2>6. coins'[Overseer] = coins[Overseer] + 0 /\ income' = income + 0
    BY <1>5, <2>1, <2>3, SMT
  <2> QED
    BY <2>1, <2>3, <2>4, <2>5, <2>6, <1>1, <1>6, <1>7, CallRuns DEF m
<1>11. CASE swap_to_stable_denom
  <2> DEFINE D == {d \in Denoms : other[c][d] > 0}
             held == SetToSeq(D)
             calls == [i \in DOMAIN held |-> [type |-> "swap", custody |-> c,
                                              denom |-> held[i]]]
  <2>1. queue' = calls \o Tail(queue) /\ UNCHANGED <<coins, other, claimable, income>>
    BY <1>11 DEF swap_to_stable_denom, Then, dvars, m, c
  <2>2. held \in Seq(D) /\ Seq(D) \subseteq Seq(Denoms)
    <3>1. IsFiniteSet(D)
      BY DistributionAssumption, FS_Subset
    <3> QED
      BY <3>1, SetAsSeq, SeqMonotonic
  <2>3. held \in Seq(Denoms)
    BY <2>2
  <2> HIDE DEF held
  <2>4. calls \in Seq(CustodyCall)
    BY <1>3, <2>3, SwapCalls
  <2> QED
    BY <1>8, <2>1, <2>4
<1>12. CASE swap
  <2> DEFINE d == m.denom
  <2>1. PICK r \in SwapRates :
          /\ coins' = [coins EXCEPT ![c] = @ + UintMulDec(other[c][d], r)]
          /\ other' = [other EXCEPT ![c][d] = 0]
    BY <1>12 DEF swap, m, c
  <2>2. /\ queue' = <<>> \o Tail(queue) /\ UNCHANGED <<claimable, income>>
        /\ d \in Denoms
    BY <1>3, <1>12 DEF swap, Then, Current, m
  <2> HIDE DEF d
  <2>3. UintMulDec(other[c][d], r) \in Nat
    <3>1. other[c][d] \in Nat /\ r \in Nat
      BY <1>3, <1>5, <2>2, DistributionAssumption
    <3> QED
      BY <3>1, UintMulDecBound
  <2>4. coins[c] + UintMulDec(other[c][d], r) \in Nat
    BY <1>5, <2>3, SMT
  <2>5. coins' \in Purses /\ coins'[Overseer] = coins[Overseer]
    BY <1>3, <1>5, <2>1, <2>4 DEF Purses
  <2>6. other' \in [Custodies -> [Denoms -> Nat]]
    BY <1>3, <1>5, <2>1, <2>2
  <2>7. coins'[Overseer] = coins[Overseer] + 0 /\ income' = income + 0
    BY <1>5, <2>2, <2>5, SMT
  <2> QED
    BY <2>2, <2>5, <2>6, <2>7, <1>1, <1>5, <1>6, <1>7, CallRuns DEF m
<1>13. CASE distribute_hook
  <2> DEFINE n == coins[c]
  <2>1. /\ coins' = [coins EXCEPT ![c] = @ - Outlay(n), ![Overseer] = @ + deduct_tax(n)]
        /\ income' = income + deduct_tax(n)
        /\ queue' = <<>> \o Tail(queue) /\ UNCHANGED <<other, claimable>>
    BY <1>13 DEF distribute_hook, Then, m, c
  <2>2. n \in Nat
    BY <1>5
  <2>3. Outlay(n) \in Nat /\ Outlay(n) <= n /\ deduct_tax(n) \in Nat
    BY <2>2, OutlayBound
  <2>4. coins[c] - Outlay(n) \in Nat /\ coins[Overseer] + deduct_tax(n) \in Nat
    BY <1>5, <2>3, SMT
  <2> HIDE DEF n
  <2>5. coins' \in Purses /\ coins'[Overseer] = coins[Overseer] + deduct_tax(n)
    BY <1>3, <1>5, <2>1, <2>4 DEF Purses
  <2> QED
    BY <2>1, <2>3, <2>5, <1>1, <1>5, <1>6, <1>7, CallRuns DEF m
<1> QED
  BY <1>9, <1>10, <1>11, <1>12, <1>13 DEF CustodyMessage, DistributionMessage

\* The overseer's own message comes up when no call is left, and then the
\* balance of the market, as the overseer has it, is what it was at the start.
LEMMA UpdateIsLast ==
  ASSUME EInv, Current("update_epoch_state")
  PROVE  /\ Rewarding
         /\ \E b \in Nat :
              /\ Head(queue) = UpdateMessage(b, received)
              /\ Tail(queue) = <<>>
              /\ b <= coins[Overseer]
              /\ Counted(accrued_buffers, coins[Overseer], b, income)
         /\ Head(queue).distributed_interest = received
         /\ market_balance(Head(queue)) = bank
<1>1. Rewarding
  <2>1. Rewarding \/ Ending
    BY DEF EInv, Current, Idle
  <2>2. ~Ending
    BY DEF Ending, MarketMessage, Current
  <2> QED
    BY <2>1, <2>2
<1>2. PICK calls \in Seq(CustodyCall), b \in Nat :
        /\ queue = calls \o <<UpdateMessage(b, received)>>
        /\ b <= coins[Overseer]
        /\ Counted(accrued_buffers, coins[Overseer], b, income)
  BY <1>1 DEF Rewarding
<1>3. calls = <<>>
  <2> SUFFICES ASSUME calls # <<>> PROVE FALSE
    OBVIOUS
  <2>1. Head(queue) = Head(calls) /\ Head(calls) \in CustodyCall
    BY <1>2, EmptySeq, LastStays
  <2> QED
    BY <2>1 DEF Current, CustodyCall
<1>4. Head(queue) = UpdateMessage(b, received) /\ Tail(queue) = <<>>
  BY <1>2, <1>3, SMT
<1>5. Head(queue).distributed_interest = received
  BY <1>4 DEF UpdateMessage
<1>6. market_balance(Head(queue)) = bank
  BY <1>5, SMT DEF market_balance, EInv, EpochTypeOK, IInv, TypeOK
<1> QED
  BY <1>1, <1>2, <1>4, <1>5, <1>6

LEMMA UpdateGood ==
  ASSUME EInv, update_epoch_state
  PROVE  EInv'
<1>1. Current("update_epoch_state") /\ can_update_epoch_state(Head(queue))
  BY DEF update_epoch_state
<1>2. /\ Rewarding /\ IInv /\ EpochTypeOK /\ BurnsSeen /\ config.registered
      /\ Settled(saved.coins[Overseer], saved.income, saved.epoch_state,
                 saved.accrued_buffers)
  BY <1>1, UpdateIsLast DEF EInv, Current, Idle
<1>3. PICK b \in Nat : /\ Head(queue) = UpdateMessage(b, received)
                       /\ Tail(queue) = <<>>
                       /\ b <= coins[Overseer]
                       /\ Counted(accrued_buffers, coins[Overseer], b, income)
  BY <1>1, UpdateIsLast
<1> DEFINE m == Head(queue)
           rate == query_epoch_state(height, bank, received, target)
           deposit == deposit_rate_at(rate)
<1>4. m.interest_buffer = b /\ m.distributed_interest = received /\ market_balance(m) = bank
  BY <1>1, <1>3, UpdateIsLast DEF UpdateMessage
<1>5. new_rate(m) = rate
  BY <1>4 DEF new_rate
<1>6. /\ epoch_state' = [last_executed_height |-> height, prev_aterra_supply |-> aterra_supply,
                         prev_exchange_rate |-> rate, prev_interest_buffer |-> b,
                         deposit_rate |-> deposit]
      /\ queue' = <<MarketMessage(deposit, received)>> \o Tail(queue)
      /\ UNCHANGED <<mvars, dvars, overseer_config, whitelist, received,
                     accrued_buffers, saved, burned>>
  BY <1>4, <1>5 DEF update_epoch_state, Then, rate_stored, buffer_stored
<1>7. /\ rate \in Nat /\ received \in Nat /\ target \in Nat
      /\ rate >= epoch_state.prev_exchange_rate
  BY <1>1, <1>2, <1>5, ConfigTypes, EpochRateGood
     DEF EpochTypeOK, Rewarding, can_update_epoch_state
<1>8. /\ One <= epoch_state.prev_exchange_rate /\ epoch_state \in EpochState
      /\ epoch_state.prev_exchange_rate \in Nat
      /\ blocks \in Nat /\ blocks > 0 /\ height \in Nat /\ aterra_supply \in Nat
  <2>1. epoch_state \in EpochState /\ One <= epoch_state.prev_exchange_rate /\ blocks > 0
    BY <1>2, StoreTypes DEF Rewarding, Settled
  <2>2. height \in Nat /\ aterra_supply \in Nat
    BY <1>2 DEF IInv, TypeOK
  <2> QED
    BY <2>1, <2>2, SMT DEF EpochState, blocks
<1>9. deposit \in Nat
  BY <1>7, <1>8, DepositRateNat, SMT
<1>10. One <= rate
  BY <1>7, <1>8, ScaleAssumption, SMT DEF One
<1> HIDE DEF m, rate, deposit
<1>11. epoch_state' \in EpochState
  BY <1>6, <1>7, <1>8, <1>9 DEF EpochState
<1>12. queue' = <<MarketMessage(deposit, received)>>
  <2> DEFINE last == MarketMessage(deposit, received)
  <2>1. queue' = <<last>> \o <<>>
    BY <1>3, <1>6
  <2> HIDE DEF last
  <2>2. <<last>> \in Seq({last})
    BY SMT
  <2>3. queue' = <<last>>
    BY <2>1, <2>2, ConcatEmptySeq
  <2> QED
    BY <2>3 DEF last
<1>13. EpochTypeOK'
  <2>1. present' \in Stores
    BY <1>2, <1>6, <1>11, StoreTypes, PresentTyped DEF Purses, dvars
  <2>2. queue' # <<>>
    BY <1>12
  <2>3. saved \in Stores /\ saved # None
    BY <1>1, <1>2 DEF EpochTypeOK, Idle, Current
  <2> QED
    BY <1>2, <1>6, <2>1, <2>2, <2>3 DEF EpochTypeOK, Idle
<1>14. Ending'
  <2>1. MarketMessage(epoch_state.deposit_rate, received)' = MarketMessage(deposit, received)
    BY <1>6 DEF MarketMessage, target
  <2>2. query_epoch_state(height, bank, received, target)' = rate
    BY <1>6 DEF query_epoch_state, borrow_rate, target, mvars, rate
  <2>3. coins' = coins /\ income' = income /\ accrued_buffers' = accrued_buffers
        /\ height' = height
    BY <1>6 DEF dvars, mvars
  <2>4. CanComputeInterest(bank, target)'
    BY <1>2, <1>6, RateStays DEF Rewarding
  <2> QED
    BY <1>3, <1>6, <1>10, <1>12, <2>1, <2>2, <2>3, <2>4 DEF Ending, Counted
<1>15. /\ IInv' /\ BurnsSeen' /\ config'.registered
       /\ Settled(saved.coins[Overseer], saved.income, saved.epoch_state,
                  saved.accrued_buffers)'
  BY <1>2, <1>6, MarketStays DEF mvars, Settled, Counted
<1> QED
  BY <1>12, <1>13, <1>14, <1>15 DEF EInv, Idle

\* The market's message comes last, and tells it what there is to tell.
LEMMA MarketMessageIsLast ==
  ASSUME EInv, Current("market_epoch")
  PROVE  /\ Ending
         /\ Head(queue) = MarketMessage(epoch_state.deposit_rate, received)
         /\ Tail(queue) = <<>>
         /\ market_balance(Head(queue)) = bank
<1>1. Ending
  <2>1. Rewarding \/ Ending
    BY DEF EInv, Current, Idle
  <2>2. ASSUME Rewarding PROVE FALSE
    <3>1. PICK calls \in Seq(CustodyCall), b \in Nat :
            queue = calls \o <<UpdateMessage(b, received)>>
      BY <2>2 DEF Rewarding
    <3>2. CASE calls = <<>>
      <4>1. Head(queue) = UpdateMessage(b, received)
        BY <3>1, <3>2, SMT
      <4> QED
        BY <4>1 DEF UpdateMessage, Current
    <3>3. CASE calls # <<>>
      <4>1. Head(queue) = Head(calls) /\ Head(calls) \in CustodyCall
        BY <3>1, <3>3, EmptySeq, LastStays
      <4> QED
        BY <4>1 DEF Current, CustodyCall
    <3> QED
      BY <3>2, <3>3
  <2> QED
    BY <2>1, <2>2
<1>2. /\ Head(queue) = MarketMessage(epoch_state.deposit_rate, received)
      /\ Tail(queue) = <<>>
  BY <1>1, SMT DEF Ending
<1>3. Head(queue).distributed_interest = received
  BY <1>2 DEF MarketMessage
<1>4. market_balance(Head(queue)) = bank
  BY <1>3, SMT DEF market_balance, EInv, EpochTypeOK, IInv, TypeOK
<1> QED
  BY <1>1, <1>2, <1>4

\* To the market it is an epoch like any other.
LEMMA MarketEpochIsEpoch ==
  ASSUME EInv, market_epoch
  PROVE  /\ execute_epoch_operations(bank, epoch_state.deposit_rate, target,
              overseer_config.threshold_deposit_rate, received)
         /\ coins' = [coins EXCEPT ![Collector] = @ +
                        deduct_tax(epoch_reserves(bank, received, target))]
         /\ queue' = <<>>
<1>1. Current("market_epoch")
  BY DEF market_epoch
<1> DEFINE m == Head(queue)
<1>2. /\ m = MarketMessage(epoch_state.deposit_rate, received)
      /\ Tail(queue) = <<>> /\ market_balance(m) = bank
  BY <1>1, MarketMessageIsLast
<1>3. /\ m.deposit_rate = epoch_state.deposit_rate
      /\ m.target_deposit_rate = target
      /\ m.threshold_deposit_rate = overseer_config.threshold_deposit_rate
      /\ m.distributed_interest = received
  BY <1>2 DEF MarketMessage
<1>4. /\ execute_epoch_operations(market_balance(m), m.deposit_rate,
           m.target_deposit_rate, m.threshold_deposit_rate, m.distributed_interest)
      /\ coins' = [coins EXCEPT ![Collector] = @ +
           deduct_tax(epoch_reserves(market_balance(m), m.distributed_interest,
                                     m.target_deposit_rate))]
      /\ queue' = <<>> \o Tail(queue)
  BY DEF market_epoch, Then
<1>5. queue' = <<>>
  BY <1>2, <1>4, SMT
<1> HIDE DEF m
<1> QED
  BY <1>2, <1>3, <1>4, <1>5

LEMMA MarketEpochGood ==
  ASSUME EInv, market_epoch
  PROVE  EInv' /\ StepGood
<1> DEFINE d == received
           t == target
           st == epoch_interest(bank, d, t)
           paid == epoch_reserves(bank, d, t)
<1>1. /\ Ending /\ IInv /\ EpochTypeOK /\ CanComputeInterest(bank, t)
  BY MarketMessageIsLast DEF EInv, Ending, market_epoch
<1>2. /\ d \in Nat /\ t \in Nat /\ overseer_config.threshold_deposit_rate \in Nat
      /\ epoch_state \in EpochState /\ epoch_state.deposit_rate \in Nat
      /\ coins \in Purses /\ coins[Overseer] \in Nat /\ coins[Collector] \in Nat
      /\ Overseer # Collector
  BY <1>1, ConfigTypes, StoreTypes
     DEF EpochTypeOK, EpochState, Purses, Overseer, Collector
<1>3. StepGood
  BY <1>1, <1>2, MarketEpochIsEpoch, EpochOperationsGood
<1>4. /\ coins' = [coins EXCEPT ![Collector] = @ + deduct_tax(paid)]
      /\ queue' = <<>> /\ received' = 0 /\ saved' = None /\ burned' = (ahead' > 0)
      /\ UNCHANGED <<other, claimable, income, overseer_config, epoch_state, whitelist,
                     accrued_buffers>>
  BY MarketEpochIsEpoch DEF market_epoch
<1>5. st \in MarketState
  BY <1>1, <1>2, EpochInterestGood DEF StateGood
<1>6. /\ st.prev_exchange_rate = query_epoch_state(height, bank, d, t)
      /\ st.last_interest_updated = height
  <2>1. /\ compute_interest(bank, t) \in MarketState
        /\ compute_interest(bank, t).last_interest_updated >= height
        /\ compute_interest(bank, t).last_interest_updated <= height
    BY <1>1, <1>2, InterestMoves, AccruedGood DEF StateGood
  <2>2. compute_interest(bank, t).last_interest_updated = height
    BY <1>1, <2>1, SMT DEF MarketState, IInv, TypeOK
  <2> QED
    BY <1>1, <1>2, <2>2, EpochRateGood
<1>7. paid \in Nat
  <2>1. Trunc(st.total_reserves) \in Nat
    BY <1>5, ScaleAssumption, DivNat DEF Trunc, MarketState
  <2> QED
    BY <2>1 DEF epoch_reserves
<1>8. /\ state'.prev_exchange_rate = st.prev_exchange_rate
      /\ state'.last_interest_updated = st.last_interest_updated
      /\ height' = height
  BY <1>5, MarketEpochIsEpoch DEF execute_epoch_operations, MarketState
<1> HIDE DEF d, t, st, paid
<1>9. coins' \in Purses /\ coins'[Overseer] = coins[Overseer]
  <2>1. coins[Collector] + deduct_tax(paid) \in Nat
    BY <1>2, <1>7, OutlayBound, SMT
  <2> QED
    BY <2>1, <1>2, <1>4 DEF Purses
<1>10. EpochTypeOK'
  <2>1. present' \in Stores
    BY <1>1, <1>4, <1>9, StoreTypes, PresentTyped
  <2>2. received' \in Nat
    BY <1>4
  <2> QED
    BY <2>1, <2>2, <1>1, <1>4 DEF EpochTypeOK, Idle
<1>11. Settled(coins[Overseer], income, epoch_state, accrued_buffers)'
  <2>1. epoch_state.last_executed_height = state'.last_interest_updated
    BY <1>1, <1>6, <1>8 DEF Ending
  <2>2. epoch_state.prev_exchange_rate = state'.prev_exchange_rate
    BY <1>1, <1>6, <1>8 DEF Ending, d, t
  <2>3. epoch_state.last_executed_height \in Nat /\ epoch_state.prev_exchange_rate \in Nat
    BY <1>2 DEF EpochState
  <2>4. /\ One <= epoch_state.prev_exchange_rate
        /\ epoch_state.prev_interest_buffer <= coins[Overseer]
        /\ Counted(accrued_buffers, coins[Overseer],
                   epoch_state.prev_interest_buffer, income)
    BY <1>1 DEF Ending
  <2>5. epoch_state.last_executed_height <= state'.last_interest_updated
        /\ epoch_state.prev_exchange_rate <= state'.prev_exchange_rate
    BY <2>1, <2>2, <2>3, SMT
  <2> QED
    BY <2>2, <2>4, <2>5, <1>4, <1>9 DEF Settled, Counted
<1>12. BurnsSeen'
  <2> DEFINE unseen == ahead' > 0
  <2>1. burned' = unseen
    BY <1>4
  <2>2. unseen \in BOOLEAN
    BY SMT
  <2> HIDE DEF unseen
  <2>3. burned' \in BOOLEAN /\ (unseen => burned')
    BY <2>1, <2>2, Zenon
  <2> QED
    BY <2>3 DEF BurnsSeen, unseen
<1> QED
  BY <1>3, <1>4, <1>10, <1>11, <1>12 DEF EInv, Idle, StepGood

\* A transaction that fails leaves the overseer as it was before it.
LEMMA RevertGood ==
  ASSUME EInv, Revert
  PROVE  EInv'
<1>1. /\ IInv /\ EpochTypeOK /\ BurnsSeen /\ saved \in Stores
      /\ Settled(saved.coins[Overseer], saved.income, saved.epoch_state,
                 saved.accrued_buffers)
  BY DEF EInv, Revert, EpochTypeOK, Idle
<1>2. /\ coins' = saved.coins /\ other' = saved.other
      /\ claimable' = saved.claimable /\ income' = saved.income
      /\ epoch_state' = saved.epoch_state /\ accrued_buffers' = saved.accrued_buffers
      /\ queue' = <<>> /\ saved' = None /\ received' = 0
      /\ UNCHANGED <<mvars, overseer_config, whitelist, burned>>
  BY DEF Revert
<1>3. EpochTypeOK'
  <2>1. present' = saved
    BY <1>1, <1>2 DEF present, Stores
  <2> QED
    BY <2>1, <1>1, <1>2 DEF EpochTypeOK, Idle
<1>4. Settled(coins[Overseer], income, epoch_state, accrued_buffers)'
  BY <1>1, <1>2 DEF Settled, Counted, mvars
<1>5. IInv' /\ BurnsSeen'
  BY <1>1, <1>2, MarketStays
<1> QED
  BY <1>2, <1>3, <1>4, <1>5 DEF EInv, Idle

(***************************************************************************)
(* Between epochs                                                          *)
(***************************************************************************)
LEMMA WhitelistTyped ==
  ASSUME whitelist \in Seq(Custodies), NEW c \in Custodies
  PROVE  /\ \A i \in 1 .. Len(whitelist) + 1 : InsertAt(whitelist, i, c) \in Seq(Custodies)
         /\ \A i \in DOMAIN whitelist : [whitelist EXCEPT ![i] = c] \in Seq(Custodies)
<1> DEFINE w == whitelist
<1>1. /\ Len(w) \in Nat /\ DOMAIN w = 1 .. Len(w)
      /\ \A j \in 1 .. Len(w) : w[j] \in Custodies
  BY LenProperties
<1>2. ASSUME NEW i \in 1 .. Len(w) + 1 PROVE InsertAt(w, i, c) \in Seq(Custodies)
  <2>1. i \in Int /\ i - 1 \in Int /\ Len(w) \in Int /\ 1 \in Int
    BY <1>1, SMT
  <2>2. /\ \A j \in 1 .. i - 1 : w[j] \in Custodies
        /\ \A j \in i .. Len(w) : w[j] \in Custodies
    BY <1>1, SMT
  <2>3. SubSeq(w, 1, i - 1) \in Seq(Custodies) /\ SubSeq(w, i, Len(w)) \in Seq(Custodies)
    BY <2>1, <2>2, SubSeqProperties
  <2>4. <<c>> \in Seq(Custodies)
    BY SMT
  <2> QED
    BY <2>3, <2>4, ConcatProperties DEF InsertAt
<1>3. ASSUME NEW i \in DOMAIN w PROVE [w EXCEPT ![i] = c] \in Seq(Custodies)
  BY <1>1, ExceptSeq
<1> QED
  BY <1>2, <1>3

LEMMA OverseerGovernanceGood ==
  ASSUME EInv, OverseerGovernance
  PROVE  EInv'
<1>1. Idle /\ UNCHANGED <<mvars, dvars, epoch_state, received, accrued_buffers, queue,
                           saved, burned>>
  BY DEF OverseerGovernance
<1>2. /\ IInv /\ EpochTypeOK /\ BurnsSeen /\ received = 0
      /\ Settled(coins[Overseer], income, epoch_state, accrued_buffers)
  BY <1>1 DEF EInv
<1>3. overseer_config' \in OverseerConfigs /\ whitelist' \in Seq(Custodies)
  BY <1>2, WhitelistTyped DEF OverseerGovernance, overseer_update_config,
     overseer_migrate, register_whitelist, update_whitelist, EpochTypeOK
<1>4. EpochTypeOK'
  BY <1>1, <1>2, <1>3 DEF EpochTypeOK, Idle, present, dvars
<1>5. Settled(coins[Overseer], income, epoch_state, accrued_buffers)'
  BY <1>1, <1>2 DEF Settled, Counted, mvars, dvars
<1>6. IInv' /\ BurnsSeen'
  BY <1>1, <1>2, MarketStays
<1> QED
  BY <1>1, <1>2, <1>4, <1>5, <1>6 DEF EInv, Idle

LEMMA ArrivalsGood ==
  ASSUME EInv, Arrivals
  PROVE  EInv'
<1>1. Idle /\ UNCHANGED <<mvars, ovars, burned>>
  BY DEF Arrivals
<1>2. /\ IInv /\ EpochTypeOK /\ BurnsSeen /\ received = 0
      /\ Settled(coins[Overseer], income, epoch_state, accrued_buffers)
  BY <1>1 DEF EInv
<1>3. /\ coins \in Purses /\ other \in [Custodies -> [Denoms -> Nat]]
      /\ claimable \in [Custodies -> Reward] /\ income \in Nat
      /\ coins[Overseer] \in Nat /\ accrued_buffers \in Nat /\ epoch_state \in EpochState
      /\ epoch_state.prev_interest_buffer \in Nat
  BY <1>2, StoreTypes DEF Purses, EpochState
<1>4. \E n \in Nat :
        /\ coins' \in Purses /\ other' = other
        /\ claimable' \in [Custodies -> Reward]
        /\ coins'[Overseer] = coins[Overseer] + n /\ income' = income + n
  <2>1. ASSUME NEW c \in Custodies, NEW r \in Rewards, RewardsAccrue(c, r)
        PROVE  /\ coins' = coins /\ other' = other /\ income' = income
               /\ claimable' \in [Custodies -> Reward]
    <3>1. r \in Reward /\ claimable[c] \in Reward
      BY <1>3, EpochAssumption DEF Reward
    <3> DEFINE more == [d \in Denoms |-> claimable[c].other[d] + r.other[d]]
    <3>2. ASSUME NEW d \in Denoms PROVE claimable[c].other[d] + r.other[d] \in Nat
      BY <3>1, RewardTypes, SMT
    <3>3. more \in [Denoms -> Nat]
      BY <3>2
    <3>4. claimable[c].stable + r.stable \in Nat
      BY <3>1, SMT DEF Reward
    <3>5. claimable' = [claimable EXCEPT ![c] = [stable |-> claimable[c].stable + r.stable,
                                                 other |-> more]]
      BY <2>1 DEF RewardsAccrue
    <3> HIDE DEF more
    <3>6. [stable |-> claimable[c].stable + r.stable, other |-> more] \in Reward
      BY <3>3, <3>4 DEF Reward
    <3>7. claimable' \in [Custodies -> Reward]
      BY <1>3, <3>5, <3>6
    <3> QED
      BY <2>1, <3>7 DEF RewardsAccrue
  <2>2. ASSUME NEW a \in {Overseer} \cup Custodies, NEW n \in Fees, CoinsArrive(a, n)
        PROVE  \E k \in Nat :
                 /\ coins' \in Purses /\ other' = other
                 /\ claimable' \in [Custodies -> Reward]
                 /\ coins'[Overseer] = coins[Overseer] + k /\ income' = income + k
    <3>1. n \in Nat /\ coins[a] \in Nat
      BY <1>3, EpochAssumption DEF Purses
    <3>2. coins[a] + n \in Nat
      BY <3>1, SMT
    <3>3. coins' = [coins EXCEPT ![a] = coins[a] + n] /\ coins' \in Purses
      BY <1>3, <2>2, <3>2 DEF CoinsArrive, Purses
    <3>4. CASE a = Overseer
      BY <1>3, <2>2, <3>1, <3>3, <3>4 DEF CoinsArrive, Purses
    <3>5. CASE a # Overseer
      <4>1. coins'[Overseer] = coins[Overseer] /\ income' = income
        BY <1>3, <2>2, <3>3, <3>5 DEF CoinsArrive, Purses
      <4>2. coins[Overseer] = coins[Overseer] + 0 /\ income = income + 0
        BY <1>3, SMT
      <4> QED
        BY <1>3, <2>2, <3>3, <4>1, <4>2 DEF CoinsArrive
    <3> QED
      BY <3>4, <3>5
  <2>3. coins[Overseer] = coins[Overseer] + 0 /\ income = income + 0
    BY <1>3, SMT
  <2> QED
    BY <1>3, <2>1, <2>2, <2>3 DEF Arrivals
<1>5. PICK n \in Nat :
        /\ coins' \in Purses /\ other' = other
        /\ claimable' \in [Custodies -> Reward]
        /\ coins'[Overseer] = coins[Overseer] + n /\ income' = income + n
  BY <1>4
<1>6. EpochTypeOK'
  <2>1. income' \in Nat
    BY <1>3, <1>5, SMT
  <2>2. present' \in Stores
    BY <1>1, <1>3, <1>5, <2>1, PresentTyped DEF ovars
  <2> QED
    BY <1>1, <1>2, <2>2 DEF EpochTypeOK, Idle, ovars
<1>7. Settled(coins[Overseer], income, epoch_state, accrued_buffers)'
  <2>1. /\ epoch_state.prev_interest_buffer <= coins[Overseer] + n
        /\ Counted(accrued_buffers, coins[Overseer] + n,
                   epoch_state.prev_interest_buffer, income + n)
    BY <1>2, <1>3, CountedMore DEF Settled
  <2> QED
    BY <1>1, <1>2, <1>5, <2>1 DEF Settled, Counted, mvars, ovars
<1>8. IInv' /\ BurnsSeen'
  BY <1>1, <1>2, MarketStays
<1> QED
  BY <1>1, <1>2, <1>6, <1>7, <1>8 DEF EInv, Idle, ovars

LEMMA MarketCallGood ==
  ASSUME EInv, MarketCall
  PROVE  EInv'
<1>1. /\ Idle /\ UNCHANGED <<dvars, ovars>>
      /\ burned' = (burned \/ ahead' > ahead)
  BY DEF MarketCall
<1>2. /\ IInv /\ EpochTypeOK /\ BurnsSeen /\ received = 0
      /\ Settled(coins[Overseer], income, epoch_state, accrued_buffers)
  BY <1>1 DEF EInv
<1>3. target \in TargetRates /\ epoch_state \in EpochState
  BY <1>2, ConfigTypes, StoreTypes
<1>4. /\ IInv'
      /\ ahead = 0 => state'.prev_exchange_rate >= state.prev_exchange_rate
  BY <1>2, <1>3, MarketCallNext, StepIsGood DEF StepGood
<1>9. ahead \in Nat /\ ahead' \in Nat
  <2>1. ahead \in Nat
    BY <1>2, BeforeGood
  <2>2. ahead' \in Int /\ ahead' >= 0
    BY <1>4, MarketAssumption, SMT DEF IInv, TypeOK, ahead, MarketState
  <2> QED
    BY <2>1, <2>2, SMT
<1>10. BurnsSeen' /\ (~burned' => ~burned /\ ahead = 0)
  <2>1. ahead' > 0 => ahead > 0 \/ ahead' > ahead
    BY <1>9, SMT
  <2>2. ahead > 0 \/ ahead = 0
    BY <1>9, SMT
  <2> QED
    BY <1>1, <1>2, <2>1, <2>2, Zenon DEF BurnsSeen
<1>5. RateMovesWithInterest(state')
  BY <1>2, <1>3, MarketCallMoves
<1>6. /\ state \in MarketState /\ state' \in MarketState
  BY <1>2, <1>4 DEF IInv, TypeOK
<1>7. Settled(coins[Overseer], income, epoch_state, accrued_buffers)'
  <2> DEFINE e == epoch_state
  <2>1. /\ e.last_executed_height <= state'.last_interest_updated
        /\ ~burned' => e.prev_exchange_rate <= state'.prev_exchange_rate
    <3>1. e.last_executed_height <= state'.last_interest_updated
      BY <1>2, <1>3, <1>5, <1>6, SMT
         DEF Settled, RateMovesWithInterest, MarketState, EpochState
    <3>2. ASSUME ~burned' PROVE e.prev_exchange_rate <= state'.prev_exchange_rate
      <4>1. /\ e.prev_exchange_rate <= state.prev_exchange_rate
            /\ state'.prev_exchange_rate >= state.prev_exchange_rate
        BY <1>2, <1>4, <1>10, <3>2 DEF Settled
      <4> QED
        BY <1>3, <1>6, <4>1, SMT DEF MarketState, EpochState
    <3> QED
      BY <3>1, <3>2
  <2>2. e.last_executed_height = state'.last_interest_updated
          => e.prev_exchange_rate = state'.prev_exchange_rate
    BY <1>2, <1>3, <1>5, <1>6, SMT
       DEF Settled, RateMovesWithInterest, MarketState, EpochState
  <2> QED
    BY <1>1, <1>2, <2>1, <2>2 DEF Settled, Counted, dvars, ovars
<1>8. EpochTypeOK'
  BY <1>1, <1>2 DEF EpochTypeOK, Idle, present, dvars, ovars
<1> QED
  BY <1>1, <1>2, <1>4, <1>7, <1>8, <1>10 DEF EInv, Idle, ovars

(***************************************************************************)
(* The theorems                                                            *)
(***************************************************************************)
LEMMA EpochInitGood == EpochInit => EInv
<1> SUFFICES ASSUME EpochInit PROVE EInv
  OBVIOUS
<1>1. IInv /\ state.last_interest_updated = 0 /\ state.prev_exchange_rate = One
      /\ height = 0
  BY InitGood DEF EpochInit, Init
<1>2. /\ coins = [a \in {Overseer, Collector} \cup Custodies |-> 0]
      /\ other = [c \in Custodies |-> Nothing.other]
      /\ claimable = [c \in Custodies |-> Nothing]
      /\ income = 0 /\ received = 0 /\ accrued_buffers = 0
      /\ queue = <<>> /\ saved = None /\ whitelist = <<>> /\ burned = FALSE
      /\ overseer_config \in OverseerConfigs
      /\ epoch_state = [deposit_rate |-> 0, prev_aterra_supply |-> 0,
                        prev_interest_buffer |-> 0, prev_exchange_rate |-> One,
                        last_executed_height |-> height]
  BY DEF EpochInit, DistributionInit, OverseerInit
<1>3. One \in Nat
  BY ScaleAssumption DEF One
<1>4. Nothing \in Reward /\ Nothing.other \in [Denoms -> Nat]
  BY DEF Nothing, Reward
<1>5. epoch_state \in EpochState /\ coins[Overseer] = 0
  BY <1>1, <1>2, <1>3 DEF EpochState
<1>6. present \in Stores
  BY <1>2, <1>4, <1>5 DEF present, Stores
<1>7. EpochTypeOK
  BY <1>2, <1>6, EmptySeq DEF EpochTypeOK, Idle
<1>8. Settled(coins[Overseer], income, epoch_state, accrued_buffers)
  <2>1. /\ epoch_state.prev_exchange_rate = One /\ epoch_state.last_executed_height = 0
        /\ epoch_state.prev_interest_buffer = 0
    BY <1>1, <1>2
  <2> QED
    BY <1>1, <1>2, <1>3, <1>5, <2>1, SMT DEF Settled, Counted
<1>9. BurnsSeen
  <2>1. ahead = 0
    BY MarketAssumption, SMT DEF EpochInit, Init, ahead
  <2>2. ~(ahead > 0)
    BY <2>1, SMT
  <2> QED
    BY <1>2, <2>2 DEF BurnsSeen
<1> QED
  BY <1>1, <1>2, <1>7, <1>8, <1>9 DEF EInv, Idle

LEMMA EpochStepGood ==
  ASSUME EInv, [EpochNext]_evars
  PROVE  EInv' /\ StepGood
<1>1. IInv /\ EpochTypeOK /\ BurnsSeen
  BY DEF EInv
<1>2. ASSUME UNCHANGED mvars PROVE StepGood
  BY <1>1, <1>2, StepIsGood
<1>3. CASE overseer_execute_epoch_operations
  BY <1>2, <1>3, EpochBegins DEF overseer_execute_epoch_operations
<1>4. CASE OverseerGovernance
  BY <1>2, <1>4, OverseerGovernanceGood DEF OverseerGovernance
<1>5. CASE Arrivals
  BY <1>2, <1>5, ArrivalsGood DEF Arrivals
<1>6. CASE MarketCall
  BY <1>1, <1>6, ConfigTypes, MarketCallGood, MarketCallNext, StepIsGood
<1>7. CASE CustodyMessage
  BY <1>2, <1>7, CustodyMessageGood DEF CustodyMessage
<1>8. CASE update_epoch_state
  BY <1>2, <1>8, UpdateGood DEF update_epoch_state
<1>9. CASE market_epoch
  BY <1>9, MarketEpochGood
<1>10. CASE Revert
  BY <1>2, <1>10, RevertGood DEF Revert
<1>11. CASE UNCHANGED evars
  <2>1. /\ UNCHANGED mvars /\ UNCHANGED dvars /\ UNCHANGED ovars
        /\ UNCHANGED burned
    BY <1>11 DEF evars
  <2>2. IInv' /\ BurnsSeen' /\ StepGood
    BY <1>2, <2>1, <1>1, MarketStays
  <2>3. EpochTypeOK'
    BY <1>1, <2>1 DEF EpochTypeOK, Idle, present, dvars, ovars
  <2>4. (Idle <=> Idle') /\ queue' = queue /\ coins' = coins /\ income' = income
        /\ epoch_state' = epoch_state /\ accrued_buffers' = accrued_buffers
        /\ saved' = saved /\ received' = received /\ state' = state
        /\ config' = config /\ height' = height /\ overseer_config' = overseer_config
        /\ burned' = burned
    BY <2>1 DEF Idle, dvars, ovars, mvars
  <2>5. /\ Settled(coins[Overseer], income, epoch_state, accrued_buffers)'
             <=> Settled(coins[Overseer], income, epoch_state, accrued_buffers)
        /\ Settled(saved.coins[Overseer], saved.income, saved.epoch_state,
                   saved.accrued_buffers)'
             <=> Settled(saved.coins[Overseer], saved.income, saved.epoch_state,
                         saved.accrued_buffers)
    BY <2>4 DEF Settled, Counted
  <2>8. /\ CanComputeInterest(bank, target)' <=> CanComputeInterest(bank, target)
        /\ current_rate' = current_rate
    BY <2>1, <2>4, RateStays
  <2>6. Rewarding => Rewarding'
    BY <2>4, <2>8 DEF Rewarding, UpdateMessage, Counted, blocks
  <2>7. Ending => Ending'
    BY <2>1, <2>4, <2>8 DEF Ending, MarketMessage, Counted, query_epoch_state, borrow_rate,
       target, mvars
  <2> QED
    BY <2>2, <2>3, <2>4, <2>5, <2>6, <2>7 DEF EInv
<1> QED
  BY <1>3, <1>4, <1>5, <1>6, <1>7, <1>8, <1>9, <1>10, <1>11
     DEF EpochNext, Transaction, Message

\* EInv is an invariant of the composition.
THEOREM EpochInvariance == EpochSpec => []EInv
<1>1. EInv /\ [EpochNext]_evars => EInv'
  BY EpochStepGood
<1> QED
  BY <1>1, EpochInitGood, PTL DEF EpochSpec

\* No number of the overseer or of the custody contracts goes below zero, in
\* the middle of an epoch either.
THEOREM EpochTypesCorrect == EpochSpec => []EpochTypeOK
<1>1. EInv => EpochTypeOK
  BY DEF EInv
<1> QED
  BY <1>1, EpochInvariance, PTL

\* At any tax and any factors, the overseer holds the buffer it has recorded.
THEOREM BufferAlwaysHeld == EpochSpec => []BufferHeld
<1>1. EInv => BufferHeld
  BY DEF EInv, BufferHeld, Settled
<1> QED
  BY <1>1, EpochInvariance, PTL

\* The overseer's record of the exchange rate and the market's agree, and the
\* market's is the higher one as long as no holder has burned aTerra since.
THEOREM EpochAlwaysTracksMarket == EpochSpec => []EpochTracksMarket
<1>1. EInv => EpochTracksMarket
  <2> SUFFICES ASSUME EInv, Idle
               PROVE  /\ epoch_state.last_executed_height <= height
                      /\ ~burned => epoch_state.prev_exchange_rate <= state.prev_exchange_rate
                      /\ epoch_state.last_executed_height = state.last_interest_updated =>
                           epoch_state.prev_exchange_rate = state.prev_exchange_rate
    BY DEF EpochTracksMarket
  <2>1. /\ Settled(coins[Overseer], income, epoch_state, accrued_buffers)
        /\ state.last_interest_updated <= height /\ epoch_state \in EpochState
        /\ state \in MarketState /\ height \in Nat
    BY StoreTypes DEF EInv, IInv, TypeOK, IndexesOrdered
  <2>2. epoch_state.last_executed_height <= height
    BY <2>1, SMT DEF Settled, EpochState, MarketState
  <2> QED
    BY <2>1, <2>2 DEF Settled
<1> QED
  BY <1>1, EpochInvariance, PTL

\* Every coin of income is counted in one epoch.
THEOREM IncomeAlwaysCountedOnce == EpochSpec => []IncomeCountedOnce
<1>1. EInv => IncomeCountedOnce
  <2> SUFFICES ASSUME EInv, Idle
               PROVE  Counted(accrued_buffers, coins[Overseer],
                              epoch_state.prev_interest_buffer, income)
    BY DEF IncomeCountedOnce, Counted
  <2> QED
    BY DEF EInv, Settled
<1> QED
  BY <1>1, EpochInvariance, PTL

\* For the market a message of the overseer is an epoch of its own: it is told of
\* exactly the coins that arrived for it.
THEOREM EpochsAreTheMarkets == EpochSpec => ImplementsMarket
<1> DEFINE Step ==
      \/ Next
      \/ execute_epoch_operations(bank, epoch_state.deposit_rate, target,
           overseer_config.threshold_deposit_rate, received)
<1>1. EInv /\ [EpochNext]_evars => [Step]_mvars
  <2> SUFFICES ASSUME EInv, [EpochNext]_evars PROVE Step \/ UNCHANGED mvars
    OBVIOUS
  <2>1. CASE MarketCall
    BY <2>1, ConfigTypes, MarketCallNext DEF EInv
  <2>2. CASE market_epoch
    BY <2>2, MarketEpochIsEpoch
  <2>3. CASE overseer_execute_epoch_operations
    BY <2>3 DEF overseer_execute_epoch_operations
  <2>4. CASE OverseerGovernance \/ Arrivals
    BY <2>4 DEF OverseerGovernance, Arrivals
  <2>5. CASE CustodyMessage \/ update_epoch_state
    BY <2>5 DEF CustodyMessage, update_epoch_state
  <2>6. CASE Revert
    BY <2>6 DEF Revert
  <2>7. CASE UNCHANGED evars
    BY <2>7 DEF evars
  <2> HIDE DEF Step
  <2> QED
    BY <2>1, <2>2, <2>3, <2>4, <2>5, <2>6, <2>7 DEF EpochNext, Transaction, Message
<1> QED
  BY <1>1, EpochInvariance, PTL DEF EpochSpec, ImplementsMarket

\* What is proved of the market alone holds of it under the overseer's epochs,
\* with holders that burn aTerra between them.
THEOREM MarketSafeInEpochs ==
  EpochSpec => /\ []RateBacked /\ PrevSupplyTracks
               /\ ExchangeRateNeverFalls /\ PaymentsSpareReserves
<1>1. EInv => RateBacked
  BY DEF EInv, IInv
<1>2. EInv /\ [EpochNext]_evars
        => /\ [\/ ahead' \in {ahead, 0}
               \/ ahead' > ahead /\ UNCHANGED <<state, bank>>]_mvars
           /\ [ahead = 0 => state'.prev_exchange_rate >= state.prev_exchange_rate]_mvars
           /\ [bank' < bank => FromUint(bank') >= state'.total_reserves]_mvars
  BY EpochStepGood DEF StepGood
<1>3. EpochInit => ahead = 0
  BY MarketAssumption, SMT DEF EpochInit, Init, ahead
<1> QED
  BY <1>1, <1>2, <1>3, EpochInvariance, PTL
     DEF EpochSpec, PrevSupplyTracks, ExchangeRateNeverFalls, PaymentsSpareReserves

\* A factor of at most one takes at most everything.
LEMMA ShareBound ==
  ASSUME NEW n \in Nat, NEW f \in Nat, f <= One
  PROVE  UintMulDec(n, f) \in Nat /\ UintMulDec(n, f) <= n
<1>1. UintMulDec(n, f) \in Nat /\ UintMulDec(n, f) * Scale <= n * f
  BY UintMulDecBound
<1>2. n * f <= n * Scale
  BY ScaleAssumption, MulMono, SMT DEF One
<1>3. UintMulDec(n, f) * Scale <= n * Scale
  BY <1>1, <1>2, ScaleAssumption, SMT
<1> QED
  BY <1>1, <1>3, ScaleAssumption, MulCancel

\* What the handler of an epoch subtracts is there.
LEMMA EpochComputable ==
  ASSUME EInv, Idle, config.registered, Moderate, ~burned, blocks > 0
  PROVE  epoch_computable
<1>1. /\ IInv /\ EpochTypeOK
      /\ Settled(coins[Overseer], income, epoch_state, accrued_buffers)
  BY DEF EInv
<1>2. /\ coins[Overseer] \in Nat /\ epoch_state \in EpochState
      /\ epoch_state.prev_interest_buffer \in Nat /\ epoch_state.prev_exchange_rate \in Nat
      /\ state \in MarketState /\ state.prev_exchange_rate \in Nat /\ height \in Nat
  BY <1>1, StoreTypes DEF EpochState, IInv, TypeOK, MarketState
<1>3. blocks \in Nat
  BY <1>2, SMT DEF blocks, EpochState
<1>13. ahead = 0 /\ state.prev_exchange_rate > 0
  <2>1. ~(ahead > 0) /\ ahead \in Nat
    BY <1>1, BeforeGood DEF EInv, BurnsSeen
  <2>2. /\ One <= epoch_state.prev_exchange_rate
        /\ epoch_state.prev_exchange_rate <= state.prev_exchange_rate
    BY <1>1 DEF Settled
  <2> QED
    BY <1>2, <2>1, <2>2, ScaleAssumption, SMT DEF One
<1>14. CanComputeInterest(bank, target)
  <2>1. InterestNeverStuck /\ Undisturbed
    BY <1>1, <1>13, NeverStuck DEF Undisturbed
  <2>2. height \in height .. height + 2 /\ target \in TargetRates
    BY <1>1, <1>2, ConfigTypes, SMT
  <2> QED
    BY <2>1, <2>2 DEF InterestNeverStuck, CanComputeInterest
<1>4. /\ can_query_epoch_state(height, bank, 0, target)
      /\ current_rate \in Nat /\ current_rate >= state.prev_exchange_rate
  BY <1>1, <1>13, <1>14, ConfigTypes, EpochRateGood DEF current_rate
<1>5. current_rate >= epoch_state.prev_exchange_rate
  BY <1>1, <1>2, <1>4, SMT DEF Settled
<1>6. accrued_buffer \in Nat /\ accrued_buffer <= coins[Overseer]
  BY <1>1, <1>2, SMT DEF accrued_buffer, Settled
<1>7. anc_purchase_amount \in Nat /\ anc_purchase_amount <= accrued_buffer
  BY <1>1, <1>6, ConfigTypes, ShareBound DEF Moderate, anc_purchase_amount
<1>8. coins[Overseer] - anc_purchase_amount \in Nat
  BY <1>2, <1>6, <1>7, SMT
<1>9. /\ distribution_buffer \in Nat
      /\ distribution_buffer <= coins[Overseer] - anc_purchase_amount
  BY <1>1, <1>8, ConfigTypes, ShareBound DEF Moderate, distribution_buffer
<1>10. deposit_rate_at(current_rate) < overseer_config.threshold_deposit_rate
         => missing_deposits \in Nat
  BY <1>1, <1>3, <1>5, <1>14, MissingNat DEF Settled
<1>11. distribution \in Nat /\ distribution <= coins[Overseer] - anc_purchase_amount
  BY <1>8, <1>9, <1>10, SMT DEF distribution, Lesser
<1>12. coins[Overseer] >= anc_purchase_amount /\ buffer_left >= 0
  BY <1>2, <1>6, <1>7, <1>11, SMT DEF buffer_left
<1> QED
  BY <1>4, <1>5, <1>6, <1>12, SMT DEF epoch_computable

\* As long as its two factors do not exceed one and no holder burns aTerra, no
\* subtraction of the overseer stops an epoch, whatever the market and the custody
\* contracts do; and none stops one that has begun, whatever was burned before.
THEOREM EpochNeverGetsStuck == EpochSpec => []EpochNeverPanics
<1>1. EInv => EpochNeverPanics
  <2> SUFFICES ASSUME EInv PROVE EpochNeverPanics
    OBVIOUS
  <2>1. Idle /\ config.registered /\ Moderate /\ ~burned /\ blocks > 0
          => epoch_computable
    BY EpochComputable
  <2>2. ASSUME Current("update_epoch_state")
        PROVE  can_update_epoch_state(Head(queue))
    <3> DEFINE m == Head(queue)
    <3>1. /\ Rewarding /\ m.distributed_interest = received /\ market_balance(m) = bank
      BY <2>2, UpdateIsLast
    <3>2. /\ IInv /\ EpochTypeOK /\ config.registered /\ blocks > 0
          /\ CanComputeInterest(bank, target)
          /\ current_rate >= epoch_state.prev_exchange_rate
      BY <2>2, <3>1 DEF EInv, Idle, Current, Rewarding
    <3>3. /\ epoch_state.prev_exchange_rate \in Nat /\ 0 \in Nat
          /\ received \in Nat
      BY <3>2, StoreTypes DEF EpochState, EpochTypeOK
    <3>4. /\ can_query_epoch_state(height, bank, received, target)
          /\ query_epoch_state(height, bank, received, target) \in Nat
          /\ current_rate \in Nat
          /\ query_epoch_state(height, bank, received, target) >= current_rate
      BY <3>2, <3>3, ConfigTypes, EpochRateGood DEF current_rate
    <3> HIDE DEF m
    <3>5. new_rate(m) >= epoch_state.prev_exchange_rate
      BY <3>1, <3>2, <3>3, <3>4, SMT DEF new_rate
    <3> QED
      BY <3>1, <3>2, <3>4, <3>5 DEF can_update_epoch_state, m
  <2>3. ASSUME Current("market_epoch")
        PROVE  can_query_epoch_state(height, market_balance(Head(queue)),
                 Head(queue).distributed_interest, Head(queue).target_deposit_rate)
    <3> DEFINE m == Head(queue)
    <3>1. /\ m = MarketMessage(epoch_state.deposit_rate, received)
          /\ market_balance(m) = bank
      BY <2>3, MarketMessageIsLast
    <3>2. m.distributed_interest = received /\ m.target_deposit_rate = target
      BY <3>1 DEF MarketMessage
    <3>3. /\ IInv /\ EpochTypeOK /\ config.registered /\ received \in Nat
          /\ CanComputeInterest(bank, target)
      BY <2>3, MarketMessageIsLast DEF EInv, Ending, Idle, Current, EpochTypeOK
    <3>4. can_query_epoch_state(height, bank, received, target)
      BY <3>3, ConfigTypes, EpochRateGood
    <3> HIDE DEF m
    <3> QED
      BY <3>1, <3>2, <3>4 DEF m
  <2> QED
    BY <2>1, <2>2, <2>3 DEF EpochNeverPanics
<1> QED
  BY <1>1, EpochInvariance, PTL

(***************************************************************************)
(* The rewards of a custody contract, on their way to the overseer: what   *)
(* waits in the queue for it, from the overseer's request to the transfer. *)
(***************************************************************************)
At(q, i, m) == i \in 1 .. Len(q) /\ q[i] = m

SwapCall(c, d) == [type |-> "swap", custody |-> c, denom |-> d]

Asked(c) == \E i \in Nat : At(queue, i, Ask("distribute_rewards", c))

Claiming(c) ==
    \E i, j, k \in Nat :
      /\ i < j /\ j < k
      /\ At(queue, i, Ask("claim_rewards", c))
      /\ At(queue, j, Ask("swap_to_stable_denom", c))
      /\ At(queue, k, Ask("distribute_hook", c))

Swapping(c) ==
    /\ claimable[c] = Nothing
    /\ \E j, k \in Nat : /\ j < k
                         /\ At(queue, j, Ask("swap_to_stable_denom", c))
                         /\ At(queue, k, Ask("distribute_hook", c))

Sending(c) ==
    /\ claimable[c] = Nothing
    /\ \E k \in Nat :
         /\ At(queue, k, Ask("distribute_hook", c))
         /\ \A d \in Denoms : other[c][d] > 0 =>
              \E j \in Nat : j < k /\ At(queue, j, SwapCall(c, d))

OnTheWay(c) == Asked(c) \/ Claiming(c) \/ Swapping(c) \/ Sending(c) \/ Sent(c)

\* The messages of a handler come in front of what waited behind its own.
LEMMA Shifted ==
  ASSUME NEW S, NEW q \in Seq(S), q # <<>>, NEW more \in Seq(S),
         NEW q2, q2 = more \o Tail(q)
  PROVE  /\ \A i \in 1 .. Len(more) : At(q2, i, more[i])
         /\ \A m : \A i \in Nat : At(q, i, m) /\ i > 1 => At(q2, i - 1 + Len(more), m)
         /\ \A m : At(q, 1, m) => m = Head(q)
         /\ \A m : \A i \in Nat : At(q, i, m) => i >= 1
         /\ Len(more) \in Nat
<1>1. /\ Tail(q) \in Seq(S) /\ Len(Tail(q)) = Len(q) - 1
      /\ \A i \in 1 .. Len(Tail(q)) : Tail(q)[i] = q[i + 1]
      /\ Head(q) = q[1]
  BY HeadTailProperties
<1>2. Len(q) \in Nat /\ Len(more) \in Nat
  BY LenProperties
<1>3. /\ Len(q2) = Len(more) + (Len(q) - 1)
      /\ \A i \in 1 .. Len(more) + (Len(q) - 1) :
           q2[i] = IF i <= Len(more) THEN more[i] ELSE Tail(q)[i - Len(more)]
  BY <1>1, ConcatProperties
<1>4. ASSUME NEW i \in 1 .. Len(more) PROVE At(q2, i, more[i])
  <2>1. Len(q) >= 1
    BY <1>1, <1>2, LenProperties, SMT
  <2> QED
    BY <1>2, <1>3, <2>1, SMT DEF At
<1>5. ASSUME NEW i \in Nat, NEW m, At(q, i, m), i > 1
      PROVE  At(q2, i - 1 + Len(more), m)
  <2> DEFINE j == i - 1 + Len(more)
  <2>1. i \in 2 .. Len(q) /\ q[i] = m
    BY <1>2, <1>5, SMT DEF At
  <2>2. /\ j \in 1 .. Len(more) + (Len(q) - 1) /\ ~(j <= Len(more))
        /\ j - Len(more) = i - 1 /\ i - 1 \in 1 .. Len(Tail(q))
        /\ (i - 1) + 1 = i
    BY <1>1, <1>2, <2>1, SMT
  <2> HIDE DEF j
  <2>3. q2[j] = Tail(q)[i - 1]
    BY <1>3, <2>2
  <2>4. Tail(q)[i - 1] = q[i]
    BY <1>1, <2>2
  <2> QED
    BY <1>3, <2>1, <2>2, <2>3, <2>4 DEF At, j
<1>6. \A m : At(q, 1, m) => m = Head(q)
  BY <1>1 DEF At
<1>7. \A m : \A i \in Nat : At(q, i, m) => i >= 1
  BY <1>2, SMT DEF At
<1> QED
  BY <1>2, <1>4, <1>5, <1>6, <1>7

\* As a sequence, a finite set has all its elements.
LEMMA SetAsSeqCovers ==
  ASSUME NEW S, IsFiniteSet(S), NEW x \in S
  PROVE  \E i \in DOMAIN SetToSeq(S) : SetToSeq(S)[i] = x
<1> DEFINE n == Cardinality(S)
           f == SetToSeq(S)
<1>1. n \in Nat /\ ExistsBijection(1 .. n, S)
  BY FS_CardinalityType
<1>2. PICK g \in [1 .. n -> S] : IsInjective(g)
  BY <1>1 DEF ExistsBijection, Bijection, Injection
<1>3. f \in [1 .. n -> S] /\ IsInjective(f)
  BY <1>2 DEF SetToSeq
<1> HIDE DEF f
<1>4. f \in Injection(1 .. n, S)
  BY <1>3 DEF Injection
<1>5. Cardinality(1 .. n) = Cardinality(S)
  <2>1. Cardinality(1 .. n) = IF 1 > n THEN 0 ELSE n - 1 + 1
    BY <1>1, FS_Interval
  <2> QED
    BY <2>1, <1>1, SMT DEF n
<1>6. f \in Surjection(1 .. n, S)
  BY <1>4, <1>5, FS_Injection
<1> QED
  BY <1>3, <1>6 DEF Surjection, f

\* The message that runs is a call of a custody contract.
LEMMA CallTyped ==
  ASSUME EInv, CustodyMessage
  PROVE  /\ queue # <<>> /\ Head(queue) \in CustodyCall
         /\ Head(queue).custody \in Custodies
         /\ \E T : queue \in Seq(T) /\ CustodyCall \subseteq T
<1>1. /\ queue # <<>>
      /\ Head(queue).type \notin {"update_epoch_state", "market_epoch"}
  BY DEF CustodyMessage, DistributionMessage, distribute_rewards,
     claim_staking_rewards, swap_to_stable_denom, swap, distribute_hook, Current
<1>2. Rewarding /\ Head(queue) \in CustodyCall
  BY <1>1, HeadIsCall
<1>3. PICK calls \in Seq(CustodyCall), b \in Nat :
        queue = calls \o <<UpdateMessage(b, received)>>
  BY <1>2 DEF Rewarding
<1> DEFINE last == UpdateMessage(b, received)
           T == CustodyCall \cup {last}
<1>4. calls \in Seq(T) /\ queue = calls \o <<last>>
  BY <1>3, SeqMonotonic
<1> HIDE DEF last
<1>5. <<last>> \in Seq(T)
  BY SMT
<1>6. queue \in Seq(T)
  BY <1>4, <1>5, ConcatProperties
<1> QED
  BY <1>1, <1>2, <1>6 DEF CustodyCall

\* No message brings rewards back: what is claimed stays claimed, what is swapped
\* stays swapped, and what is sent on stays sent.
LEMMA RewardsGoOneWay ==
  ASSUME EInv, CustodyMessage, NEW c \in Custodies
  PROVE  /\ claimable[c] = Nothing =>
              /\ claimable'[c] = Nothing
              /\ \A d \in Denoms : other'[c][d] > 0 => other[c][d] > 0
         /\ Sent(c) => Sent(c)'
<1> DEFINE b == Head(queue).custody
<1>1. b \in Custodies /\ EpochTypeOK
  BY CallTyped DEF EInv
<1>2. /\ coins \in Purses /\ other \in [Custodies -> [Denoms -> Nat]]
      /\ claimable \in [Custodies -> Reward]
      /\ \A a \in Custodies : coins[a] \in Nat /\ a # Overseer
  BY <1>1, StoreTypes, DistributionAssumption DEF Purses
<1>3. /\ Nothing.stable = 0 /\ Nothing.other \in [Denoms -> Nat]
      /\ \A d \in Denoms : Nothing.other[d] = 0
  BY DEF Nothing
<1> HIDE DEF b
<1>4. ASSUME UNCHANGED <<coins, other, claimable>>
      PROVE  /\ claimable[c] = Nothing =>
                  /\ claimable'[c] = Nothing
                  /\ \A d \in Denoms : other'[c][d] > 0 => other[c][d] > 0
             /\ Sent(c) => Sent(c)'
  BY <1>4 DEF Sent
<1>5. CASE distribute_rewards \/ swap_to_stable_denom
  BY <1>4, <1>5 DEF distribute_rewards, swap_to_stable_denom, dvars
<1>6. CASE claim_staking_rewards
  <2>1. /\ coins' = [coins EXCEPT ![b] = @ + claimable[b].stable]
        /\ other' = [other EXCEPT ![b] = [d \in Denoms |-> @[d] + claimable[b].other[d]]]
        /\ claimable' = [claimable EXCEPT ![b] = Nothing]
    BY <1>6 DEF claim_staking_rewards, b
  <2>2. CASE c # b
    <3>1. /\ coins'[c] = coins[c] /\ other'[c] = other[c] /\ claimable'[c] = claimable[c]
      BY <1>1, <1>2, <2>1, <2>2 DEF Purses
    <3> QED
      BY <3>1 DEF Sent
  <2>3. CASE c = b
    <3> SUFFICES ASSUME claimable[c] = Nothing
                 PROVE  /\ claimable'[c] = Nothing
                        /\ other'[c] = other[c] /\ coins'[c] = coins[c]
      BY DEF Sent
    <3>1. \A d \in Denoms : other[c][d] + claimable[c].other[d] = other[c][d]
      <4>1. ASSUME NEW d \in Denoms PROVE other[c][d] + claimable[c].other[d] = other[c][d]
        <5>1. other[c][d] \in Nat /\ claimable[c].other[d] = 0
          BY <1>2, <1>3
        <5> QED
          BY <5>1, SMT
      <4> QED
        BY <4>1
    <3>2. other'[c] = [d \in Denoms |-> other[c][d] + claimable[c].other[d]]
      BY <1>2, <2>1, <2>3
    <3>3. other[c] \in [Denoms -> Nat]
      BY <1>2
    <3>4. other'[c] = other[c]
      BY <3>1, <3>2, <3>3
    <3>5. coins'[c] = coins[c] + claimable[c].stable
      BY <1>2, <2>1, <2>3 DEF Purses
    <3>6. coins'[c] = coins[c]
      BY <1>2, <1>3, <3>5, SMT
    <3> QED
      BY <1>2, <2>1, <2>3, <3>4, <3>6
  <2> QED
    BY <2>2, <2>3
<1>7. CASE swap
  <2> DEFINE e == Head(queue).denom
  <2>1. PICK r \in SwapRates :
          /\ coins' = [coins EXCEPT ![b] = @ + UintMulDec(other[b][e], r)]
          /\ other' = [other EXCEPT ![b][e] = 0]
    BY <1>7 DEF swap, b
  <2>2. claimable' = claimable /\ e \in Denoms
    BY <1>7, CallTyped DEF swap, Current, CustodyCall
  <2> HIDE DEF e
  <2>3. CASE c # b
    <3>1. /\ coins'[c] = coins[c] /\ other'[c] = other[c]
      BY <1>1, <1>2, <2>1, <2>3 DEF Purses
    <3> QED
      BY <2>2, <3>1 DEF Sent
  <2>4. CASE c = b
    <3>1. other'[c] = [other[c] EXCEPT ![e] = 0]
      BY <1>2, <2>1, <2>4
    <3>2. \A d \in Denoms : other'[c][d] > 0 => other[c][d] > 0
      <4>1. ASSUME NEW d \in Denoms, other'[c][d] > 0 PROVE other[c][d] > 0
        <5>1. other[c] \in [Denoms -> Nat]
          BY <1>2
        <5>2. other'[c][d] = IF d = e THEN 0 ELSE other[c][d]
          BY <3>1, <5>1
        <5> QED
          BY <4>1, <5>2, SMT
      <4> QED
        BY <4>1
    <3>3. ASSUME Sent(c) PROVE Sent(c)'
      <4>1. other[c][e] = 0 /\ other[c] \in [Denoms -> Nat]
        BY <1>2, <1>3, <2>2, <3>3 DEF Sent
      <4>2. other'[c] = other[c]
        BY <3>1, <4>1
      <4>3. UintMulDec(0, r) = 0
        BY ScaleAssumption, DistributionAssumption, SMT DEF UintMulDec
      <4>4. coins'[c] = coins[c] + UintMulDec(0, r)
        BY <1>2, <2>1, <2>4, <4>1 DEF Purses
      <4>5. coins'[c] = coins[c]
        BY <1>2, <4>3, <4>4, SMT
      <4> QED
        BY <2>2, <3>3, <4>2, <4>5 DEF Sent
    <3> QED
      BY <2>2, <3>2, <3>3
  <2> QED
    BY <2>3, <2>4
<1>8. CASE distribute_hook
  <2> DEFINE n == coins[b]
  <2>1. /\ coins' = [coins EXCEPT ![b] = @ - Outlay(n), ![Overseer] = @ + deduct_tax(n)]
        /\ UNCHANGED <<other, claimable>>
    BY <1>8 DEF distribute_hook, b
  <2>2. n \in Nat /\ Outlay(n) \in Nat /\ Outlay(n) <= n
    BY <1>1, <1>2, OutlayBound
  <2> HIDE DEF n
  <2>3. coins'[c] <= coins[c]
    <3>1. coins'[c] = IF c = b THEN coins[c] - Outlay(n) ELSE coins[c]
      BY <1>1, <1>2, <2>1 DEF Purses
    <3> QED
      BY <3>1, <1>2, <2>2, SMT
  <2>4. Sent(c) => Sent(c)'
    <3> SUFFICES ASSUME coins[c] <= Dust PROVE coins'[c] <= Dust
      BY <2>1 DEF Sent
    <3>1. Dust \in Nat
      <4>1. Trunc(TaxRate) \in Nat
        BY ScaleAssumption, TaxAssumption, DivNat DEF Trunc
      <4> QED
        BY <4>1, SMT DEF Dust
    <3>2. coins'[c] \in Int
      <4>1. coins'[c] = IF c = b THEN coins[c] - Outlay(n) ELSE coins[c]
        BY <1>1, <1>2, <2>1 DEF Purses
      <4> QED
        BY <4>1, <1>2, <2>2, SMT
    <3> QED
      BY <3>1, <3>2, <2>3, <1>2, SMT
  <2> QED
    BY <2>1, <2>4
<1> QED
  BY <1>5, <1>6, <1>7, <1>8 DEF CustodyMessage, DistributionMessage

\* What waits behind the message that runs waits after it, in the same order,
\* and the messages of its handler run before.
LEMMA QueueMoves ==
  ASSUME EInv, CustodyMessage
  PROVE  \E n \in Nat, more \in Seq(CustodyCall) :
           /\ Len(more) = n /\ Then(more)
           /\ \A i \in 1 .. n : At(queue', i, more[i])
           /\ \A m : \A i \in Nat : At(queue, i, m) /\ i > 1 => At(queue', i - 1 + n, m)
           /\ \A m : At(queue, 1, m) => m = Head(queue)
           /\ \A m : \A i \in Nat : At(queue, i, m) => i >= 1
<1>1. PICK T : queue \in Seq(T) /\ CustodyCall \subseteq T
  BY CallTyped
<1>2. queue # <<>> /\ Head(queue).custody \in Custodies
  BY CallTyped
<1>3. \E more \in Seq(CustodyCall) : Then(more)
  <2>1. CASE distribute_rewards
    BY <2>1, <1>2, AskCalls DEF distribute_rewards
  <2>2. CASE swap_to_stable_denom
    <3> DEFINE c == Head(queue).custody
               D == {d \in Denoms : other[c][d] > 0}
               held == SetToSeq(D)
    <3>1. Then([i \in DOMAIN held |-> [type |-> "swap", custody |-> c, denom |-> held[i]]])
      BY <2>2 DEF swap_to_stable_denom
    <3>2. IsFiniteSet(D)
      BY DistributionAssumption, FS_Subset
    <3>3. held \in Seq(Denoms)
      BY <3>2, SetAsSeq, SeqMonotonic
    <3> HIDE DEF held, c
    <3>4. c \in Custodies
      BY <1>2 DEF c
    <3> QED
      BY <3>1, <3>3, <3>4, SwapCalls
  <2>3. CASE claim_staking_rewards \/ swap \/ distribute_hook
    <3>1. Then(<<>>) /\ <<>> \in Seq(CustodyCall)
      BY <2>3, EmptySeq DEF claim_staking_rewards, swap, distribute_hook
    <3> QED
      BY <3>1
  <2> QED
    BY <2>1, <2>2, <2>3 DEF CustodyMessage, DistributionMessage
<1>4. PICK more \in Seq(CustodyCall) : Then(more)
  BY <1>3
<1>5. more \in Seq(T) /\ queue' = more \o Tail(queue)
  BY <1>1, <1>4, SeqMonotonic DEF Then
<1>6. /\ \A i \in 1 .. Len(more) : At(queue', i, more[i])
      /\ \A m : \A i \in Nat : At(queue, i, m) /\ i > 1 => At(queue', i - 1 + Len(more), m)
      /\ \A m : At(queue, 1, m) => m = Head(queue)
      /\ \A m : \A i \in Nat : At(queue, i, m) => i >= 1
      /\ Len(more) \in Nat
  BY ZenonT(40), <1>1, <1>2, <1>5, Shifted
<1> WITNESS Len(more) \in Nat, more \in Seq(CustodyCall)
<1> QED
  BY <1>4, <1>6

\* Every message leaves the rewards of a custody contract on their way.
LEMMA StaysOnTheWay ==
  ASSUME EInv, CustodyMessage, NEW c \in Custodies, OnTheWay(c)
  PROVE  OnTheWay(c)'
<1>1. PICK n \in Nat, more \in Seq(CustodyCall) :
        /\ Len(more) = n /\ Then(more)
        /\ \A i \in 1 .. n : At(queue', i, more[i])
        /\ \A m : \A i \in Nat : At(queue, i, m) /\ i > 1 => At(queue', i - 1 + n, m)
        /\ \A m : At(queue, 1, m) => m = Head(queue)
        /\ \A m : \A i \in Nat : At(queue, i, m) => i >= 1
  BY QueueMoves
<1> DEFINE Moved(i) == i - 1 + n
<1>2. ASSUME NEW i \in Nat, i > 1
      PROVE  Moved(i) \in Nat /\ Moved(i) > n
  BY <1>2, SMT
<1>3. ASSUME NEW i \in Nat, NEW j \in Nat, i < j
      PROVE  Moved(i) < Moved(j) /\ (i >= 1 => j > 1)
  BY <1>3, SMT
<1>4. ASSUME NEW i \in Nat, NEW m, At(queue, i, m)
      PROVE  \/ i > 1 /\ At(queue', Moved(i), m)
             \/ i = 1 /\ m = Head(queue)
  <2>1. i >= 1
    BY <1>1, <1>4
  <2>2. i > 1 \/ i = 1
    BY <2>1, SMT
  <2> QED
    BY <1>1, <1>4, <2>2
<1>5. ASSUME NEW i \in Nat, NEW j \in Nat, NEW m, NEW l,
             At(queue, i, m), At(queue, j, l), i < j
      PROVE  At(queue', Moved(j), l) /\ j > 1
  <2>1. j > 1
    BY <1>1, <1>3, <1>5
  <2> QED
    BY <1>1, <1>5, <2>1
<1> HIDE DEF Moved
<1>6. /\ Head(queue).type = "distribute_rewards" => distribute_rewards
      /\ Head(queue).type = "claim_rewards" => claim_staking_rewards
      /\ Head(queue).type = "swap_to_stable_denom" => swap_to_stable_denom
      /\ Head(queue).type = "swap" => swap
      /\ Head(queue).type = "distribute_hook" => distribute_hook
  BY DEF CustodyMessage, DistributionMessage, distribute_rewards,
     claim_staking_rewards, swap_to_stable_denom, swap, distribute_hook, Current
<1>7. /\ claimable[c] = Nothing =>
           /\ claimable'[c] = Nothing
           /\ \A d \in Denoms : other'[c][d] > 0 => other[c][d] > 0
      /\ Sent(c) => Sent(c)'
  BY RewardsGoOneWay
<1>8. EpochTypeOK /\ queue' = more \o Tail(queue)
  BY <1>1 DEF EInv, Then
<1>9. CASE Asked(c)
  <2>1. PICK i \in Nat : At(queue, i, Ask("distribute_rewards", c))
    BY <1>9 DEF Asked
  <2>2. CASE i > 1 /\ At(queue', Moved(i), Ask("distribute_rewards", c))
    BY <2>2, <1>2 DEF OnTheWay, Asked
  <2>3. CASE i = 1 /\ Ask("distribute_rewards", c) = Head(queue)
    <3> DEFINE x == Ask("claim_rewards", c)
               y == Ask("swap_to_stable_denom", c)
               z == Ask("distribute_hook", c)
    <3>1. Head(queue).type = "distribute_rewards" /\ Head(queue).custody = c
      BY <2>3 DEF Ask
    <3>2. queue' = <<x, y, z>> \o Tail(queue)
      BY <3>1, <1>6 DEF distribute_rewards, Then
    <3>3. PICK T : queue \in Seq(T) /\ CustodyCall \subseteq T
      BY CallTyped
    <3>4. <<x, y, z>> \in Seq(CustodyCall)
      BY AskCalls
    <3>5. <<x, y, z>> \in Seq(T)
      BY <3>3, <3>4, SeqMonotonic
    <3> HIDE DEF x, y, z
    <3>6. \A k \in 1 .. Len(<<x, y, z>>) : At(queue', k, <<x, y, z>>[k])
      BY <3>2, <3>3, <3>5, CallTyped, Shifted
    <3>7. At(queue', 1, x) /\ At(queue', 2, y) /\ At(queue', 3, z)
      BY <3>6, SMT
    <3>8. 1 < 2 /\ 2 < 3 /\ 1 \in Nat /\ 2 \in Nat /\ 3 \in Nat
      BY SMT
    <3>9. Claiming(c)'
      BY <3>7, <3>8 DEF Claiming, x, y, z
    <3> QED
      BY <3>9 DEF OnTheWay
  <2> QED
    BY <2>1, <2>2, <2>3, <1>4
<1>10. CASE Claiming(c)
  <2>1. PICK i, j, k \in Nat :
          /\ i < j /\ j < k
          /\ At(queue, i, Ask("claim_rewards", c))
          /\ At(queue, j, Ask("swap_to_stable_denom", c))
          /\ At(queue, k, Ask("distribute_hook", c))
    BY <1>10 DEF Claiming
  <2>2. /\ At(queue', Moved(j), Ask("swap_to_stable_denom", c)) /\ j > 1
        /\ At(queue', Moved(k), Ask("distribute_hook", c)) /\ k > 1
    BY <2>1, <1>5
  <2>3. /\ Moved(i) < Moved(j) /\ Moved(j) < Moved(k)
        /\ Moved(j) \in Nat /\ Moved(k) \in Nat
    BY <2>1, <2>2, <1>2, <1>3
  <2>4. CASE i > 1 /\ At(queue', Moved(i), Ask("claim_rewards", c))
    <3>1. Claiming(c)'
      BY <2>2, <2>3, <2>4, <1>2 DEF Claiming
    <3> QED
      BY <3>1 DEF OnTheWay
  <2>5. CASE i = 1 /\ Ask("claim_rewards", c) = Head(queue)
    <3>1. Head(queue).type = "claim_rewards" /\ Head(queue).custody = c
      BY <2>5 DEF Ask
    <3>2. claimable' = [claimable EXCEPT ![c] = Nothing]
      BY <3>1, <1>6 DEF claim_staking_rewards
    <3>3. claimable'[c] = Nothing
      BY <3>2, <1>8, StoreTypes
    <3>4. Swapping(c)'
      BY <2>2, <2>3, <3>3 DEF Swapping
    <3> QED
      BY <3>4 DEF OnTheWay
  <2> QED
    BY <2>1, <2>4, <2>5, <1>4
<1>11. CASE Swapping(c)
  <2>1. PICK j, k \in Nat : /\ j < k
                            /\ At(queue, j, Ask("swap_to_stable_denom", c))
                            /\ At(queue, k, Ask("distribute_hook", c))
    BY <1>11 DEF Swapping
  <2>2. /\ At(queue', Moved(k), Ask("distribute_hook", c))
        /\ Moved(k) \in Nat /\ Moved(k) > n /\ Moved(j) < Moved(k)
        /\ claimable[c] = Nothing /\ claimable'[c] = Nothing
    BY <2>1, <1>2, <1>3, <1>5, <1>7, <1>11 DEF Swapping
  <2>3. CASE j > 1 /\ At(queue', Moved(j), Ask("swap_to_stable_denom", c))
    <3>1. Swapping(c)'
      BY <2>2, <2>3, <1>2 DEF Swapping
    <3> QED
      BY <3>1 DEF OnTheWay
  <2>4. CASE j = 1 /\ Ask("swap_to_stable_denom", c) = Head(queue)
    <3> DEFINE D == {d \in Denoms : other[c][d] > 0}
               held == SetToSeq(D)
               calls == [l \in DOMAIN held |-> SwapCall(c, held[l])]
    <3>1. Head(queue).type = "swap_to_stable_denom" /\ Head(queue).custody = c
      BY <2>4 DEF Ask
    <3>2. queue' = calls \o Tail(queue) /\ other' = other
      BY <3>1, <1>6 DEF swap_to_stable_denom, Then, dvars, SwapCall
    <3>3. PICK T : queue \in Seq(T) /\ CustodyCall \subseteq T
      BY CallTyped
    <3>4. IsFiniteSet(D)
      BY DistributionAssumption, FS_Subset
    <3>5. held \in Seq(Denoms)
      BY <3>4, SetAsSeq, SeqMonotonic
    <3>6. \A d \in D : \E l \in DOMAIN held : held[l] = d
      BY <3>4, SetAsSeqCovers
    <3> HIDE DEF held
    <3>7. calls \in Seq(CustodyCall)
      BY <3>5, SwapCalls DEF SwapCall
    <3>8. calls \in Seq(T)
      BY <3>3, <3>7, SeqMonotonic
    <3>9. /\ DOMAIN held = 1 .. Len(held) /\ Len(held) \in Nat /\ Len(calls) = Len(held)
          /\ \A l \in DOMAIN held : calls[l] = SwapCall(c, held[l])
      <4>1. DOMAIN held = 1 .. Len(held) /\ Len(held) \in Nat /\ DOMAIN calls = DOMAIN held
        BY <3>5, LenProperties
      <4>2. DOMAIN calls = 1 .. Len(calls) /\ Len(calls) \in Nat
        BY <3>7, LenProperties
      <4>3. Len(calls) = Len(held)
        <5>1. 1 .. Len(calls) = 1 .. Len(held)
          BY <4>1, <4>2
        <5> HIDE DEF calls
        <5> QED
          BY <5>1, <4>1, <4>2, SMT
      <4> QED
        BY <4>1, <4>3
    <3> HIDE DEF calls
    <3>10. /\ \A l \in 1 .. Len(calls) : At(queue', l, calls[l])
           /\ \A m : \A i \in Nat : At(queue, i, m) /\ i > 1 => At(queue', i - 1 + Len(calls), m)
      BY <3>2, <3>3, <3>8, CallTyped, Shifted
    <3> DEFINE p == k - 1 + Len(calls)
    <3>11. k > 1 /\ p \in Nat /\ p > Len(calls)
      BY <2>1, <2>4, <3>9, SMT
    <3>12. At(queue', p, Ask("distribute_hook", c))
      BY <2>1, <3>10, <3>11
    <3> HIDE DEF p
    <3>13. ASSUME NEW d \in Denoms, other'[c][d] > 0
           PROVE  \E l \in Nat : l < p /\ At(queue', l, SwapCall(c, d))
      <4>1. PICK l \in DOMAIN held : held[l] = d
        BY <3>2, <3>6, <3>13
      <4>2. l \in 1 .. Len(calls) /\ calls[l] = SwapCall(c, d)
        BY <3>9, <4>1
      <4>3. l \in Nat /\ l < p
        BY <3>9, <3>11, <4>2, SMT
      <4> QED
        BY <3>10, <4>2, <4>3
    <3>14. Sending(c)'
      BY <2>2, <3>11, <3>12, <3>13 DEF Sending
    <3> QED
      BY <3>14 DEF OnTheWay
  <2> QED
    BY <2>1, <2>3, <2>4, <1>4
<1>12. CASE Sending(c)
  <2>1. PICK k \in Nat :
          /\ At(queue, k, Ask("distribute_hook", c))
          /\ \A d \in Denoms : other[c][d] > 0 =>
               \E j \in Nat : j < k /\ At(queue, j, SwapCall(c, d))
    BY <1>12 DEF Sending
  <2>2. /\ claimable[c] = Nothing /\ claimable'[c] = Nothing
        /\ \A d \in Denoms : other'[c][d] > 0 => other[c][d] > 0
    BY <1>7, <1>12 DEF Sending
  <2>3. CASE k > 1 /\ At(queue', Moved(k), Ask("distribute_hook", c))
    <3>1. ASSUME NEW d \in Denoms, other'[c][d] > 0
          PROVE  \E j \in Nat : j < Moved(k) /\ At(queue', j, SwapCall(c, d))
      <4>1. PICK j \in Nat : j < k /\ At(queue, j, SwapCall(c, d))
        BY <2>1, <2>2, <3>1
      <4>2. CASE j > 1 /\ At(queue', Moved(j), SwapCall(c, d))
        BY <4>1, <4>2, <1>2, <1>3
      <4>3. CASE j = 1 /\ SwapCall(c, d) = Head(queue)
        <5>1. /\ Head(queue).type = "swap" /\ Head(queue).custody = c
              /\ Head(queue).denom = d
          BY <4>3 DEF SwapCall
        <5>2. other' = [other EXCEPT ![c][d] = 0]
          BY <5>1, <1>6 DEF swap
        <5>3. other'[c][d] = 0
          BY <5>2, <1>8, StoreTypes
        <5> QED
          BY <5>3, <3>1, SMT
      <4> QED
        BY <4>1, <4>2, <4>3, <1>4
    <3>2. Sending(c)'
      BY <2>2, <2>3, <3>1, <1>2 DEF Sending
    <3> QED
      BY <3>2 DEF OnTheWay
  <2>4. CASE k = 1 /\ Ask("distribute_hook", c) = Head(queue)
    <3>1. Head(queue).type = "distribute_hook" /\ Head(queue).custody = c
      BY <2>4 DEF Ask
    <3> DEFINE a == coins[c]
    <3>2. /\ coins' = [coins EXCEPT ![c] = @ - Outlay(a), ![Overseer] = @ + deduct_tax(a)]
          /\ other' = other
      BY <3>1, <1>6 DEF distribute_hook
    <3>3. other[c] \in [Denoms -> Nat] /\ a \in Nat /\ c # Overseer
      BY <1>8, StoreTypes, DistributionAssumption
    <3>4. ASSUME NEW d \in Denoms PROVE other[c][d] = 0
      <4>1. ~(other[c][d] > 0)
        <5> SUFFICES ASSUME other[c][d] > 0 PROVE FALSE
          OBVIOUS
        <5>1. PICK j \in Nat : j < k /\ At(queue, j, SwapCall(c, d))
          BY <2>1
        <5>2. j >= 1
          BY <5>1, <1>1
        <5> QED
          BY <2>4, <5>1, <5>2, SMT
      <4>2. other[c][d] \in Nat
        BY <3>3
      <4> QED
        BY <4>1, <4>2, SMT
    <3>5. other[c] = Nothing.other
      BY <3>3, <3>4 DEF Nothing
    <3>6. coins'[c] = a - Outlay(a)
      BY <3>2, <3>3, <1>8, StoreTypes
    <3>7. coins'[c] <= Dust
      BY <3>3, <3>6, OutlayNear DEF Dust
    <3>8. Sent(c)'
      BY <2>2, <3>2, <3>5, <3>7 DEF Sent
    <3> QED
      BY <3>8 DEF OnTheWay
  <2> QED
    BY <2>1, <2>3, <2>4, <1>4
<1>13. CASE Sent(c)
  BY <1>7, <1>13 DEF OnTheWay
<1> QED
  BY <1>9, <1>10, <1>11, <1>12, <1>13 DEF OnTheWay

(***************************************************************************)
(* All of them: those of the first DefaultLimit tokens, which the overseer *)
(* asks for.                                                               *)
(***************************************************************************)
Asks == Lesser(Len(whitelist), DefaultLimit)

\* While the overseer waits for the rewards, those it asked for are on their way.
RewardsComing ==
    queue # <<>> /\ Head(queue).type # "market_epoch" =>
      \A i \in 1 .. Asks : OnTheWay(whitelist[i])

RewardInv == EInv /\ Len(whitelist) <= MaxTokens /\ RewardsComing

LEMMA WhitelistBounded ==
  ASSUME EInv, Len(whitelist) <= MaxTokens, [EpochNext]_evars
  PROVE  Len(whitelist') <= MaxTokens
<1>1. whitelist \in Seq(Custodies)
  BY DEF EInv, EpochTypeOK
<1>2. ASSUME UNCHANGED whitelist PROVE Len(whitelist') <= MaxTokens
  BY <1>2
<1>3. CASE OverseerGovernance
  <2> DEFINE w == whitelist
  <2>1. ASSUME NEW s \in Users, NEW i \in 1 .. Len(w) + 1, NEW c \in Custodies,
               register_whitelist(s, i, c)
        PROVE  Len(whitelist') <= MaxTokens
    <3>1. Len(w) < MaxTokens /\ whitelist' = InsertAt(w, i, c) /\ MaxTokens \in Nat
      BY <2>1, EpochAssumption DEF register_whitelist
    <3>2. /\ Len(w) \in Nat /\ \A j \in 1 .. Len(w) : w[j] \in Custodies
      BY <1>1, LenProperties
    <3>3. /\ i \in Int /\ i - 1 \in Int /\ Len(w) \in Int /\ 1 \in Int
          /\ i >= 1 /\ i <= Len(w) + 1
          /\ \A j \in 1 .. i - 1 : w[j] \in Custodies
          /\ \A j \in i .. Len(w) : w[j] \in Custodies
      BY <3>2, SMT
    <3> DEFINE front == SubSeq(w, 1, i - 1)
               back == SubSeq(w, i, Len(w))
    <3>4. /\ front \in Seq(Custodies) /\ Len(front) = IF 1 <= i - 1 THEN i - 1 - 1 + 1 ELSE 0
          /\ back \in Seq(Custodies) /\ Len(back) = IF i <= Len(w) THEN Len(w) - i + 1 ELSE 0
      BY <3>3, SubSeqProperties
    <3> DEFINE both == front \o <<c>>
    <3>5. whitelist' = both \o back
      BY <3>1 DEF InsertAt
    <3> HIDE DEF front, back
    <3>6. <<c>> \in Seq(Custodies) /\ Len(<<c>>) = 1
      BY SMT
    <3>7. both \in Seq(Custodies) /\ Len(both) = Len(front) + 1
      BY <3>4, <3>6, ConcatProperties
    <3> HIDE DEF both
    <3>8. Len(whitelist') = Len(both) + Len(back)
      BY <3>4, <3>5, <3>7, ConcatProperties
    <3> DEFINE n == Len(w)
               f == Len(front)
               g == Len(back)
    <3>9. /\ n \in Nat /\ i \in Int /\ i >= 1 /\ i <= n + 1
          /\ f = (IF 1 <= i - 1 THEN i - 1 - 1 + 1 ELSE 0)
          /\ g = (IF i <= n THEN n - i + 1 ELSE 0)
          /\ Len(whitelist') = f + 1 + g
          /\ n < MaxTokens /\ MaxTokens \in Nat
      BY <3>1, <3>2, <3>3, <3>4, <3>7, <3>8
    <3> HIDE DEF n, f, g
    <3> QED
      BY <3>9, SMT
  <2>2. ASSUME NEW s \in Users, NEW i \in DOMAIN whitelist, NEW c \in Custodies,
               update_whitelist(s, i, c)
        PROVE  Len(whitelist') <= MaxTokens
    <3>1. whitelist' = [w EXCEPT ![i] = c]
      BY <2>2 DEF update_whitelist
    <3>2. Len(whitelist') = Len(w)
      BY <1>1, <3>1, ExceptSeq
    <3> QED
      BY <3>2
  <2> QED
    BY <1>2, <1>3, <2>1, <2>2
       DEF OverseerGovernance, overseer_update_config, overseer_migrate
<1>4. CASE \/ overseer_execute_epoch_operations \/ CustodyMessage \/ update_epoch_state
           \/ market_epoch \/ Revert
  BY <1>2, <1>4 DEF overseer_execute_epoch_operations, CustodyMessage,
     update_epoch_state, market_epoch, Revert
<1>5. CASE Arrivals \/ MarketCall \/ UNCHANGED evars
  BY <1>2, <1>5 DEF Arrivals, MarketCall, ovars, evars
<1> QED
  BY <1>3, <1>4, <1>5 DEF EpochNext, Transaction, Message

\* The market's message follows that of the overseer.
LEMMA MarketIsNext ==
  ASSUME EInv, update_epoch_state
  PROVE  Head(queue').type = "market_epoch"
<1>1. PICK r : queue' = <<MarketMessage(r, Head(queue).distributed_interest)>> \o Tail(queue)
  BY DEF update_epoch_state, Then
<1>2. Tail(queue) = <<>>
  BY UpdateIsLast DEF update_epoch_state
<1> DEFINE m == MarketMessage(r, Head(queue).distributed_interest)
<1>3. m.type = "market_epoch"
  BY DEF MarketMessage
<1>4. queue' = <<m>> \o <<>>
  BY <1>1, <1>2
<1> HIDE DEF m
<1>5. Head(queue') = m
  BY <1>4, SMT
<1> QED
  BY <1>3, <1>5

LEMMA RewardsStayComing ==
  ASSUME RewardInv, [EpochNext]_evars
  PROVE  RewardsComing'
<1>1. EInv /\ EpochTypeOK /\ RewardsComing
  BY DEF RewardInv, EInv
<1>2. /\ Asks \in Nat /\ \A i \in 1 .. Asks : whitelist[i] \in Custodies
  <2>1. /\ Len(whitelist) \in Nat
        /\ \A i \in 1 .. Len(whitelist) : whitelist[i] \in Custodies
    BY <1>1, LenProperties DEF EpochTypeOK
  <2>2. Asks \in Nat /\ Asks <= Len(whitelist)
    BY <2>1, EpochAssumption, SMT DEF Asks, Lesser
  <2> QED
    BY <2>1, <2>2, SMT
<1>3. ASSUME queue' = <<>> PROVE RewardsComing'
  BY <1>3 DEF RewardsComing
<1>4. CASE overseer_execute_epoch_operations
  <2> DEFINE calls == [i \in 1 .. Asks |-> Ask("distribute_rewards", whitelist[i])]
             last == UpdateMessage(buffer_left, told(distribution))
             T == CustodyCall \cup {last}
  <2>1. queue' = calls \o <<last>> /\ whitelist' = whitelist
    BY <1>4 DEF overseer_execute_epoch_operations, Asks
  <2>2. calls \in Seq(CustodyCall)
    BY <1>1, AsksToDistribute DEF Asks
  <2> HIDE DEF last
  <2>3. calls \in Seq(T) /\ <<last>> \in Seq(T) /\ Len(<<last>>) = 1
    BY <2>2, SeqMonotonic, SMT
  <2>4. Len(calls) = Asks /\ \A i \in 1 .. Asks : calls[i] = Ask("distribute_rewards", whitelist[i])
    <3>1. DOMAIN calls = 1 .. Asks
      OBVIOUS
    <3>2. DOMAIN calls = 1 .. Len(calls) /\ Len(calls) \in Nat
      BY <2>2, LenProperties
    <3>3. Len(calls) = Asks
      <4> DEFINE n == Len(calls)
      <4>1. n \in Nat /\ Asks \in Nat /\ 1 .. n = 1 .. Asks
        BY <3>1, <3>2, <1>2
      <4> HIDE DEF n
      <4>2. n = Asks
        BY <4>1, SMT
      <4> QED
        BY <4>2 DEF n
    <3> QED
      BY <3>3
  <2> HIDE DEF calls, T
  <2>5. ASSUME NEW i \in 1 .. Asks PROVE OnTheWay(whitelist[i])'
    <3> DEFINE m == Ask("distribute_rewards", whitelist[i])
    <3>1. /\ Len(queue') = Asks + 1
          /\ \A j \in 1 .. Asks + 1 : queue'[j] = IF j <= Asks THEN calls[j] ELSE <<last>>[j - Asks]
      BY <2>1, <2>3, <2>4, ConcatProperties
    <3>2. i \in Nat /\ i \in 1 .. Asks + 1 /\ i <= Asks
      BY <1>2, SMT
    <3>3. queue'[i] = m
      BY <2>4, <3>1, <3>2
    <3>4. At(queue', i, m)
      BY <3>1, <3>2, <3>3 DEF At
    <3>5. Asked(whitelist[i])'
      BY <2>1, <3>2, <3>4 DEF Asked
    <3> QED
      BY <3>5 DEF OnTheWay
  <2>6. Asks' = Asks /\ whitelist' = whitelist
    BY <2>1 DEF Asks
  <2> QED
    BY <2>5, <2>6 DEF RewardsComing
<1>5. CASE CustodyMessage
  <2>1. queue # <<>> /\ Head(queue) \in CustodyCall
    BY <1>1, <1>5, CallTyped
  <2>2. Head(queue).type # "market_epoch"
    BY <2>1 DEF CustodyCall
  <2>3. whitelist' = whitelist /\ Asks' = Asks
    BY <1>5 DEF CustodyMessage, Asks
  <2>4. ASSUME NEW i \in 1 .. Asks PROVE OnTheWay(whitelist[i])'
    <3> DEFINE c == whitelist[i]
    <3>1. c \in Custodies /\ OnTheWay(c) /\ c = c'
      BY <1>1, <1>2, <2>1, <2>2, <2>3 DEF RewardsComing
    <3> HIDE DEF c
    <3>2. PICK b \in Custodies : b = c
      BY <3>1
    <3>3. OnTheWay(b)'
      BY <1>1, <1>5, <3>1, <3>2, StaysOnTheWay
    <3> QED
      BY <3>1, <3>2, <3>3 DEF c
  <2> QED
    BY <2>3, <2>4 DEF RewardsComing
<1>6. CASE update_epoch_state
  BY <1>1, <1>6, MarketIsNext DEF RewardsComing
<1>7. CASE market_epoch
  BY <1>1, <1>3, <1>7, MarketEpochIsEpoch
<1>8. CASE Revert
  BY <1>3, <1>8 DEF Revert
<1>9. CASE OverseerGovernance \/ Arrivals \/ MarketCall
  BY <1>3, <1>9 DEF OverseerGovernance, Arrivals, MarketCall, Idle, ovars
<1>10. CASE UNCHANGED evars
  <2>1. UNCHANGED <<queue, whitelist, claimable, other, coins>>
    BY <1>10 DEF evars, dvars, ovars
  <2> QED
    BY <1>1, <2>1 DEF RewardsComing, Asks, OnTheWay, Asked, Claiming, Swapping, Sending, Sent
<1> QED
  BY <1>4, <1>5, <1>6, <1>7, <1>8, <1>9, <1>10 DEF EpochNext, Transaction, Message

THEOREM RewardInvariance == EpochSpec => []RewardInv
<1>1. EpochInit => RewardInv
  <2> SUFFICES ASSUME EpochInit PROVE RewardInv
    OBVIOUS
  <2>1. queue = <<>> /\ whitelist = <<>>
    BY DEF EpochInit, OverseerInit
  <2>2. Len(whitelist) <= MaxTokens
    BY <2>1, EpochAssumption, SMT
  <2> QED
    BY <2>1, <2>2, EpochInitGood DEF RewardInv, RewardsComing
<1>2. RewardInv /\ [EpochNext]_evars => RewardInv'
  BY EpochStepGood, WhitelistBounded, RewardsStayComing DEF RewardInv
<1> QED
  BY <1>1, <1>2, PTL DEF EpochSpec

\* Before the overseer stores its epoch, the custody contracts it asked, those of
\* the first ten tokens, have sent on what they had.
AskedAreSent ==
    Current("update_epoch_state") => \A i \in 1 .. Asks : Sent(whitelist[i])

LEMMA NothingOnTheWay ==
  ASSUME RewardInv, Current("update_epoch_state")
  PROVE  \A i \in 1 .. Asks : Sent(whitelist[i])
<1>1. EInv /\ queue # <<>> /\ Head(queue).type = "update_epoch_state"
  BY DEF RewardInv, Current
<1>2. PICK b \in Nat : Head(queue) = UpdateMessage(b, received) /\ Tail(queue) = <<>>
  BY <1>1, UpdateIsLast
<1>3. PICK T : queue \in Seq(T)
  <2>1. Rewarding
    BY <1>1, UpdateIsLast
  <2>2. PICK calls \in Seq(CustodyCall), a \in Nat :
          queue = calls \o <<UpdateMessage(a, received)>>
    BY <2>1 DEF Rewarding
  <2> DEFINE last == UpdateMessage(a, received)
             S == CustodyCall \cup {last}
  <2>3. calls \in Seq(S) /\ queue = calls \o <<last>>
    BY <2>2, SeqMonotonic
  <2> HIDE DEF last
  <2>4. <<last>> \in Seq(S)
    BY SMT
  <2> QED
    BY <2>3, <2>4, ConcatProperties
<1>4. ASSUME NEW i \in Nat, NEW m, At(queue, i, m) PROVE m.type = "update_epoch_state"
  <2>1. Len(Tail(queue)) = Len(queue) - 1 /\ Len(queue) \in Nat /\ Head(queue) = queue[1]
    BY <1>1, <1>3, HeadTailProperties, LenProperties
  <2>2. Len(queue) = 1
    <3>1. Len(Tail(queue)) = 0
      BY <1>2, EmptySeq
    <3> QED
      BY <2>1, <3>1, SMT
  <2>3. i = 1
    BY <1>4, <2>2, SMT DEF At
  <2> QED
    BY <1>1, <1>4, <2>1, <2>3 DEF At
<1>5. ASSUME NEW c, OnTheWay(c) PROVE Sent(c)
  <2>1. ~Asked(c)
    BY <1>4 DEF Asked, Ask
  <2>2. ~Claiming(c)
    BY <1>4 DEF Claiming, Ask
  <2>3. ~Swapping(c)
    BY <1>4 DEF Swapping, Ask
  <2>4. ~Sending(c)
    BY <1>4 DEF Sending, Ask
  <2> QED
    BY <1>5, <2>1, <2>2, <2>3, <2>4 DEF OnTheWay
<1> QED
  BY <1>1, <1>5 DEF RewardInv, RewardsComing

THEOREM AskedAlwaysSent == EpochSpec => []AskedAreSent
<1>1. RewardInv => AskedAreSent
  BY NothingOnTheWay DEF AskedAreSent
<1> QED
  BY <1>1, RewardInvariance, PTL

\* With no more than DefaultLimit tokens on the whitelist, an epoch brings in all
\* staking rewards, whatever order custody contracts and swaps run in and however
\* often a custody contract is listed.
THEOREM RewardsAllClaimed ==
  ASSUME MaxTokens <= DefaultLimit
  PROVE  EpochSpec => []AllRewardsClaimed
<1>1. RewardInv => AllRewardsClaimed
  <2> SUFFICES ASSUME RewardInv, Current("update_epoch_state"), NEW i \in DOMAIN whitelist
               PROVE  Sent(whitelist[i])
    BY DEF AllRewardsClaimed
  <2>1. /\ DOMAIN whitelist = 1 .. Len(whitelist) /\ Len(whitelist) \in Nat
        /\ Len(whitelist) <= MaxTokens
    BY LenProperties DEF RewardInv, EInv, EpochTypeOK
  <2>2. Asks = Len(whitelist)
    <3>1. MaxTokens \in Nat /\ DefaultLimit \in Nat
      BY EpochAssumption
    <3>2. Len(whitelist) <= DefaultLimit
      BY <2>1, <3>1, SMT
    <3> QED
      BY <3>2 DEF Asks, Lesser
  <2> QED
    BY <2>1, <2>2, NothingOnTheWay
<1> QED
  BY <1>1, RewardInvariance, PTL

(***************************************************************************)
(* What the overseer distributes.  With P the rate of the last epoch, A the *)
(* supply of aTerra, B the blocks since then and n = B * (t - r), where t   *)
(* is the threshold and r the deposit rate before the distribution: the     *)
(* overseer sends d coins, worth at most n at the rate P to the A0 aTerra   *)
(* of the last epoch.                                                       *)
(***************************************************************************)
\* The exchange rate rises from R to less than n * P / Scale units above the
\* next one.
LEMMA RateArithmetic ==
  ASSUME NEW A \in Nat, NEW A0 \in Nat, NEW P \in Nat, NEW n \in Nat, NEW d \in Nat,
         NEW D \in Nat, NEW R \in Int, NEW R2 \in Int, NEW V \in Int,
         A > 0, A0 <= A, Scale <= P,
         V < R * A + A, R2 * A <= V + d * Scale,
         d * Scale <= D * n, D * Scale <= A0 * P
  PROVE  R2 * Scale < R * Scale + P * n + P
<1> DEFINE x == R2 - R - 1
<1>1. x \in Int /\ Scale \in Nat /\ Scale > 0
  BY ScaleAssumption, SMT
<1>2. x * A < D * n
  <2> DEFINE p == R * A
             q == R2 * A
             e == D * n
             f == d * Scale
  <2>1. p \in Int /\ q \in Int /\ e \in Int /\ f \in Int /\ x * A = q - p - A
    BY ScaleAssumption, SMT
  <2>2. V < p + A /\ q <= V + f /\ f <= e
    OBVIOUS
  <2> HIDE DEF p, q, e, f, x
  <2>3. x * A < e
    BY <2>1, <2>2, SMT
  <2> QED
    BY <2>3 DEF e
<1>3. D * Scale <= A * P
  <2>1. A0 * P <= A * P /\ A0 * P \in Int /\ A * P \in Int /\ D * Scale \in Int
    BY ScaleAssumption, MulMono, SMT
  <2> QED
    BY <2>1, SMT
<1>4. (D * Scale) * n <= (A * P) * n
  <2>1. D * Scale \in Int /\ A * P \in Int /\ n >= 0
    BY ScaleAssumption, SMT
  <2> QED
    BY <1>3, <2>1, MulMono
<1> HIDE DEF x
<1>5. (x * Scale) * A < (P * n) * A
  <2> DEFINE u == x * A
             e == D * n
  <2>1. u \in Int /\ e \in Int /\ u < e
    BY <1>1, <1>2, SMT
  <2>2. (x * Scale) * A = u * Scale
    BY <1>1, SMT
  <2>3. (D * Scale) * n = e * Scale /\ (A * P) * n = (P * n) * A
    BY <1>1, SMT
  <2>4. e * Scale \in Int /\ (P * n) * A \in Int
    BY <1>1, SMT
  <2> HIDE DEF u, e
  <2>5. u * Scale < e * Scale
    <3>1. (u + 1) * Scale <= e * Scale
      BY <1>1, <2>1, MulMono, SMT
    <3>2. (u + 1) * Scale = u * Scale + Scale /\ u * Scale \in Int
      BY <1>1, <2>1, SMT
    <3> QED
      BY <1>1, <2>4, <3>1, <3>2, SMT
  <2>6. u * Scale \in Int
    BY <1>1, <2>1, SMT
  <2> QED
    BY <1>4, <2>2, <2>3, <2>4, <2>5, <2>6, SMT
<1>6. x * Scale < P * n
  <2> DEFINE a == x * Scale
             b == P * n
  <2>1. a \in Int /\ b \in Int /\ a * A < b * A
    BY <1>1, <1>5, SMT
  <2> HIDE DEF a, b
  <2>2. a < b
    <3> SUFFICES ASSUME b <= a PROVE FALSE
      BY <2>1, SMT
    <3>1. b * A <= a * A /\ b * A \in Int /\ a * A \in Int
      BY <2>1, MulMono, SMT
    <3> QED
      BY <2>1, <3>1, SMT
  <2> QED
    BY <2>2 DEF a, b
<1> DEFINE s == R * Scale
           t == R2 * Scale
           y == P * n
<1>7. s \in Int /\ t \in Int /\ y \in Int /\ x * Scale = t - s - Scale
  BY <1>1, SMT DEF x
<1>8. x * Scale < y
  BY <1>6
<1> HIDE DEF s, t, y
<1>9. t < s + y + P
  BY <1>1, <1>7, <1>8, SMT
<1> QED
  BY <1>9 DEF s, t, y

\* So the yield since the last epoch is at most n and one unit higher.
LEMMA GainArithmetic ==
  ASSUME NEW P \in Nat, NEW n \in Nat, NEW R \in Int, NEW R2 \in Int,
         NEW g \in Int, NEW g2 \in Int, P > 0,
         R2 * Scale < R * Scale + P * n + P,
         R * Scale < g * P + P, g2 * P <= R2 * Scale
  PROVE  g2 <= g + n + 1
<1> DEFINE s == R * Scale
           t == R2 * Scale
<1>1. s \in Int /\ t \in Int /\ t < s + P * n + P /\ s < g * P + P /\ g2 * P <= t
  BY ScaleAssumption, SMT
<1> HIDE DEF s, t
<1> DEFINE h == g + n + 2
<1>2. g2 * P < h * P
  <2>1. /\ h * P = g * P + P * n + 2 * P
        /\ g * P \in Int /\ P * n \in Int /\ g2 * P \in Int
    BY SMT
  <2> QED
    BY <1>1, <2>1, SMT
<1>3. h \in Int
  BY SMT
<1> HIDE DEF h
<1>4. g2 < h
  <2> SUFFICES ASSUME h <= g2 PROVE FALSE
    BY <1>3, SMT
  <2>1. h * P <= g2 * P /\ h * P \in Int /\ g2 * P \in Int
    BY <1>3, MulMono, SMT
  <2> QED
    BY <1>2, <2>1, SMT
<1> QED
  BY <1>3, <1>4, SMT DEF h

\* And the deposit rate per block is at most a unit above the threshold.
LEMMA PerBlockArithmetic ==
  ASSUME NEW B \in Nat, B > 0, NEW t \in Int, NEW r \in Int, NEW r2 \in Int,
         NEW g \in Int, NEW g2 \in Int,
         g2 <= g + B * (t - r) + 1, r2 * B <= g2, g < r * B + B
  PROVE  r2 <= t + 1
<1> DEFINE x == r * B
           y == t * B
           z == r2 * B
<1>1. x \in Int /\ y \in Int /\ z \in Int /\ B * (t - r) = y - x
  BY SMT
<1>2. z <= g2 /\ g < x + B /\ (t + 1) * B = y + B
  BY SMT
<1>3. g2 <= g + (y - x) + 1
  BY <1>1
<1> HIDE DEF x, y, z
<1>4. z <= y + B
  BY <1>1, <1>2, <1>3, SMT
<1>5. r2 * B <= (t + 1) * B
  BY <1>2, <1>4 DEF z
<1>6. t + 1 \in Int
  BY SMT
<1> QED
  BY <1>5, <1>6, MulCancel

\* The deposit rate at an exchange rate, as a quotient.
LEMMA DepositRateBounds ==
  ASSUME NEW rate \in Nat, epoch_state.prev_exchange_rate \in Nat,
         One <= epoch_state.prev_exchange_rate, blocks \in Nat, blocks > 0
  PROVE  \E g \in Int :
           /\ g * epoch_state.prev_exchange_rate <= rate * Scale
           /\ rate * Scale < g * epoch_state.prev_exchange_rate
                               + epoch_state.prev_exchange_rate
           /\ deposit_rate_at(rate) \in Int
           /\ deposit_rate_at(rate) * blocks <= g - Scale
           /\ g - Scale < deposit_rate_at(rate) * blocks + blocks
<1> DEFINE P == epoch_state.prev_exchange_rate
           B == blocks
           g == DecDiv(rate, P)
           v == rate * Scale
<1>1. P \in Nat /\ P > 0 /\ B \in Nat /\ B > 0 /\ v \in Int
  BY ScaleAssumption, SMT DEF One
<1> HIDE DEF P, B
<1>2. g \in Int /\ P * g <= v /\ v < P * g + P
  <2> HIDE DEF v
  <2>1. g = v \div P
    BY DEF DecDiv, v
  <2> HIDE DEF g
  <2> QED
    BY <1>1, <2>1, DivInt
<1> HIDE DEF g, v
<1>3. P * g = g * P
  BY <1>1, <1>2, SMT
<1>4. deposit_rate_at(rate) = (g - Scale) \div B
  <2>1. deposit_rate_at(rate) = ((g - Scale) * Scale) \div (B * Scale)
    BY DEF deposit_rate_at, DecDiv, FromUint, One, g, P, B
  <2>2. g - Scale \in Int
    BY <1>2, ScaleAssumption, SMT
  <2> QED
    BY <1>1, <2>1, <2>2, ScaleAssumption, DivCommonFactor, SMT
<1> DEFINE q == deposit_rate_at(rate)
<1>5. q \in Int /\ q * B <= g - Scale /\ g - Scale < q * B + B
  <2> DEFINE w == g - Scale
  <2>1. w \in Int
    BY <1>2, ScaleAssumption, SMT
  <2>2. q = w \div B
    BY <1>4
  <2> HIDE DEF q, w
  <2>3. q \in Int /\ B * q <= w /\ w < B * q + B
    BY <1>1, <2>1, <2>2, DivInt
  <2>4. B * q = q * B
    BY <1>1, <2>3, SMT
  <2> QED
    BY <2>3, <2>4 DEF w
<1> HIDE DEF q
<1>6. g * P <= v /\ v < g * P + P
  BY <1>2, <1>3
<1> QED
  BY <1>2, <1>5, <1>6 DEF P, B, v, q

\* With d coins distributed, the rate is that of the pool with d coins more.
LEMMA RateWithDistribution ==
  ASSUME IInv, NEW d \in Nat, NEW t \in Nat, CanComputeInterest(bank, t)
  PROVE  \E V \in Int :
           /\ V < query_epoch_state(height, bank, 0, t) * aterra_supply + aterra_supply
           /\ query_epoch_state(height, bank, d, t) * aterra_supply <= V + d * Scale
<1> DEFINE r == compute_interest(bank, t)
           V == pool_value(r, bank)
           R == query_epoch_state(height, bank, 0, t)
           R2 == query_epoch_state(height, bank, d, t)
<1>1. /\ r \in MarketState /\ bank \in Nat /\ aterra_supply \in Nat /\ aterra_supply > 0
  BY InterestMoves, BeforeGood DEF IInv, TypeOK
<1>2. /\ R = compute_exchange_rate_raw(r, aterra_supply, bank + 0)
      /\ R2 = compute_exchange_rate_raw(r, aterra_supply, bank + d)
  BY DEF query_epoch_state, compute_interest
<1>3. bank + 0 = bank /\ bank + d \in Nat
  BY <1>1, SMT
<1> HIDE DEF r, R, R2
<1>4. /\ V \in Int /\ R \in Int
      /\ \A k \in Int : k * aterra_supply <= V => k <= R
  BY <1>1, <1>2, <1>3, RateGreatest
<1>5. R2 \in Int /\ R2 * aterra_supply <= pool_value(r, bank + d)
  BY <1>1, <1>2, <1>3, RateGreatest
<1>6. pool_value(r, bank + d) = V + d * Scale
  <2>1. /\ r.total_liabilities \in Nat /\ r.total_reserves \in Nat
        /\ (bank + d) * Scale = bank * Scale + d * Scale
        /\ bank * Scale \in Int /\ d * Scale \in Int
    BY <1>1, ScaleAssumption, SMT DEF MarketState
  <2> DEFINE x == bank * Scale
             y == d * Scale
             l == r.total_liabilities
             o == r.total_reserves
  <2>2. pool_value(r, bank + d) = x + y + l - o /\ V = x + l - o
    BY <2>1 DEF pool_value, FromUint
  <2>3. x \in Int /\ y \in Int /\ l \in Int /\ o \in Int
    BY <2>1, SMT
  <2> HIDE DEF x, y, l, o, V
  <2>4. pool_value(r, bank + d) = V + y
    BY <2>2, <2>3, SMT
  <2> QED
    BY <2>4 DEF y
<1> HIDE DEF V
<1>7. V < R * aterra_supply + aterra_supply
  <2> SUFFICES ASSUME R * aterra_supply + aterra_supply <= V PROVE FALSE
    <3>1. R * aterra_supply \in Int
      BY <1>1, <1>4, SMT
    <3> QED
      BY <1>1, <1>4, <3>1, SMT
  <2>1. (R + 1) * aterra_supply = R * aterra_supply + aterra_supply /\ R + 1 \in Int
    BY <1>1, <1>4, SMT
  <2>2. R + 1 <= R
    BY <1>4, <2>1
  <2> QED
    BY <1>4, <2>2, SMT
<1> QED
  BY <1>4, <1>5, <1>6, <1>7 DEF R, R2

\* What the overseer has distributed is what depositors missed, at most.
Affordable(d) ==
    /\ deposit_rate_at(current_rate) < overseer_config.threshold_deposit_rate
    /\ d <= missing_deposits

DistributionAffordable ==
    queue # <<>> /\ Head(queue).type # "market_epoch" /\ received > 0 =>
      Affordable(received)

LEMMA AffordableLifts ==
  ASSUME IInv, EpochTypeOK, One <= epoch_state.prev_exchange_rate,
         CanComputeInterest(bank, target),
         current_rate >= epoch_state.prev_exchange_rate,
         blocks \in Nat, blocks > 0, aterra_supply >= epoch_state.prev_aterra_supply,
         NEW d \in Nat, Affordable(d)
  PROVE  deposit_rate_at(query_epoch_state(height, bank, d, target))
           <= overseer_config.threshold_deposit_rate + 1
<1> DEFINE P == epoch_state.prev_exchange_rate
           A0 == epoch_state.prev_aterra_supply
           A == aterra_supply
           B == blocks
           t == overseer_config.threshold_deposit_rate
           R == current_rate
           R2 == query_epoch_state(height, bank, d, target)
           q == deposit_rate_at(R)
           q2 == deposit_rate_at(R2)
           n == B * (t - q)
           D == UintMulDec(A0, P)
<1>1. /\ P \in Nat /\ Scale <= P /\ P > 0 /\ A0 \in Nat /\ A \in Nat /\ A > 0 /\ A0 <= A
      /\ B \in Nat /\ B > 0 /\ t \in Nat /\ target \in Nat
  BY StoreTypes, ConfigTypes, BeforeGood, ScaleAssumption, SMT
     DEF EpochState, IInv, TypeOK, One
<1>2. R \in Nat /\ R2 \in Nat
  BY <1>1, EpochRateGood DEF current_rate
<1>3. q \in Nat /\ q < t
  BY <1>1, <1>2, DepositRateNat DEF Affordable
<1>4. PICK V \in Int : /\ V < R * A + A /\ R2 * A <= V + d * Scale
  BY <1>1, RateWithDistribution DEF current_rate
<1>5. PICK g \in Int : /\ g * P <= R * Scale /\ R * Scale < g * P + P
                       /\ g - Scale < q * B + B
  BY <1>1, <1>2, DepositRateBounds
<1>6. PICK g2 \in Int : /\ g2 * P <= R2 * Scale
                        /\ q2 \in Int /\ q2 * B <= g2 - Scale
  BY <1>1, <1>2, DepositRateBounds
<1>7. D \in Nat /\ D * Scale <= A0 * P
  BY <1>1, UintMulDecBound
<1>8. n \in Nat /\ t - q \in Nat /\ D * B \in Nat
  BY <1>1, <1>3, <1>7, SMT
<1>9. d * Scale <= D * n
  <2>1. d <= missing_deposits
    BY DEF Affordable
  <2>2. missing_deposits = UintMulDec(D * B, t - q)
    BY DEF missing_deposits
  <2>3. missing_deposits \in Nat /\ missing_deposits * Scale <= (D * B) * (t - q)
    BY <1>8, <2>2, UintMulDecBound
  <2>4. (D * B) * (t - q) = D * n
    BY <1>1, <1>3, <1>7, SMT
  <2>5. d * Scale <= missing_deposits * Scale /\ d * Scale \in Int
        /\ missing_deposits * Scale \in Int /\ D * n \in Int
    BY <1>7, <1>8, <2>1, <2>3, ScaleAssumption, MulMono, SMT
  <2> QED
    BY <2>3, <2>4, <2>5, SMT
<1> HIDE DEF P, A0, A, B, t, R, R2, q, q2, D
<1>10. n = B * (t - q)
  OBVIOUS
<1> HIDE DEF n
<1>11. R2 * Scale < R * Scale + P * n + P
  <2>1. R \in Int /\ R2 \in Int
    BY <1>2, SMT
  <2> QED
    BY <2>1, <1>1, <1>4, <1>7, <1>8, <1>9, RateArithmetic
<1>12. g2 <= g + n + 1
  <2>1. R \in Int /\ R2 \in Int
    BY <1>2, SMT
  <2> QED
    BY <2>1, <1>1, <1>5, <1>6, <1>8, <1>11, GainArithmetic
<1>13. /\ g2 - Scale \in Int /\ g - Scale \in Int
       /\ g2 - Scale <= (g - Scale) + n + 1
  BY <1>8, <1>12, ScaleAssumption, SMT
<1>14. t \in Int /\ q \in Int
  BY <1>1, <1>3, SMT
<1>15. q2 <= t + 1
  BY <1>1, <1>5, <1>6, <1>10, <1>13, <1>14, PerBlockArithmetic
<1> QED
  BY <1>15 DEF q2, R2, t

\* That is how the overseer chooses it, and its tax makes it less.
LEMMA DistributionChosen ==
  ASSUME EInv, overseer_execute_epoch_operations, deduct_tax(distribution) > 0
  PROVE  Affordable(deduct_tax(distribution))
<1> DEFINE d == distribution
           e == deduct_tax(d)
           m == missing_deposits
           b == distribution_buffer
<1>1. /\ IInv /\ EpochTypeOK /\ One <= epoch_state.prev_exchange_rate
      /\ epoch_computable /\ blocks > 0
      /\ current_rate >= epoch_state.prev_exchange_rate
      /\ CanComputeInterest(bank, target)
  BY QueryComputes DEF EInv, Settled, overseer_execute_epoch_operations, epoch_computable
<1>2. blocks \in Nat
  BY <1>1, StoreTypes, SMT DEF blocks, IInv, TypeOK, EpochState
<1>3. d \in Nat
  BY <1>1, <1>2, EpochAmounts
<1>4. d > 0 => /\ deposit_rate_at(current_rate) < overseer_config.threshold_deposit_rate
               /\ d = IF m <= b THEN m ELSE b
  BY SMT DEF distribution, Lesser
<1> HIDE DEF d
<1>5. e \in Nat /\ e <= d
  <2>1. compute_tax(d) \in Nat /\ e \in Nat /\ e = d - compute_tax(d)
    BY <1>3, OutlayBound DEF deduct_tax
  <2> HIDE DEF e
  <2> QED
    BY <1>3, <2>1, SMT
<1>6. d > 0
  <2>1. e > 0
    BY DEF d
  <2> HIDE DEF e
  <2> QED
    BY <1>3, <1>5, <2>1, SMT
<1>7. m \in Nat
  BY <1>1, <1>2, <1>4, <1>6, MissingNat
<1> HIDE DEF e, m, b
<1>8. e <= m
  <2>1. CASE m <= b
    BY <1>3, <1>4, <1>5, <1>6, <2>1
  <2>2. CASE ~(m <= b)
    <3>1. b = d
      BY <1>4, <1>6, <2>2
    <3> QED
      BY <1>3, <1>5, <1>7, <2>2, <3>1, SMT
  <2> QED
    BY <2>1, <2>2
<1> QED
  BY <1>4, <1>6, <1>8 DEF Affordable, d, e, m

\* What it depends on stays as it is until the overseer stores its epoch.
LEMMA AffordableStays ==
  ASSUME UNCHANGED <<mvars, overseer_config, epoch_state>>
  PROVE  \A d : Affordable(d) <=>
           /\ deposit_rate_at(current_rate)' < overseer_config'.threshold_deposit_rate
           /\ d <= missing_deposits'
<1>1. current_rate' = current_rate /\ blocks' = blocks
  BY DEF current_rate, query_epoch_state, borrow_rate, target, mvars, blocks
<1>2. deposit_rate_at(current_rate)' = deposit_rate_at(current_rate)
  BY <1>1 DEF deposit_rate_at
<1>3. missing_deposits' = missing_deposits
  BY <1>1, <1>2 DEF missing_deposits
<1> QED
  BY <1>2, <1>3 DEF Affordable

LEMMA DistributionStaysAffordable ==
  ASSUME EInv, DistributionAffordable, [EpochNext]_evars
  PROVE  DistributionAffordable'
<1>1. ASSUME queue' = <<>> PROVE DistributionAffordable'
  BY <1>1 DEF DistributionAffordable
<1>3. CASE overseer_execute_epoch_operations
  <2>1. PICK e : e = deduct_tax(distribution)
    OBVIOUS
  <2>2. received' = e /\ UNCHANGED <<mvars, overseer_config, epoch_state>>
    BY <1>3, <2>1 DEF overseer_execute_epoch_operations
  <2>3. e > 0 => Affordable(e)
    BY <1>3, <2>1, DistributionChosen
  <2>4. e > 0 => Affordable(received)'
    BY <2>2, <2>3, AffordableStays DEF Affordable
  <2> QED
    BY <2>2, <2>4 DEF DistributionAffordable
<1>4. CASE CustodyMessage
  <2>1. queue # <<>> /\ Head(queue).type # "market_epoch"
    BY <1>4, CallTyped DEF CustodyCall
  <2>2. UNCHANGED <<mvars, overseer_config, epoch_state, received>>
    BY <1>4 DEF CustodyMessage
  <2>3. Affordable(received)' <=> Affordable(received)
    BY <2>2, AffordableStays DEF Affordable
  <2> QED
    BY <2>1, <2>2, <2>3 DEF DistributionAffordable
<1>5. CASE update_epoch_state
  <2>1. Head(queue').type = "market_epoch"
    BY <1>5, MarketIsNext
  <2> QED
    BY <2>1 DEF DistributionAffordable
<1>6. CASE market_epoch
  BY <1>1, <1>6, MarketEpochIsEpoch
<1>7. CASE Revert
  BY <1>1, <1>7 DEF Revert
<1>8. CASE OverseerGovernance \/ Arrivals \/ MarketCall
  BY <1>1, <1>8 DEF OverseerGovernance, Arrivals, MarketCall, Idle, ovars
<1>9. CASE UNCHANGED evars
  <2>1. UNCHANGED <<mvars, overseer_config, epoch_state, received>> /\ queue' = queue
    BY <1>9 DEF evars, ovars
  <2>2. Affordable(received)' <=> Affordable(received)
    BY <2>1, AffordableStays DEF Affordable
  <2> QED
    BY <2>1, <2>2 DEF DistributionAffordable
<1> QED
  BY <1>3, <1>4, <1>5, <1>6, <1>7, <1>8, <1>9 DEF EpochNext, Transaction, Message

THEOREM DistributionInvariance == EpochSpec => [](EInv /\ DistributionAffordable)
<1>1. EpochInit => DistributionAffordable
  BY DEF EpochInit, OverseerInit, DistributionAffordable
<1>2. EInv /\ DistributionAffordable /\ [EpochNext]_evars
        => EInv' /\ DistributionAffordable'
  BY EpochStepGood, DistributionStaysAffordable
<1> QED
  BY <1>1, <1>2, EpochInitGood, PTL DEF EpochSpec

\* Distributed interest lifts the deposit rate to the threshold, but for a unit
\* of rounding not beyond it, whatever the rates, the blocks and the deposits.
THEOREM DistributionNeverPastThreshold == EpochSpec => DistributionUpToThreshold
<1> DEFINE Lifts ==
      epoch_state' # epoch_state /\ Current("update_epoch_state")
         /\ Head(queue).distributed_interest > 0
         /\ aterra_supply >= epoch_state.prev_aterra_supply
       => epoch_state'.deposit_rate <= overseer_config.threshold_deposit_rate + 1
<1>1. EInv /\ DistributionAffordable /\ [EpochNext]_evars => [Lifts]_evars
  <2> SUFFICES ASSUME EInv, DistributionAffordable, [EpochNext]_evars,
                      epoch_state' # epoch_state, Current("update_epoch_state"),
                      Head(queue).distributed_interest > 0,
                      aterra_supply >= epoch_state.prev_aterra_supply
               PROVE  epoch_state'.deposit_rate
                        <= overseer_config.threshold_deposit_rate + 1
    OBVIOUS
  <2>1. /\ Rewarding /\ queue # <<>> /\ Head(queue).type = "update_epoch_state"
        /\ Head(queue).distributed_interest = received
        /\ market_balance(Head(queue)) = bank
    BY UpdateIsLast DEF Current
  <2>2. update_epoch_state
    <3>1. ~Transaction
      <4>1. ~Idle
        BY <2>1 DEF Idle
      <4> QED
        BY <4>1 DEF Transaction, overseer_execute_epoch_operations, OverseerGovernance,
           Arrivals, MarketCall
    <3>2. ~Revert
      BY <2>1 DEF Revert, Rewarding
    <3>3. ~market_epoch
      BY <2>1 DEF market_epoch, Current
    <3>4. ~CustodyMessage
      BY <2>1, CallTyped DEF CustodyCall
    <3>5. ~UNCHANGED evars
      BY DEF evars, dvars, ovars
    <3> QED
      BY <3>1, <3>2, <3>3, <3>4, <3>5 DEF EpochNext, Message
  <2>3. epoch_state'.deposit_rate
          = deposit_rate_at(query_epoch_state(height, bank, received, target))
    BY <2>1, <2>2 DEF update_epoch_state, new_rate
  <2>4. /\ IInv /\ EpochTypeOK /\ received \in Nat /\ Affordable(received)
        /\ Settled(saved.coins[Overseer], saved.income, saved.epoch_state,
                   saved.accrued_buffers)
    BY <2>1 DEF EInv, EpochTypeOK, Idle, DistributionAffordable
  <2>5. /\ One <= epoch_state.prev_exchange_rate /\ blocks > 0
        /\ CanComputeInterest(bank, target)
        /\ current_rate >= epoch_state.prev_exchange_rate
    BY <2>1, <2>4 DEF Rewarding, Settled
  <2>6. blocks \in Nat
    BY <2>4, <2>5, StoreTypes, SMT DEF blocks, IInv, TypeOK, EpochState
  <2> QED
    BY <2>3, <2>4, <2>5, <2>6, AffordableLifts
<1> QED
  BY <1>1, DistributionInvariance, PTL DEF EpochSpec, DistributionUpToThreshold
=============================================================================
