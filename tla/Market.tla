------------------------------- MODULE Market -------------------------------
(***************************************************************************)
(* The money market contract (contracts/market): deposits of the stable    *)
(* coin against aTerra, borrowing, repayment, interest and reserves, and   *)
(* ANC rewards for borrowers.                                              *)
(*                                                                         *)
(* A transaction is atomic, so a step is a whole message handler with the  *)
(* bank, Mint, Burn and Spend messages it returns.  A handler that errors  *)
(* or panics reverts everything: it is a disabled action.  Decimals are    *)
(* explained in module Decimal.  The aTerra held outside the market is one *)
(* pool: the contract never looks at who holds it.  Whoever holds some may *)
(* burn it at the token, unseen by the market.                             *)
(***************************************************************************)
EXTENDS RateModels, FiniteSets, Functions

CONSTANTS
    Users,                   \* accounts: owners, depositors, borrowers
    InterestModels,          \* interest model contracts
    InterestConfigs,         \* configurations an interest model may have
    DistributionModels,      \* distribution model contracts
    EmissionConfigs,         \* configurations a distribution model may have
    BorrowFactors,           \* values of max_borrow_factor
    InitialEmission,         \* anc_emission_rate given at instantiation
    InitialDeposit,          \* INITIAL_DEPOSIT_AMOUNT
    TargetRates,             \* target_deposit_rate the overseer may answer
    EpochRates,              \* deposit_rate the overseer may report
    ThresholdRates,          \* threshold_deposit_rate of the overseer
    BorrowLimits,            \* borrow limits the overseer may answer
    Amounts,                 \* sizes of a payment into or out of the market
    None                     \* a field left out of a message

ASSUME MarketAssumption ==
    /\ InterestConfigs \subseteq
         [owner : Users, base_rate : Nat, interest_multiplier : Nat]
    /\ EmissionConfigs \subseteq
         [owner : Users, emission_cap : Nat, emission_floor : Nat,
          increment_multiplier : Nat, decrement_multiplier : Nat]
    /\ BorrowFactors \subseteq Nat /\ InitialEmission \in Nat
    /\ InitialDeposit \in Nat /\ InitialDeposit > 0
    /\ TargetRates \subseteq Nat /\ EpochRates \subseteq Nat
    /\ ThresholdRates \subseteq Nat
    /\ BorrowLimits \subseteq Nat /\ Amounts \subseteq Nat \ {0}
    /\ IsFiniteSet(Users)

VARIABLES
    config,           \* owner_addr, interest_model, distribution_model,
                      \* max_borrow_factor, and whether register_contracts has run
    state,            \* the contract's State
    borrower_info,    \* BorrowerInfo of every account
    bank,             \* stable coins held by the market contract
    aterra_supply,    \* total supply of the aTerra token
    interest_config,  \* configuration of every interest model contract
    emission_config,  \* configuration of every distribution model contract
    height,           \* block height
    spent,            \* ANC the distributor has paid out for the market
    emitted           \* history: ANC emission promised block by block

mvars == <<config, state, borrower_info, bank, aterra_supply, interest_config,
           emission_config, height, spent, emitted>>

(***************************************************************************)
(* Interest (borrow.rs)                                                    *)
(***************************************************************************)
pool_value_WithReserves(st, balance) == FromUint(balance) + st.total_liabilities
pool_value(st, balance) ==
    FromUint(balance) + st.total_liabilities - st.total_reserves

compute_exchange_rate_raw(st, supply, balance) ==
    IF supply = 0 THEN One ELSE DecDiv(pool_value(st, balance), FromUint(supply))

charge_interest(st, at, rate) ==
    LET interest_factor == DecMul(FromUint(at - st.last_interest_updated), rate)
    IN  [st EXCEPT
          !.global_interest_index = DecMul(@, One + interest_factor),
          !.total_liabilities = @ + DecMul(@, interest_factor)]

effective_deposit_rate(st, supply, balance) ==
    DecDiv(compute_exchange_rate_raw(st, supply, balance), st.prev_exchange_rate)

\* The yield of the whole period taken for the yield of a block.
excess_yield_NotPerBlock(st, at, supply, balance, target) ==
    LET passed_blocks == FromUint(at - st.last_interest_updated)
        deposit_rate  == effective_deposit_rate(st, supply, balance) - One
        prev_deposits == FromUint(UintMulDec(st.prev_aterra_supply,
                                             st.prev_exchange_rate))
    IN  IF deposit_rate > target
        THEN DecMul(DecMul(prev_deposits, passed_blocks), deposit_rate - target)
        ELSE 0

\* What depositors earned above the target rate since the last update.
excess_yield(st, at, supply, balance, target) ==
    LET passed_blocks == FromUint(at - st.last_interest_updated)
        deposit_rate  == DecDiv(effective_deposit_rate(st, supply, balance) - One,
                                passed_blocks)
        prev_deposits == FromUint(UintMulDec(st.prev_aterra_supply,
                                             st.prev_exchange_rate))
    IN  IF deposit_rate > target
        THEN DecMul(DecMul(prev_deposits, passed_blocks), deposit_rate - target)
        ELSE 0

\* The rate is published before the reserves are taken out of the pool.
compute_interest_raw_RateTooEarly(st, at, balance, supply, rate, target) ==
    IF st.last_interest_updated >= at THEN st
    ELSE LET charged == charge_interest(st, at, rate)
         IN  [charged EXCEPT
                !.total_reserves = @ +
                   excess_yield(charged, at, supply, balance, target),
                !.prev_aterra_supply = supply,
                !.prev_exchange_rate =
                   compute_exchange_rate_raw(charged, supply, balance),
                !.last_interest_updated = at]

\* prev_aterra_supply left to the deposits and redemptions alone.
compute_interest_raw_KeepsSupply(st, at, balance, supply, rate, target) ==
    IF st.last_interest_updated >= at THEN st
    ELSE LET charged  == charge_interest(st, at, rate)
             reserved == [charged EXCEPT !.total_reserves = @ +
                            excess_yield(charged, at, supply, balance, target)]
         IN  [reserved EXCEPT
                !.prev_exchange_rate =
                   compute_exchange_rate_raw(reserved, supply, balance),
                !.last_interest_updated = at]

compute_interest_raw(st, at, balance, supply, rate, target) ==
    IF st.last_interest_updated >= at THEN st
    ELSE LET charged  == charge_interest(st, at, rate)
             reserved == [charged EXCEPT !.total_reserves = @ +
                            excess_yield(charged, at, supply, balance, target)]
         IN  [reserved EXCEPT
                !.prev_aterra_supply = supply,
                !.prev_exchange_rate =
                   compute_exchange_rate_raw(reserved, supply, balance),
                !.last_interest_updated = at]

\* Every subtraction of compute_interest_raw and of the rate query it rests
\* on stays at or above zero and it never divides by zero: the call returns
\* instead of panicking.
interest_computable(st, at, balance, supply, rate, target) ==
    st.last_interest_updated < at =>
      LET charged == charge_interest(st, at, rate)
      IN  /\ pool_value(st, balance) >= 0
          /\ st.prev_exchange_rate > 0
          /\ effective_deposit_rate(charged, supply, balance) >= One
          /\ pool_value(charged, balance)
               >= excess_yield(charged, at, supply, balance, target)

borrow_rate(st, balance) ==
    query_borrow_rate(interest_config[config.interest_model], balance,
                      st.total_liabilities, st.total_reserves)

\* compute_interest queries the models, which must be registered by then.
CanComputeInterest(balance, target) ==
    /\ state.last_interest_updated < height => config.registered
    /\ interest_computable(state, height, balance, aterra_supply,
                           borrow_rate(state, balance), target)

compute_interest(balance, target) ==
    compute_interest_raw(state, height, balance, aterra_supply,
                         borrow_rate(state, balance), target)

\* The borrower's index is not brought forward.
compute_borrower_interest_KeepsIndex(st, info) ==
    [info EXCEPT !.loan_amount = UintDivDec(UintMulDec(@, st.global_interest_index),
                                            info.interest_index)]

compute_borrower_interest(st, info) ==
    [info EXCEPT
       !.loan_amount = UintDivDec(UintMulDec(@, st.global_interest_index),
                                  info.interest_index),
       !.interest_index = st.global_interest_index]

(***************************************************************************)
(* ANC rewards (borrow.rs)                                                 *)
(***************************************************************************)
compute_reward(st, at) ==
    IF st.last_reward_updated >= at THEN st
    ELSE LET reward_accrued == DecMul(FromUint(at - st.last_reward_updated),
                                      st.anc_emission_rate)
             borrow_amount  == DecDiv(st.total_liabilities, st.global_interest_index)
         IN  [st EXCEPT
               !.global_reward_index =
                  @ + IF borrow_amount = 0 THEN 0
                      ELSE DecDiv(reward_accrued, borrow_amount),
               !.last_reward_updated = at]

compute_borrower_reward(st, info) ==
    [info EXCEPT
       !.pending_rewards =
          @ + DecMul(DecDiv(FromUint(info.loan_amount), st.global_interest_index),
                     st.global_reward_index - info.reward_index),
       !.reward_index = st.global_reward_index]

\* Interest first, then rewards on the loan with its interest.
settle_borrower(st, info) ==
    compute_borrower_reward(st, compute_borrower_interest(st, info))

(***************************************************************************)
(* Initial state: init with the aTerra registration its token answers with *)
(***************************************************************************)
Init ==
    /\ height = 0
    /\ bank = InitialDeposit
    /\ aterra_supply = InitialDeposit      \* minted to the market itself
    /\ config \in [owner_addr : Users, interest_model : InterestModels,
                   distribution_model : DistributionModels,
                   max_borrow_factor : BorrowFactors, registered : {FALSE}]
    /\ interest_config \in [InterestModels -> InterestConfigs]
    /\ emission_config \in [DistributionModels -> EmissionConfigs]
    /\ state = [total_liabilities |-> 0, total_reserves |-> 0,
                last_interest_updated |-> height, last_reward_updated |-> height,
                global_interest_index |-> One, global_reward_index |-> 0,
                anc_emission_rate |-> InitialEmission,
                prev_aterra_supply |-> 0, prev_exchange_rate |-> One]
    /\ borrower_info = [u \in Users |-> [interest_index |-> One, reward_index |-> 0,
                                         loan_amount |-> 0, pending_rewards |-> 0]]
    /\ spent = 0 /\ emitted = 0

(***************************************************************************)
(* Depositors (deposit.rs)                                                 *)
(***************************************************************************)
\* The state a handler works on once interest and rewards are up to date.
accrued(balance, target) == compute_reward(compute_interest(balance, target), height)

deposit_stable(amount, target) ==
    LET st == accrued(bank, target)
        exchange_rate == compute_exchange_rate_raw(st, aterra_supply, bank)
        mint_amount == UintDivDec(amount, exchange_rate)
    IN  /\ CanComputeInterest(bank, target)
        /\ pool_value(st, bank) >= 0 /\ exchange_rate > 0
        /\ state' = [st EXCEPT !.prev_aterra_supply = @ + mint_amount]
        /\ aterra_supply' = aterra_supply + mint_amount
        /\ bank' = bank + amount
        /\ UNCHANGED <<config, borrower_info, interest_config, emission_config,
                       height, spent, emitted>>

assert_redeem_amount_Dropped(st, current_balance, redeem_amount) == TRUE

\* Reserves are not kept back.
assert_redeem_amount_FromReserves(st, current_balance, redeem_amount) ==
    redeem_amount <= current_balance

assert_redeem_amount(st, current_balance, redeem_amount) ==
    FromUint(redeem_amount) + st.total_reserves <= FromUint(current_balance)

\* The cw20 hook: burn_amount aTerra was sent in by a holder other than the
\* market, which keeps what init minted to it for ever.
redeem_stable(burn_amount, target) ==
    LET st == accrued(bank, target)
        redeem_amount ==
          UintMulDec(burn_amount, compute_exchange_rate_raw(st, aterra_supply, bank))
    IN  /\ burn_amount <= aterra_supply - InitialDeposit
        /\ CanComputeInterest(bank, target)
        /\ pool_value(st, bank) >= 0
        /\ assert_redeem_amount(st, bank, redeem_amount)
        /\ burn_amount <= st.prev_aterra_supply
        /\ Sendable(redeem_amount)
        /\ state' = [st EXCEPT !.prev_aterra_supply = @ - burn_amount]
        /\ aterra_supply' = aterra_supply - burn_amount
        /\ bank' = bank - Outlay(redeem_amount)
        /\ UNCHANGED <<config, borrower_info, interest_config, emission_config,
                       height, spent, emitted>>

(***************************************************************************)
(* Borrowers (borrow.rs)                                                   *)
(***************************************************************************)
assert_max_borrow_factor(st, current_balance, borrow_amount) ==
    /\ st.total_liabilities + FromUint(borrow_amount)
         <= DecMul(pool_value(st, current_balance), config.max_borrow_factor)
    /\ FromUint(borrow_amount) + st.total_reserves <= FromUint(current_balance)

borrow_stable(u, borrow_amount, borrow_limit, target) ==
    LET st == accrued(bank, target)
        liability == settle_borrower(st, borrower_info[u])
    IN  /\ config.registered
        /\ CanComputeInterest(bank, target)
        /\ borrow_amount + liability.loan_amount <= borrow_limit
        /\ pool_value(st, bank) >= 0
        /\ assert_max_borrow_factor(st, bank, borrow_amount)
        /\ Sendable(borrow_amount)
        /\ state' = [st EXCEPT !.total_liabilities = @ + FromUint(borrow_amount)]
        /\ borrower_info' = [borrower_info EXCEPT ![u] =
                               [liability EXCEPT !.loan_amount = @ + borrow_amount]]
        /\ bank' = bank - Outlay(borrow_amount)
        /\ UNCHANGED <<config, aterra_supply, interest_config, emission_config,
                       height, spent, emitted>>

\* amount has already arrived on top of bank, the balance interest is
\* computed with.  What exceeds the loan goes back to the borrower.
settle_repayment(u, amount, target) ==
    LET st == accrued(bank, target)
        liability == settle_borrower(st, borrower_info[u])
        repay_amount == Lesser(liability.loan_amount, amount)
        refund == IF liability.loan_amount < amount
                  THEN Outlay(amount - repay_amount) ELSE 0
    IN  /\ amount > 0
        /\ CanComputeInterest(bank, target)
        /\ FromUint(repay_amount) <= st.total_liabilities
        /\ liability.loan_amount < amount => Sendable(amount - repay_amount)
        /\ state' = [st EXCEPT !.total_liabilities = @ - FromUint(repay_amount)]
        /\ borrower_info' = [borrower_info EXCEPT ![u] =
                               [liability EXCEPT !.loan_amount = @ - repay_amount]]
        /\ bank' = bank + amount - refund
        /\ UNCHANGED <<config, aterra_supply, interest_config, emission_config,
                       height, spent, emitted>>

repay_stable(u, amount, target) == settle_repayment(u, amount, target)

\* From the overseer, at the end of a liquidation that has paid the market:
\* the amount is what arrived since the overseer noted prev_balance.
repay_stable_from_liquidation(u, cur_balance, prev_balance, target) ==
    /\ config.registered
    /\ prev_balance = bank
    /\ settle_repayment(u, cur_balance - prev_balance, target)

claim_rewards(u, target) ==
    LET st == accrued(bank, target)
        liability == settle_borrower(st, borrower_info[u])
        claim_amount == Trunc(liability.pending_rewards)
    IN  /\ CanComputeInterest(bank, target)
        /\ state' = st
        /\ borrower_info' = [borrower_info EXCEPT ![u] =
              [liability EXCEPT !.pending_rewards = @ - FromUint(claim_amount)]]
        /\ spent' = spent + claim_amount
        /\ UNCHANGED <<config, bank, aterra_supply, interest_config, emission_config,
                       height, emitted>>

(***************************************************************************)
(* Governance (contract.rs and the models' own update_config)              *)
(***************************************************************************)
\* The code refuses once any of the five addresses is set, so that an update_config
\* which names a model before the registration rules it out for good; here it
\* remains possible.
register_contracts ==
    /\ ~config.registered
    /\ config' = [config EXCEPT !.registered = TRUE]
    /\ UNCHANGED <<state, borrower_info, bank, aterra_supply, interest_config,
                   emission_config, height, spent, emitted>>

\* A change of model does not settle interest first.
update_config_NoAccrual(sender, owner, model, anc_model, borrow_factor, target) ==
    /\ sender = config.owner_addr
    /\ config' = [config EXCEPT
                    !.owner_addr = owner,
                    !.max_borrow_factor = borrow_factor,
                    !.interest_model = IF model = None THEN @ ELSE model,
                    !.distribution_model = anc_model]
    /\ UNCHANGED <<state, borrower_info, bank, aterra_supply, interest_config,
                   emission_config, height, spent, emitted>>

\* The interest model is None when the message leaves it out; only a message
\* that names one settles interest first, with the old model.
update_config(sender, owner, model, anc_model, borrow_factor, target) ==
    /\ sender = config.owner_addr
    /\ config' = [config EXCEPT
                    !.owner_addr = owner,
                    !.max_borrow_factor = borrow_factor,
                    !.interest_model = IF model = None THEN @ ELSE model,
                    !.distribution_model = anc_model]
    /\ \/ model = None /\ UNCHANGED state
       \/ /\ model # None
          /\ CanComputeInterest(bank, target)
          /\ state' = compute_interest(bank, target)
    /\ UNCHANGED <<borrower_info, bank, aterra_supply, interest_config,
                   emission_config, height, spent, emitted>>

update_interest_model(sender, model, cfg) ==
    /\ may_update_model(interest_config[model], sender)
    /\ interest_config' = [interest_config EXCEPT ![model] = cfg]
    /\ UNCHANGED <<config, state, borrower_info, bank, aterra_supply,
                   emission_config, height, spent, emitted>>

update_distribution_model(sender, model, cfg) ==
    /\ may_update_model(emission_config[model], sender)
    /\ emission_config' = [emission_config EXCEPT ![model] = cfg]
    /\ UNCHANGED <<config, state, borrower_info, bank, aterra_supply,
                   interest_config, height, spent, emitted>>

(***************************************************************************)
(* Epochs (contract.rs).  The overseer sends distributed_interest from its *)
(* buffer, asks for the epoch state and then ends the epoch; balance is    *)
(* what the market holds less what it is told of distributed_interest.     *)
(***************************************************************************)
can_query_epoch_state(at, balance, distributed_interest, target) ==
    /\ config.registered /\ state.last_interest_updated <= at
    /\ balance >= 0 /\ pool_value(state, balance) >= 0
    /\ interest_computable(state, at, balance, aterra_supply,
                           borrow_rate(state, balance), target)

\* The exchange rate the overseer is told of.
query_epoch_state(at, balance, distributed_interest, target) ==
    compute_exchange_rate_raw(
      compute_interest_raw(state, at, balance, aterra_supply,
                           borrow_rate(state, balance), target),
      aterra_supply, balance + distributed_interest)

\* ANC of past blocks is not settled before the emission rate changes.
epoch_interest_NoReward(balance, distributed_interest, target) ==
    [compute_interest(balance, target) EXCEPT
       !.prev_exchange_rate =
         query_epoch_state(height, balance, distributed_interest, target)]

epoch_interest(balance, distributed_interest, target) ==
    compute_reward([compute_interest(balance, target) EXCEPT
       !.prev_exchange_rate =
         query_epoch_state(height, balance, distributed_interest, target)], height)

\* Whole coins of the reserves go to the collector, or nothing does.
epoch_reserves(balance, distributed_interest, target) ==
    LET total_reserves ==
          Trunc(epoch_interest(balance, distributed_interest, target).total_reserves)
    IN  IF balance > total_reserves THEN total_reserves ELSE 0

can_execute_epoch_operations(balance, distributed_interest, target) ==
    LET paid == epoch_reserves(balance, distributed_interest, target)
    IN  /\ can_query_epoch_state(height, balance, distributed_interest, target)
        /\ paid > 0 => Sendable(paid)

execute_epoch_operations(balance, rate, target, threshold, distributed) ==
    LET st == epoch_interest(balance, distributed, target)
        paid == epoch_reserves(balance, distributed, target)
    IN  /\ can_execute_epoch_operations(balance, distributed, target)
        /\ state' = [st EXCEPT
              !.total_reserves = @ - FromUint(paid),
              !.anc_emission_rate = query_anc_emission_rate(
                 emission_config[config.distribution_model],
                 rate, target, threshold, @)]
        /\ bank' = balance + distributed - Outlay(paid)
        /\ UNCHANGED <<config, borrower_info, aterra_supply, interest_config,
                       emission_config, height, spent, emitted>>

(***************************************************************************)
(* The chain: blocks pass, anyone may send the market coins unasked, and   *)
(* anyone may burn aTerra of their own with the token's Burn message, the  *)
(* one redeem_stable sends.                                                *)
(***************************************************************************)
NextBlock ==
    /\ height' = height + 1
    /\ emitted' = emitted + state.anc_emission_rate
    /\ UNCHANGED <<config, state, borrower_info, bank, aterra_supply,
                   interest_config, emission_config, spent>>

Donate(amount) ==
    /\ bank' = bank + amount
    /\ UNCHANGED <<config, state, borrower_info, aterra_supply, interest_config,
                   emission_config, height, spent, emitted>>

holder_burn(amount) ==
    /\ amount <= aterra_supply - InitialDeposit
    /\ aterra_supply' = aterra_supply - amount
    /\ UNCHANGED <<config, state, borrower_info, bank, interest_config,
                   emission_config, height, spent, emitted>>

Deposit == \E a \in Amounts, t \in TargetRates : deposit_stable(a, t)
Redeem  == \E a \in Amounts, t \in TargetRates : redeem_stable(a, t)
Borrow  == \E u \in Users, a \in Amounts, l \in BorrowLimits, t \in TargetRates :
             borrow_stable(u, a, l, t)
Repay   == \E u \in Users, a \in Amounts, t \in TargetRates : repay_stable(u, a, t)
RepayFromLiquidation ==
    \E u \in Users, a \in Amounts, t \in TargetRates :
      repay_stable_from_liquidation(u, bank + a, bank, t)
ClaimRewards == \E u \in Users, t \in TargetRates : claim_rewards(u, t)
UpdateConfig ==
    \E s, o \in Users, m \in InterestModels \cup {None},
       d \in DistributionModels, f \in BorrowFactors,
       t \in TargetRates : update_config(s, o, m, d, f, t)
UpdateInterestModel ==
    \E s \in Users, m \in InterestModels, c \in InterestConfigs :
      update_interest_model(s, m, c)
UpdateDistributionModel ==
    \E s \in Users, m \in DistributionModels, c \in EmissionConfigs :
      update_distribution_model(s, m, c)
EpochOperations ==
    \E r \in EpochRates, t \in TargetRates, h \in ThresholdRates,
       d \in Amounts \cup {0} : execute_epoch_operations(bank, r, t, h, d)
Donation == \E a \in Amounts : Donate(a)
HolderBurn == \E a \in Amounts : holder_burn(a)

Next ==
    \/ Deposit \/ Redeem
    \/ Borrow \/ Repay \/ RepayFromLiquidation \/ ClaimRewards
    \/ register_contracts \/ UpdateConfig
    \/ UpdateInterestModel \/ UpdateDistributionModel
    \/ EpochOperations \/ NextBlock \/ Donation \/ HolderBurn

Spec == Init /\ [][Next]_mvars

-----------------------------------------------------------------------------
(***************************************************************************)
(* Properties                                                              *)
(***************************************************************************)
MarketConfig ==
    [owner_addr : Users, interest_model : InterestModels,
     distribution_model : DistributionModels, max_borrow_factor : BorrowFactors, registered : BOOLEAN]

MarketState ==
    [total_liabilities : Nat, total_reserves : Nat, last_interest_updated : Nat,
     last_reward_updated : Nat, global_interest_index : Nat,
     global_reward_index : Nat, anc_emission_rate : Nat,
     prev_aterra_supply : Nat, prev_exchange_rate : Nat]

BorrowerInfo ==
    [interest_index : Nat, reward_index : Nat, loan_amount : Nat,
     pending_rewards : Nat]

\* Every stored number is a natural number: no subtraction of a handler went
\* below zero.
TypeOK ==
    /\ config \in MarketConfig
    /\ state \in MarketState
    /\ borrower_info \in [Users -> BorrowerInfo]
    /\ bank \in Nat /\ aterra_supply \in Nat
    /\ interest_config \in [InterestModels -> InterestConfigs]
    /\ emission_config \in [DistributionModels -> EmissionConfigs]
    /\ height \in Nat /\ spent \in Nat /\ emitted \in Nat

\* The exchange rate last published is honoured: the market's coins and loans,
\* less its reserves, pay every aTerra at prev_exchange_rate.  compute_interest
\* moves yield into reserves, every payment rounds, and holders burn aTerra
\* behind the market's back; none of it may break this.
RateBacked ==
    /\ state.prev_exchange_rate * aterra_supply <= pool_value(state, bank)
    /\ aterra_supply >= InitialDeposit

\* aTerra that prev_aterra_supply still counts and the token does not: what
\* holders have burned since interest was last computed.  The copy lacks the
\* initial deposit until interest is first computed.
ahead ==
    state.prev_aterra_supply -
      IF state.last_interest_updated = 0
      THEN aterra_supply - InitialDeposit ELSE aterra_supply

\* Nobody has burned aTerra since interest was last computed, nor burned so much
\* before that the rate was lost.  The market itself is never the one to end it.
Undisturbed == ahead = 0 /\ state.prev_exchange_rate > 0

\* As long as holders leave the supply to the market, compute_interest can run at
\* any later block, whatever target rate the overseer answers: the subtraction
\* "effective_deposit_rate - one" of compute_interest_raw and the other unsigned
\* ones never panic, so no handler is locked out.
InterestNeverStuck ==
    Undisturbed =>
      \A at \in height .. height + 2, t \in TargetRates :
        interest_computable(state, at, bank, aterra_supply,
                            borrow_rate(state, bank), t)

\* prev_aterra_supply, which only the handlers keep, never misses what a handler
\* does to the token's supply: it runs ahead of it only while neither state nor
\* coins move, by what holders burn, and is exact again once interest is computed.
PrevSupplyTracks ==
    /\ ahead = 0
    /\ [][\/ ahead' \in {ahead, 0}
          \/ ahead' > ahead /\ UNCHANGED <<state, bank>>]_mvars

\* Nobody's index is ahead of the market's, and no index is ahead of the block:
\* the differences the handlers take between them are never negative, and no
\* block's interest or reward is counted twice.
IndexesOrdered ==
    /\ state.last_interest_updated <= height
    /\ state.last_reward_updated <= height
    /\ \A u \in Users :
         /\ One <= borrower_info[u].interest_index
         /\ borrower_info[u].interest_index <= state.global_interest_index
         /\ borrower_info[u].reward_index <= state.global_reward_index
    /\ One <= state.global_interest_index

\* What a borrower owes with interest up to the last update.
owed(u) == compute_borrower_interest(state, borrower_info[u]).loan_amount

\* Each time interest is charged, total_liabilities is rounded down on its own
\* and falls behind the loans by less than a unit, which then bears interest as
\* they do.  There is at most one charge a block (in units of 1 / Scale).
rounding_loss == state.last_interest_updated * state.global_interest_index

\* Up to that loss, total_liabilities covers the sum of what borrowers owe, so
\* that each can repay everything: repay_stable subtracts one from the other.
\* However many borrowers, and however often each loan is brought up to date
\* with two truncations, nothing else is lost.
DebtsCovered ==
    Scale * (FromUint(SumFunctionOnSet([u \in Users |-> owed(u)], Users))
               - state.total_liabilities) <= rounding_loss

reward_due(u) == settle_borrower(state, borrower_info[u]).pending_rewards

\* ANC paid out and ANC due to borrowers never exceed what anc_emission_rate
\* has promised block by block: no update of the rate, of the index or of a
\* borrower counts a block twice or at the rate of another epoch.  The index is a
\* quotient by liabilities that lack the rounding_loss, so that a share of two
\* units for every charge, grown as the loans, may be promised beyond it.
excess_share == 2 * (state.last_interest_updated + 1) * state.global_interest_index

RewardsCovered ==
    excess_share <= Scale * Scale =>
      Scale * Scale * (FromUint(spent)
                         + SumFunctionOnSet([u \in Users |-> reward_due(u)], Users)
                         - emitted)
        <= excess_share * emitted

\* A deposit redeemed at once never returns more than was put in, although
\* both the exchange rate and the minted amount are rounded.
DepositRedeemNoProfit ==
    LET exchange_rate == compute_exchange_rate_raw(state, aterra_supply, bank)
    IN  exchange_rate > 0 =>
          \A amount \in Amounts :
            LET mint  == UintDivDec(amount, exchange_rate)
                after == compute_exchange_rate_raw(state, aterra_supply + mint,
                                                   bank + amount)
            IN  UintMulDec(mint, after) <= amount

\* When nothing is lent out, every aTerra held outside the market can be
\* redeemed, at any block: reserves never eat into what depositors own.
AllRedeemableWithoutDebt ==
    Undisturbed /\ state.total_liabilities = 0 =>
      \A at \in height .. height + 2, t \in TargetRates :
        LET st == compute_interest_raw(state, at, bank, aterra_supply,
                                       borrow_rate(state, bank), t)
        IN  assert_redeem_amount(st, bank,
              UintMulDec(aterra_supply - InitialDeposit,
                         compute_exchange_rate_raw(st, aterra_supply, bank)))

\* The interest index as of this block, accrued or still to be accrued.
index_due ==
    IF state.last_interest_updated >= height THEN state.global_interest_index
    ELSE charge_interest(state, height, borrow_rate(state, bank)).global_interest_index

\* No handler changes what borrowers owe for the blocks that have passed: the
\* interest of those blocks is charged with the balance, the loans, the reserves
\* and the model that were there before the call, whatever the call changes.
InterestNotRetroactive ==
    [][state' # state \/ config' # config => index_due' = index_due]_mvars

\* The published exchange rate never falls: borrowers' interest, reserves,
\* redemptions, epochs and changes of models included.  Only interest computed
\* after holders have burned aTerra may lower it: the excess yield is then taken
\* of a supply that is gone.
ExchangeRateNeverFalls ==
    [][ahead = 0 => state'.prev_exchange_rate >= state.prev_exchange_rate]_mvars

\* No payment leaves the market holding less than its reserves, whichever
\* handler makes it and whatever interest it first moves into reserves.
PaymentsSpareReserves ==
    [][bank' < bank => FromUint(bank') >= state'.total_reserves]_mvars

\* The market, seen as a pool divided into aTerra, implements RateFloor.
Floor == INSTANCE RateFloor
           WITH value <- pool_value(state, bank), shares <- aterra_supply,
                discarded <- ahead, floor <- state.prev_exchange_rate,
                InitialFloor <- One

ImplementsRateFloor == Floor!FloorSpec

=============================================================================
