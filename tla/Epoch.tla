------------------------------- MODULE Epoch --------------------------------
(***************************************************************************)
(* The overseer's epochs (contracts/overseer/src/contract.rs), composed    *)
(* with the market and with the custody contracts' reward distribution.    *)
(*                                                                         *)
(* Once epoch_period blocks have passed, anyone may call                   *)
(* ExecuteEpochOperations.  The overseer buys ANC with a share of what its *)
(* interest buffer earned since the last epoch, sends the market what      *)
(* depositors miss of the threshold rate, asks every custody contract for  *)
(* its rewards, then tells itself to store the new epoch state and the     *)
(* market to end the epoch.  It is one transaction of many messages: the   *)
(* overseer computes with balances and rates from before them and stores   *)
(* the result after them, and it and the market each keep their own record *)
(* of the exchange rate.                                                   *)
(***************************************************************************)
EXTENDS Market, Distribution

CONSTANTS
    OverseerConfigs,    \* configurations the overseer may have
    DefaultLimit,       \* DEFAULT_LIMIT of read_whitelist
    MaxTokens,          \* bound: tokens on the whitelist
    Fees,               \* amounts that arrive at a contract unasked
    Rewards             \* staking rewards that accrue at once

ASSUME EpochAssumption ==
    /\ OverseerConfigs \subseteq
         [owner_addr : Users, epoch_period : Nat, target_deposit_rate : TargetRates,
          threshold_deposit_rate : Nat, buffer_distribution_factor : Nat,
          anc_purchase_factor : Nat]
    /\ DefaultLimit \in Nat /\ MaxTokens \in Nat /\ Fees \subseteq Nat
    /\ Rewards \subseteq [stable : Nat, other : [Denoms -> Nat]]

VARIABLES
    overseer_config,
    epoch_state,     \* the overseer's EpochState
    whitelist,       \* custody contract of every registered token, in key order
    received,        \* coins the market got in the running transaction; it holds
                     \* bank + received
    accrued_buffers, \* history: sum of the accrued_buffer of every epoch
    burned,          \* history: whether the last epoch's end, or a call since,
                     \* left aTerra that holders had burned unseen by the market
    saved            \* what a failing transaction goes back to

ovars == <<overseer_config, epoch_state, whitelist, received, accrued_buffers,
           queue, saved>>
evars == <<mvars, dvars, ovars, burned>>

OverseerInit ==
    /\ overseer_config \in OverseerConfigs
    /\ epoch_state = [deposit_rate |-> 0, prev_aterra_supply |-> 0,
                      prev_interest_buffer |-> 0, prev_exchange_rate |-> One,
                      last_executed_height |-> height]
    /\ received = 0 /\ accrued_buffers = 0 /\ burned = FALSE
    /\ queue = <<>> /\ saved = None

EpochInit == Init /\ DistributionInit /\ OverseerInit /\ whitelist = <<>>

target == overseer_config.target_deposit_rate

-----------------------------------------------------------------------------
(***************************************************************************)
(* execute_epoch_operations of the overseer                                *)
(***************************************************************************)
blocks == height - epoch_state.last_executed_height

\* Per block, as the overseer sees it since its last epoch.
deposit_rate_at(exchange_rate) ==
    DecDiv(DecDiv(exchange_rate, epoch_state.prev_exchange_rate) - One,
           FromUint(blocks))

\* The rate before any distribution.
current_rate == query_epoch_state(height, bank, 0, target)

accrued_buffer == coins[Overseer] - epoch_state.prev_interest_buffer

anc_purchase_amount ==
    UintMulDec(accrued_buffer, overseer_config.anc_purchase_factor)

missing_deposits ==
    LET prev_deposits == UintMulDec(epoch_state.prev_aterra_supply,
                                    epoch_state.prev_exchange_rate)
    IN  UintMulDec(prev_deposits * blocks,
                   overseer_config.threshold_deposit_rate
                     - deposit_rate_at(current_rate))

distribution_buffer ==
    UintMulDec(coins[Overseer] - anc_purchase_amount,
               overseer_config.buffer_distribution_factor)

\* The share of the buffer goes out whatever depositors miss.
distribution_Unlimited ==
    IF deposit_rate_at(current_rate) < overseer_config.threshold_deposit_rate
    THEN distribution_buffer ELSE 0

\* The threshold is not looked at.
distribution_Always == Lesser(missing_deposits, distribution_buffer)

\* What leaves the buffer for the market, tax included.
distribution ==
    IF deposit_rate_at(current_rate) < overseer_config.threshold_deposit_rate
    THEN Lesser(missing_deposits, distribution_buffer) ELSE 0

\* What was spent on ANC is still counted.
buffer_left_WithPurchase == coins[Overseer] - distribution
buffer_left == coins[Overseer] - anc_purchase_amount - distribution

UpdateMessage(interest_buffer, distributed_interest) ==
    [type |-> "update_epoch_state", interest_buffer |-> interest_buffer,
     distributed_interest |-> distributed_interest]

\* The market is told of what left the buffer, not of what arrives.
told_BeforeTax(amount) == amount
told(amount) == deduct_tax(amount)

\* What its tax, rounded, leaves of a payment.
left_over(amount) == amount - Outlay(amount)

present == [coins |-> coins, other |-> other, claimable |-> claimable,
            income |-> income, epoch_state |-> epoch_state,
            accrued_buffers |-> accrued_buffers]

\* The arithmetic of the handler: no unsigned subtraction below zero.
epoch_computable ==
    /\ can_query_epoch_state(height, bank, 0, target)
    /\ current_rate >= epoch_state.prev_exchange_rate
    /\ accrued_buffer >= 0
    /\ coins[Overseer] >= anc_purchase_amount /\ buffer_left >= 0

overseer_execute_epoch_operations ==
    /\ Idle
    /\ height >= epoch_state.last_executed_height + overseer_config.epoch_period
    /\ blocks > 0                 \* Decimal256 panics on a division by zero
    /\ epoch_computable
    /\ anc_purchase_amount > 0 => Sendable(anc_purchase_amount)
    /\ distribution > 0 => Sendable(distribution)
    /\ coins' = [coins EXCEPT
         ![Overseer] = @ - Outlay(anc_purchase_amount) - Outlay(distribution),
         ![Collector] = @ + deduct_tax(anc_purchase_amount)]
    /\ received' = deduct_tax(distribution)
    /\ queue' = [i \in 1 .. Lesser(Len(whitelist), DefaultLimit) |->
                   Ask("distribute_rewards", whitelist[i])]
                \o <<UpdateMessage(buffer_left, told(distribution))>>
    /\ accrued_buffers' = accrued_buffers + accrued_buffer
    /\ income' = income + left_over(anc_purchase_amount) + left_over(distribution)
    /\ saved' = present
    /\ UNCHANGED <<mvars, other, claimable, overseer_config, epoch_state, whitelist,
                   burned>>

-----------------------------------------------------------------------------
(***************************************************************************)
(* update_epoch_state, from the overseer to itself after the rewards, and  *)
(* the message it returns to the market                                    *)
(***************************************************************************)
market_balance(m) == bank + received - m.distributed_interest

new_rate(m) ==
    query_epoch_state(height, market_balance(m), m.distributed_interest, target)

can_update_epoch_state(m) ==
    /\ blocks > 0
    /\ can_query_epoch_state(height, market_balance(m), m.distributed_interest, target)
    /\ new_rate(m) >= epoch_state.prev_exchange_rate

MarketMessage(deposit_rate, distributed_interest) ==
    [type |-> "market_epoch", deposit_rate |-> deposit_rate,
     target_deposit_rate |-> target,
     threshold_deposit_rate |-> overseer_config.threshold_deposit_rate,
     distributed_interest |-> distributed_interest]

\* The buffer is read again, after the rewards have arrived.
buffer_stored_Now(m) == coins[Overseer]
buffer_stored(m) == m.interest_buffer

\* The exchange rate of the epoch lacks the distribution.
rate_stored_Before(m) == current_rate
rate_stored(m) == new_rate(m)

update_epoch_state ==
    /\ Current("update_epoch_state") /\ can_update_epoch_state(Head(queue))
    /\ LET m == Head(queue)
           deposit_rate == deposit_rate_at(new_rate(m))
       IN  /\ epoch_state' =
                [last_executed_height |-> height, prev_aterra_supply |-> aterra_supply,
                 prev_exchange_rate |-> rate_stored(m),
                 prev_interest_buffer |-> buffer_stored(m),
                 deposit_rate |-> deposit_rate]
           /\ Then(<<MarketMessage(deposit_rate, m.distributed_interest)>>)
    /\ UNCHANGED <<mvars, dvars, overseer_config, whitelist, received,
                   accrued_buffers, saved, burned>>

\* The last message: the market pays its reserves to the collector.
market_epoch ==
    /\ Current("market_epoch")
    /\ LET m == Head(queue)
       IN  /\ execute_epoch_operations(market_balance(m), m.deposit_rate,
                m.target_deposit_rate, m.threshold_deposit_rate,
                m.distributed_interest)
           /\ coins' = [coins EXCEPT ![Collector] = @ +
                deduct_tax(epoch_reserves(market_balance(m), m.distributed_interest,
                                          m.target_deposit_rate))]
    /\ Then(<<>>) /\ received' = 0 /\ saved' = None /\ burned' = (ahead' > 0)
    /\ UNCHANGED <<other, claimable, income, overseer_config, epoch_state, whitelist,
                   accrued_buffers>>

CustodyMessage ==
    /\ DistributionMessage
    /\ UNCHANGED <<mvars, overseer_config, epoch_state, whitelist, received,
                   accrued_buffers, saved, burned>>

Message == CustodyMessage \/ update_epoch_state \/ market_epoch

\* What the contracts refuse, and what others may refuse: a reward contract or
\* the chain's swap may fail for reasons of their own.
Fails(m) ==
    \/ m.type \in {"claim_rewards", "swap"}
    \/ m.type = "distribute_hook" /\ ~can_distribute_hook(m.custody)
    \/ m.type = "update_epoch_state" /\ ~can_update_epoch_state(m)
    \/ /\ m.type = "market_epoch"
       /\ ~can_execute_epoch_operations(market_balance(m), m.distributed_interest,
                                        m.target_deposit_rate)

Revert ==
    /\ ~Idle /\ Fails(Head(queue))
    /\ coins' = saved.coins /\ other' = saved.other
    /\ claimable' = saved.claimable /\ income' = saved.income
    /\ epoch_state' = saved.epoch_state /\ accrued_buffers' = saved.accrued_buffers
    /\ queue' = <<>> /\ saved' = None /\ received' = 0
    /\ UNCHANGED <<mvars, overseer_config, whitelist, burned>>

-----------------------------------------------------------------------------
(***************************************************************************)
(* The owner of the overseer, and everybody else between epochs            *)
(***************************************************************************)
overseer_update_config(sender, cfg) ==
    /\ sender = overseer_config.owner_addr
    /\ overseer_config' = cfg
    /\ UNCHANGED whitelist

\* By the chain's administrator of the contract: both rates, whoever owns it.
overseer_migrate(cfg) ==
    /\ cfg = [overseer_config EXCEPT !.target_deposit_rate = cfg.target_deposit_rate,
                !.threshold_deposit_rate = cfg.threshold_deposit_rate]
    /\ overseer_config' = cfg
    /\ UNCHANGED whitelist

\* A token that is new, whose key comes after those of the first i - 1.
register_whitelist(sender, i, custody_contract) ==
    /\ sender = overseer_config.owner_addr
    /\ Len(whitelist) < MaxTokens
    /\ whitelist' = InsertAt(whitelist, i, custody_contract)
    /\ UNCHANGED overseer_config

update_whitelist(sender, i, custody_contract) ==
    /\ sender = overseer_config.owner_addr
    /\ whitelist' = [whitelist EXCEPT ![i] = custody_contract]
    /\ UNCHANGED overseer_config

OverseerGovernance ==
    /\ Idle
    /\ \E s \in Users :
         \/ \E cfg \in OverseerConfigs :
              overseer_update_config(s, cfg) \/ overseer_migrate(cfg)
         \/ \E i \in 1 .. Len(whitelist) + 1, c \in Custodies :
              register_whitelist(s, i, c)
         \/ \E i \in DOMAIN whitelist, c \in Custodies : update_whitelist(s, i, c)
    /\ UNCHANGED <<mvars, dvars, epoch_state, received, accrued_buffers, queue, saved,
                   burned>>

Arrivals ==
    /\ Idle
    /\ \/ \E c \in Custodies, r \in Rewards : RewardsAccrue(c, r)
       \/ \E a \in {Overseer} \cup Custodies, n \in Fees : CoinsArrive(a, n)
    /\ UNCHANGED <<mvars, ovars, burned>>

\* The market between epochs: it asks the overseer for the target rate.
MarketCall ==
    /\ Idle
    /\ \/ \E a \in Amounts : deposit_stable(a, target)
       \/ \E a \in Amounts : redeem_stable(a, target)
       \/ \E u \in Users, a \in Amounts, l \in BorrowLimits :
            borrow_stable(u, a, l, target)
       \/ \E u \in Users, a \in Amounts : repay_stable(u, a, target)
       \/ \E u \in Users, a \in Amounts :
            repay_stable_from_liquidation(u, bank + a, bank, target)
       \/ \E u \in Users : claim_rewards(u, target)
       \/ \E s, o \in Users, i \in InterestModels \cup {None},
             d \in DistributionModels, f \in BorrowFactors :
            update_config(s, o, i, d, f, target)
       \/ register_contracts \/ UpdateInterestModel \/ UpdateDistributionModel
       \/ NextBlock \/ Donation \/ HolderBurn
    /\ burned' = (burned \/ ahead' > ahead)
    /\ UNCHANGED <<dvars, ovars>>

Transaction ==
    \/ overseer_execute_epoch_operations \/ OverseerGovernance
    \/ Arrivals \/ MarketCall

EpochNext == Transaction \/ Message \/ Revert

\* The chain runs a transaction that it has begun to its end.
EpochSpec == EpochInit /\ [][EpochNext]_evars /\ WF_evars(Message \/ Revert)

-----------------------------------------------------------------------------
(***************************************************************************)
(* Properties                                                              *)
(***************************************************************************)
EpochState ==
    [deposit_rate : Nat, prev_aterra_supply : Nat, prev_interest_buffer : Nat,
     prev_exchange_rate : Nat, last_executed_height : Nat]

Reward == [stable : Nat, other : [Denoms -> Nat]]

Stores ==
    [coins : [{Overseer, Collector} \cup Custodies -> Nat],
     other : [Custodies -> [Denoms -> Nat]], claimable : [Custodies -> Reward],
     income : Nat, epoch_state : EpochState, accrued_buffers : Nat]

\* None is not something that was saved.
ASSUME NoneAssumption == None \notin Stores

\* No number of the overseer's or of the custodies' goes below zero, and a
\* transaction under way has something to go back to.
EpochTypeOK ==
    /\ present \in Stores
    /\ overseer_config \in OverseerConfigs
    /\ whitelist \in Seq(Custodies)
    /\ received \in Nat
    /\ Idle <=> saved = None
    /\ ~Idle => saved \in Stores

\* Between transactions the overseer still holds the buffer it recorded: what
\* it computed before its payments covers them and their taxes, so that the
\* unsigned accrued_buffer of the next epoch exists.
BufferHeld == Idle => epoch_state.prev_interest_buffer <= coins[Overseer]

\* The overseer and the market agree on the exchange rate of an epoch: the two
\* compute it in different messages, from different balances.  Later the
\* market's only rises, until holders burn aTerra.
EpochTracksMarket ==
    Idle => /\ epoch_state.last_executed_height <= height
            /\ ~burned => epoch_state.prev_exchange_rate <= state.prev_exchange_rate
            /\ epoch_state.last_executed_height = state.last_interest_updated =>
                 epoch_state.prev_exchange_rate = state.prev_exchange_rate

Moderate ==
    /\ overseer_config.anc_purchase_factor <= One
    /\ overseer_config.buffer_distribution_factor <= One

\* No unsigned subtraction stops an epoch, neither in the first handler, as long
\* as the two factors do not exceed one and no holder burns aTerra, nor, whatever
\* they do, in the messages that follow it.
EpochNeverPanics ==
    /\ Idle /\ config.registered /\ Moderate /\ ~burned /\ blocks > 0
         => epoch_computable
    /\ Current("update_epoch_state") => can_update_epoch_state(Head(queue))
    /\ Current("market_epoch") =>
         can_query_epoch_state(height, market_balance(Head(queue)),
           Head(queue).distributed_interest, Head(queue).target_deposit_rate)

\* Every coin the overseer ever received is, once, in the accrued_buffer of an
\* epoch or waits in the buffer for the next one: rewards that arrive in the
\* middle of an epoch are neither lost nor counted twice, and what a tax leaves
\* of a payment is not lost.
IncomeCountedOnce ==
    Idle => income = accrued_buffers + coins[Overseer] - epoch_state.prev_interest_buffer

\* Coins a tax may leave of a payment: the contract rounds, and so does the chain.
Dust == IF TaxRate = 0 THEN 0 ELSE 2 + Trunc(TaxRate)

\* Nothing is left to claim, to swap or, but for what the tax leaves, to send on.
Sent(c) ==
    claimable[c] = Nothing /\ other[c] = Nothing.other /\ coins[c] <= Dust

\* "Claims all staking rewards from the bAsset contracts"
\* (packages/moneymarket/src/overseer.rs): when the overseer turns to its own
\* state, every whitelisted custody contract has sent on all its rewards.
AllRewardsClaimed ==
    Current("update_epoch_state") => \A i \in DOMAIN whitelist : Sent(whitelist[i])

\* Interest from the buffer lifts the deposit rate to the threshold and not
\* beyond it (but for a unit of rounding), unless depositors have left
\* since the last epoch: it is spread over fewer aTerra than it was meant for.
DistributionUpToThreshold ==
    [][epoch_state' # epoch_state /\ Current("update_epoch_state")
         /\ Head(queue).distributed_interest > 0
         /\ aterra_supply >= epoch_state.prev_aterra_supply
       => epoch_state'.deposit_rate <= overseer_config.threshold_deposit_rate + 1]_evars

\* To the market every epoch of the overseer is one of its own: it is told
\* exactly of the coins that arrived for it in the same transaction.  All that
\* holds of Market holds of it here.
ImplementsMarket ==
    [][\/ Next
       \/ execute_epoch_operations(bank, epoch_state.deposit_rate, target,
            overseer_config.threshold_deposit_rate, received)]_mvars

\* Every transaction ends.
TransactionsEnd == ~Idle ~> Idle

=============================================================================
