---------------------------- MODULE Distribution ----------------------------
(***************************************************************************)
(* Staking rewards of the collateral, on their way from the reward         *)
(* contracts through the custody contracts to the overseer's interest      *)
(* buffer (contracts/custody_bluna/src/distribution.rs).  The overseer     *)
(* alone asks for it, at the end of an epoch; every handler is a message   *)
(* of that transaction.                                                    *)
(***************************************************************************)
EXTENDS Decimal, Messages, SequencesExt

CONSTANTS Custodies,    \* custody contracts
          Denoms,       \* denominations other than the stable one
          SwapRates     \* prices, a Decimal256, a swap into stable coins may get

Overseer == "overseer"
Collector == "collector"

ASSUME DistributionAssumption ==
    /\ SwapRates \subseteq Nat /\ IsFiniteSet(Denoms)
    /\ Overseer \notin Custodies /\ Collector \notin Custodies

VARIABLES coins,      \* stable coins of the overseer, the collector and custodies
          other,      \* of every custody contract, its coins of other denominations
          claimable,  \* of every custody contract, what its reward contract owes it
          income      \* history: stable coins the overseer ever received, and what
                      \* rounded taxes left it of its own payments

dvars == <<coins, other, claimable, income>>

Nothing == [stable |-> 0, other |-> [d \in Denoms |-> 0]]

DistributionInit ==
    /\ coins = [a \in {Overseer, Collector} \cup Custodies |-> 0]
    /\ other = [c \in Custodies |-> Nothing.other]
    /\ claimable = [c \in Custodies |-> Nothing]
    /\ income = 0

Ask(type, c) == [type |-> type, custody |-> c]

\* From the overseer: claim, then swap, then send on.
distribute_rewards_SwapLast ==
    /\ Current("distribute_rewards")
    /\ LET c == Head(queue).custody
       IN  Then(<<Ask("claim_rewards", c), Ask("distribute_hook", c),
                  Ask("swap_to_stable_denom", c)>>)
    /\ UNCHANGED dvars

\* A contract that asks itself again once the rewards are there.
distribute_rewards_Again ==
    /\ Current("distribute_rewards")
    /\ LET c == Head(queue).custody
       IN  Then(<<Ask("claim_rewards", c), Ask("distribute_rewards", c)>>)
    /\ UNCHANGED dvars

distribute_rewards ==
    /\ Current("distribute_rewards")
    /\ LET c == Head(queue).custody
       IN  Then(<<Ask("claim_rewards", c), Ask("swap_to_stable_denom", c),
                  Ask("distribute_hook", c)>>)
    /\ UNCHANGED dvars

\* The reward contract pays what it owes.
claim_staking_rewards ==
    /\ Current("claim_rewards")
    /\ LET c == Head(queue).custody
       IN  /\ coins' = [coins EXCEPT ![c] = @ + claimable[c].stable]
           /\ other' = [other EXCEPT ![c] = [d \in Denoms |->
                                               @[d] + claimable[c].other[d]]]
           /\ claimable' = [claimable EXCEPT ![c] = Nothing]
    /\ Then(<<>>)
    /\ UNCHANGED income

\* One swap for each denomination of which there are coins.
swap_to_stable_denom ==
    /\ Current("swap_to_stable_denom")
    /\ LET c == Head(queue).custody
           held == SetToSeq({d \in Denoms : other[c][d] > 0})
       IN  Then([i \in DOMAIN held |-> [type |-> "swap", custody |-> c,
                                        denom |-> held[i]]])
    /\ UNCHANGED dvars

\* The chain's market module swaps all of a denomination, at its own price.
swap ==
    /\ Current("swap")
    /\ LET c == Head(queue).custody
           d == Head(queue).denom
       IN  \E r \in SwapRates :
             /\ coins' = [coins EXCEPT ![c] = @ + UintMulDec(other[c][d], r)]
             /\ other' = [other EXCEPT ![c][d] = 0]
    /\ Then(<<>>)
    /\ UNCHANGED <<claimable, income>>

can_distribute_hook(c) == coins[c] > 0 => Sendable(coins[c])

\* Everything the custody contract has, with the bank transfer.
distribute_hook ==
    /\ Current("distribute_hook") /\ can_distribute_hook(Head(queue).custody)
    /\ LET c == Head(queue).custody
           reward_amount == coins[c]
       IN  /\ coins' = [coins EXCEPT ![c] = @ - Outlay(reward_amount),
                                     ![Overseer] = @ + deduct_tax(reward_amount)]
           /\ income' = income + deduct_tax(reward_amount)
    /\ Then(<<>>)
    /\ UNCHANGED <<other, claimable>>

DistributionMessage ==
    \/ distribute_rewards \/ claim_staking_rewards \/ swap_to_stable_denom
    \/ swap \/ distribute_hook

-----------------------------------------------------------------------------
(***************************************************************************)
(* Between transactions: staking earns rewards, and coins arrive, such as  *)
(* the overseer's fees on executed bids.                                   *)
(***************************************************************************)
RewardsAccrue(c, reward) ==
    /\ claimable' = [claimable EXCEPT ![c] =
         [stable |-> claimable[c].stable + reward.stable,
          other |-> [d \in Denoms |-> claimable[c].other[d] + reward.other[d]]]]
    /\ UNCHANGED <<coins, other, income>>

CoinsArrive(a, amount) ==
    /\ coins' = [coins EXCEPT ![a] = @ + amount]
    /\ income' = IF a = Overseer THEN income + amount ELSE income
    /\ UNCHANGED <<other, claimable>>

=============================================================================
