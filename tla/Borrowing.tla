----------------------------- MODULE Borrowing ------------------------------
(***************************************************************************)
(* Borrowing against collateral: the market (contracts/market) composed    *)
(* with the overseer's record of collateral                                *)
(* (contracts/overseer/src/collateral.rs), which each asks the other for.  *)
(* The market asks the overseer for a borrower's limit before it lends;    *)
(* the overseer asks the market what the borrower owes at this block       *)
(* before it gives collateral back or has it liquidated.                   *)
(*                                                                         *)
(* There is one kind of collateral and its price is always fresh; how a    *)
(* liquidation picks, moves and sells collateral is module Collateral, and *)
(* here any part of it is taken and any amount is paid.                    *)
(***************************************************************************)
EXTENDS Market

CONSTANTS Prices,      \* prices of the collateral
          MaxLtvs,     \* values of max_ltv
          Lots,        \* amounts of collateral locked or unlocked at once
          MaxLocked    \* bound: collateral of a borrower

ASSUME BorrowingAssumption ==
    /\ Prices \subseteq Nat /\ MaxLtvs \subseteq Nat
    /\ Lots \subseteq Nat \ {0} /\ MaxLocked \in Nat

VARIABLES collaterals,   \* the overseer's record: of every borrower, what is locked
          price,
          max_ltv,       \* of the collateral, in the overseer's whitelist
          liquidated     \* history: borrowers liquidated since they last owed nothing

bvars == <<mvars, collaterals, price, max_ltv, liquidated>>

BorrowingInit ==
    /\ Init
    /\ collaterals = [u \in Users |-> 0]
    /\ price \in Prices /\ max_ltv \in MaxLtvs
    /\ liquidated = {}

compute_borrow_limit(amount) == UintMulDec(UintMulDec(amount, price), max_ltv)

query_borrow_limit(u) == compute_borrow_limit(collaterals[u])

\* The stored record, as the query answers when it is not given a block.
query_borrower_info_Stored(u, target) == borrower_info[u]

\* What the market answers at this block: with interest that no handler has
\* stored yet.
query_borrower_info(u, target) ==
    settle_borrower(accrued(bank, target), borrower_info[u])

loan_amount(u, target) == query_borrower_info(u, target).loan_amount

-----------------------------------------------------------------------------
(***************************************************************************)
(* The overseer's handlers                                                 *)
(***************************************************************************)
lock_collateral(u, amount) ==
    /\ collaterals[u] + amount <= MaxLocked
    /\ collaterals' = [collaterals EXCEPT ![u] = @ + amount]
    /\ UNCHANGED <<mvars, price, max_ltv, liquidated>>

may_unlock_LimitBefore(u, left, target) ==
    compute_borrow_limit(collaterals[u]) >= loan_amount(u, target)
may_unlock(u, left, target) ==
    compute_borrow_limit(left) >= loan_amount(u, target)

unlock_collateral(u, amount, target) ==
    /\ amount <= collaterals[u]
    /\ CanComputeInterest(bank, target)
    /\ may_unlock(u, collaterals[u] - amount, target)
    /\ collaterals' = [collaterals EXCEPT ![u] = @ - amount]
    /\ UNCHANGED <<mvars, price, max_ltv, liquidated>>

\* From the overseer's owner, at any time and without regard to the loans there
\* are.  (A new custody contract is module Collateral's.)
update_whitelist(ltv) ==
    /\ max_ltv' = ltv
    /\ UNCHANGED <<mvars, collaterals, price, liquidated>>

\* Together with the messages it sends, of which the last is the market's.
liquidate_collateral(u, taken, paid, target) ==
    /\ CanComputeInterest(bank, target)
    /\ query_borrow_limit(u) < loan_amount(u, target)
    /\ taken <= collaterals[u]
    /\ repay_stable_from_liquidation(u, bank + paid, bank, target)
    /\ collaterals' = [collaterals EXCEPT ![u] = @ - taken]
    /\ liquidated' = IF borrower_info'[u].loan_amount = 0 THEN liquidated \ {u}
                     ELSE liquidated \cup {u}
    /\ UNCHANGED <<price, max_ltv>>

\* The handlers of the market that concern a borrower, for which the overseer is
\* asked, and all its others.
LoanCall(target) ==
    /\ \/ \E u \in Users, a \in Amounts :
            borrow_stable(u, a, query_borrow_limit(u), target)
       \/ \E u \in Users, a \in Amounts : repay_stable(u, a, target)
       \/ \E u \in Users : claim_rewards(u, target)
    /\ liquidated' = {u \in liquidated : borrower_info'[u].loan_amount > 0}
    /\ UNCHANGED <<collaterals, price, max_ltv>>

MarketCall ==
    /\ \/ Deposit \/ Redeem \/ EpochOperations
       \/ register_contracts \/ UpdateConfig
       \/ UpdateInterestModel \/ UpdateDistributionModel
       \/ NextBlock \/ Donation \/ HolderBurn
    /\ UNCHANGED <<collaterals, price, max_ltv, liquidated>>

OverseerCall(target) ==
    \E u \in Users :
      \/ \E a \in Lots : lock_collateral(u, a) \/ unlock_collateral(u, a, target)
      \/ \E a \in Lots, paid \in Amounts : liquidate_collateral(u, a, paid, target)

PriceMoves ==
    /\ price' \in Prices \ {price}
    /\ UNCHANGED <<mvars, collaterals, max_ltv, liquidated>>

BorrowingNext ==
    \/ \E t \in TargetRates : LoanCall(t) \/ OverseerCall(t)
    \/ \E l \in MaxLtvs : update_whitelist(l)
    \/ MarketCall \/ PriceMoves

BorrowingSpec == BorrowingInit /\ [][BorrowingNext]_bvars

-----------------------------------------------------------------------------
(***************************************************************************)
(* Properties                                                              *)
(***************************************************************************)
\* What the borrower owes at this block, by the interest index of this block.
due(u) == compute_borrower_interest([global_interest_index |-> index_due],
                                    borrower_info[u]).loan_amount

\* The borrower may not be liquidated at this block.
Healthy(u) == due(u) <= query_borrow_limit(u)

\* Only time, a falling price, the overseer's owner lowering max_ltv and the
\* interest model's own owner can make a borrower liquidatable.  No other call of
\* anyone does: not of the borrower, who may borrow and unlock in any order with
\* interest not yet stored, not of others, whose deposits, redemptions, loans and
\* epochs move the interest rate.  (A market that burning has left without a
\* rate computes no interest at a later block, and nobody can be liquidated.)
OnlyTimePricesAndOwners ==
    [][/\ height' = height /\ price' >= price /\ max_ltv' >= max_ltv
       /\ interest_config' = interest_config /\ state.prev_exchange_rate > 0
       => \A u \in Users : Healthy(u) => Healthy(u)']_bvars

Unsecured(u) == borrower_info[u].loan_amount > 1 /\ collaterals[u] = 0

\* A loan comes to be secured by nothing only as what a liquidation has left of
\* it; it may go on to bear interest that nobody pays.  No order of loans, of
\* unlocking and of interest not yet stored leaves one.  (But a loan of one unit
\* may be reported as nothing, bringing it up to date rounds down twice, and
\* grow later.)
UnsecuredOnlyByLiquidation ==
    [][\A u \in Users :
         Unsecured(u)' /\ ~Unsecured(u)
         => u \in liquidated' \/ borrower_info[u].loan_amount = 1]_bvars

\* Whatever a borrower owes at this block can be repaid at once, in full but for
\* what total_liabilities has lost by rounding, and then the collateral be
\* unlocked: by no order of loans, repayments, liquidations and epochs is
\* anybody's collateral stuck in the overseer, unless holders burn aTerra.
CanAlwaysLeave ==
    Undisturbed =>
      \A u \in Users : borrower_info[u].loan_amount > 0 =>
        \A t \in TargetRates :
          /\ CanComputeInterest(bank, t)
          /\ Scale * (FromUint(due(u)) - compute_interest(bank, t).total_liabilities)
               <= height * index_due

=============================================================================
