----------------------------- MODULE Collateral -----------------------------
(***************************************************************************)
(* Collateral across the contracts: the overseer's record of what every    *)
(* borrower has locked (contracts/overseer/src/collateral.rs), the         *)
(* whitelist, and the custody, liquidation and oracle contracts it drives  *)
(* by messages.                                                            *)
(*                                                                         *)
(* A step is one message.  A transaction starts when no message is         *)
(* waiting; its later messages run one by one, and the first that fails    *)
(* brings back what was saved when it started.  The market (module Market) *)
(* is here what the overseer sees of it: the loan_amount of a borrower,    *)
(* which may change to anything between transactions, and its coins.       *)
(***************************************************************************)
EXTENDS Liquidation, Custody, SequencesExt

CONSTANTS Owner,            \* owner_addr of the overseer
          MaxLtvs,          \* values of max_ltv
          PriceTimeframe,   \* price_timeframe of the overseer
          Amounts,          \* sizes of a deposit, a lock, a bid
          Loans             \* values of loan_amount

\* The code also accepts a max_ltv, safe_ratio, bid_fee or max_premium_rate above
\* one, without a check.  Such configurations are not considered: a fee or premium
\* above one makes every liquidation panic, a safe_ratio above one many of them,
\* and a max_ltv above one lends more than the collateral is worth.
ASSUME CollateralAssumption ==
    /\ Owner \in Users
    /\ MaxLtvs \subseteq 0 .. One /\ Prices \subseteq Nat
    /\ PremiumRates \subseteq Nat
    /\ LiquidationConfigs \subseteq
         [owner : Users, safe_ratio : 0 .. One, bid_fee : 0 .. One,
          max_premium_rate : 0 .. One, liquidation_threshold : Nat,
          price_timeframe : Nat]
    /\ PriceTimeframe \in Nat /\ Wallet \in Nat
    /\ Amounts \subseteq Nat \ {0} /\ Loans \subseteq Nat

VARIABLES collaterals,   \* of every borrower and token, the amount locked
          whitelist,     \* of every token, its WhitelistElem or None
          loan,          \* of every borrower, the market's loan_amount
          saved          \* what a failing transaction goes back to, or None

chainVars == <<bank, cw20, queue>>
oracleVars == <<oracle_owner, feeder, prices, time>>
cvars == <<chainVars, oracleVars, lvars, kvars, collaterals, whitelist, loan, saved>>

No_collateral == [t \in Tokens |-> 0]

Init ==
    /\ ChainInit /\ OracleInit /\ LiquidationInit /\ CustodyInit
    /\ collaterals = [u \in Users |-> No_collateral]
    /\ whitelist = [t \in Tokens |-> None]
    /\ loan = [u \in Users |-> 0]
    /\ saved = None

-----------------------------------------------------------------------------
(***************************************************************************)
(* Token lists (packages/moneymarket/src/tokens.rs), as amounts by token   *)
(***************************************************************************)
add(have, more) == [t \in Tokens |-> have[t] + more[t]]
contains(have, some) == \A t \in Tokens : some[t] <= have[t]
\* Nothing is taken away.
sub_Keeps(have, some) == have
sub(have, some) == [t \in Tokens |-> have[t] - some[t]]
\* Only the first of the tokens gets its message.
listed_First(amounts) ==
    SubSeq(SetToSeq({t \in Tokens : amounts[t] > 0}), 1, 1)
listed(amounts) == SetToSeq({t \in Tokens : amounts[t] > 0})

Registered(amounts) == \A t \in Tokens : amounts[t] > 0 => whitelist[t] # None

(***************************************************************************)
(* compute_borrow_limit, and whether the prices it asks for are fresh      *)
(***************************************************************************)
can_compute_borrow_limit(have) ==
    \A t \in Tokens : have[t] > 0 => /\ price_valid(t, PriceTimeframe)
                                     /\ whitelist[t] # None

compute_borrow_limit(have) ==
    LET held == {t \in Tokens : have[t] > 0}
    IN  SumFunctionOnSet([t \in held |-> UintMulDec(UintMulDec(have[t], rate(t)),
                                                    whitelist[t].max_ltv)], held)

(***************************************************************************)
(* The overseer's own handlers                                             *)
(***************************************************************************)
lock_collateral(borrower, amounts) ==
    /\ Registered(amounts)
    /\ collaterals' = [collaterals EXCEPT ![borrower] = add(@, amounts)]
    /\ queue' = [i \in DOMAIN listed(amounts) |->
                   LET t == listed(amounts)[i]
                   IN  LockMessage(whitelist[t].custody_contract, borrower, amounts[t])]
    /\ UNCHANGED <<bank, cw20, bids, kvars, loan>>

\* The limit is taken before the collateral is given back.
may_unlock_LimitBefore(borrower, left) ==
    /\ can_compute_borrow_limit(collaterals[borrower])
    /\ compute_borrow_limit(collaterals[borrower]) >= loan[borrower]

may_unlock(borrower, left) ==
    /\ can_compute_borrow_limit(left)
    /\ compute_borrow_limit(left) >= loan[borrower]

unlock_collateral(borrower, amounts) ==
    LET left == sub(collaterals[borrower], amounts)
    IN  /\ contains(collaterals[borrower], amounts)
        /\ may_unlock(borrower, left)
        /\ Registered(amounts)
        /\ collaterals' = [collaterals EXCEPT ![borrower] = left]
        /\ queue' = [i \in DOMAIN listed(amounts) |->
                       LET t == listed(amounts)[i]
                       IN  UnlockMessage(whitelist[t].custody_contract, borrower,
                                         amounts[t])]
        /\ UNCHANGED <<bank, cw20, bids, kvars, loan>>

\* Everything the market holds counts as the repayment.
RepayMessage_NoBalance(borrower, prev_balance) ==
    [type |-> "repay", borrower |-> borrower, prev_balance |-> 0]

RepayMessage(borrower, prev_balance) ==
    [type |-> "repay", borrower |-> borrower, prev_balance |-> prev_balance]

liquidate_collateral(liquidator, borrower) ==
    LET have == collaterals[borrower]
        borrow_limit == compute_borrow_limit(have)
        amounts == query_liquidation_amount(liquidation_config, loan[borrower],
                                            borrow_limit, have)
    IN  /\ can_compute_borrow_limit(have)
        /\ borrow_limit < loan[borrower]
        /\ collaterals' = [collaterals EXCEPT ![borrower] = sub(@, amounts)]
        /\ queue' = [i \in DOMAIN listed(amounts) |->
                       LET t == listed(amounts)[i]
                       IN  LiquidateMessage(whitelist[t].custody_contract,
                                            liquidator, borrower, amounts[t])]
                    \o <<RepayMessage(borrower, bank[Market])>>
        /\ UNCHANGED <<bank, cw20, bids, kvars, loan>>

register_whitelist(sender, token, elem) ==
    /\ sender = Owner
    /\ whitelist[token] = None
    /\ whitelist' = [whitelist EXCEPT ![token] = elem]

update_whitelist(sender, token, elem) ==
    /\ sender = Owner
    /\ whitelist[token] # None
    /\ whitelist' = [whitelist EXCEPT ![token] = elem]

-----------------------------------------------------------------------------
(***************************************************************************)
(* The market's repay_stable_from_liquidation, as a message of the         *)
(* overseer: the last of a liquidation.                                    *)
(***************************************************************************)
can_repay(m) == bank[Market] > m.prev_balance

repay_stable_from_liquidation ==
    /\ Current("repay") /\ can_repay(Head(queue))
    /\ LET m == Head(queue)
           amount == bank[Market] - m.prev_balance
           repay_amount == Lesser(loan[m.borrower], amount)
       IN  /\ loan' = [loan EXCEPT ![m.borrower] = @ - repay_amount]
           /\ Then(IF loan[m.borrower] < amount
                   THEN <<BankSend(Market, m.borrower, amount - repay_amount)>>
                   ELSE <<>>)
    /\ UNCHANGED <<bank, cw20>>

(***************************************************************************)
(* Transactions and their messages                                         *)
(***************************************************************************)
present == [bank |-> bank, cw20 |-> cw20, bids |-> bids, custody |-> custody,
            collaterals |-> collaterals, loan |-> loan]

Goods == [Tokens -> Amounts \cup {0}] \ {No_collateral}

\* Users' transactions.
CustodyTransaction ==
    /\ \E u \in Users, c \in Custodies :
         \/ \E a \in Amounts : deposit_collateral(u, c, a)
         \/ \E a \in Amounts \cup {custody[c][u].spendable} :
              withdraw_collateral(u, c, a)
    /\ UNCHANGED <<oracleVars, lvars, collaterals, whitelist, loan>>

OverseerTransaction ==
    /\ \/ \E u \in Users, g \in Goods : \/ lock_collateral(u, g)
                                        \/ unlock_collateral(u, g)
       \/ \E u, b \in Users : liquidate_collateral(u, b)
    /\ UNCHANGED <<oracleVars, liquidation_config, whitelist>>

BidTransaction ==
    /\ \E u \in Users, t \in Tokens :
         \/ \E p \in PremiumRates, a \in Amounts : submit_bid(u, t, p, a)
         \/ \E a \in Amounts : retract_bid(u, t, a)
    /\ UNCHANGED <<oracleVars, kvars, collaterals, whitelist, loan>>

OracleTransaction ==
    /\ \/ \E s, o \in Users : oracle_update_config(s, o)
       \/ \E s, w \in Users, t \in Tokens : register_feeder(s, t, w)
       \/ \E s \in Users, assets \in SUBSET Tokens \ {{}} :
            \E fed \in [assets -> Prices] : feed_prices(s, fed)
       \/ time_passes
    /\ UNCHANGED <<chainVars, lvars, kvars, collaterals, whitelist, loan>>

Elems == [max_ltv : MaxLtvs, custody_contract : Custodies]

GovernanceTransaction ==
    \/ /\ \E s \in Users, t \in Tokens, e \in Elems :
            /\ CustodyToken[e.custody_contract] = t
            /\ register_whitelist(s, t, e) \/ update_whitelist(s, t, e)
       /\ UNCHANGED <<chainVars, oracleVars, lvars, kvars, collaterals, loan>>
    \/ /\ \E s \in Users, cfg \in LiquidationConfigs : liquidation_update_config(s, cfg)
       /\ UNCHANGED <<oracleVars, kvars, collaterals, whitelist, loan>>
    \/ /\ \E s \in Users, c \in Custodies, cfg \in Keeper :
            custody_update_config(s, c, cfg)
       /\ UNCHANGED <<oracleVars, lvars, collaterals, whitelist, loan>>

\* Interest accrues, the borrower borrows or repays.
MarketTransaction ==
    /\ \E u \in Users, n \in Loans : loan' = [loan EXCEPT ![u] = n]
    /\ UNCHANGED <<chainVars, oracleVars, lvars, kvars, collaterals, whitelist>>

Transaction ==
    /\ Idle
    /\ \/ CustodyTransaction \/ OverseerTransaction \/ BidTransaction
       \/ OracleTransaction \/ GovernanceTransaction \/ MarketTransaction
    /\ saved' = IF queue' = <<>> THEN None ELSE present

ChainMessage ==
    /\ bank_send \/ transfer \/ send
    /\ UNCHANGED <<oracleVars, lvars, kvars, collaterals, whitelist, loan>>
CustodyMessage ==
    /\ \/ custody_lock_collateral \/ custody_unlock_collateral
       \/ custody_liquidate_collateral
    /\ UNCHANGED <<oracleVars, lvars, collaterals, whitelist, loan>>
BidMessage ==
    /\ execute_bid
    /\ UNCHANGED <<oracleVars, kvars, collaterals, whitelist, loan>>
MarketMessage ==
    /\ repay_stable_from_liquidation
    /\ UNCHANGED <<oracleVars, lvars, kvars, collaterals, whitelist>>

Message ==
    /\ ChainMessage \/ CustodyMessage \/ BidMessage \/ MarketMessage
    /\ saved' = IF queue' = <<>> THEN None ELSE saved

Fails(m) ==
    CASE m.type = "bank_send"              -> ~can_bank_send(m)
      [] m.type \in {"transfer", "send"}   -> ~can_transfer(m)
      [] m.type = "lock"                   -> ~can_lock(m)
      [] m.type \in {"unlock", "liquidate"} -> ~can_release(m)
      [] m.type = "execute_bid"            -> ~can_execute_bid(m)
      [] m.type = "repay"                  -> ~can_repay(m)

Revert ==
    /\ ~Idle /\ Fails(Head(queue))
    /\ bank' = saved.bank /\ cw20' = saved.cw20 /\ bids' = saved.bids
    /\ custody' = saved.custody /\ collaterals' = saved.collaterals
    /\ loan' = saved.loan
    /\ queue' = <<>> /\ saved' = None
    /\ UNCHANGED <<oracleVars, liquidation_config, custody_config, whitelist>>

Next == Transaction \/ Message \/ Revert

Spec == Init /\ [][Next]_cvars

-----------------------------------------------------------------------------
(***************************************************************************)
(* Properties.  While a transaction runs, the rest of the world still sees *)
(* the state it started from.                                              *)
(***************************************************************************)
View == IF Idle THEN present ELSE saved

BorrowerInfo == [balance : Nat, spendable : Nat]
Bid == [amount : Nat, premium_rate : Nat]

Stores ==
    [bank : [Accounts -> Nat], cw20 : [Tokens -> [Accounts -> Nat]],
     bids : [Users -> [Tokens -> Bid \cup {None}]],
     custody : [Custodies -> [Users -> BorrowerInfo]],
     collaterals : [Users -> [Tokens -> Nat]], loan : [Users -> Nat]]

PriceInfo == [price : Nat, last_updated_time : Nat]

\* None is no account and nothing that is stored.
ASSUME NoneAssumption ==
    /\ None \notin Users /\ None \notin PriceInfo /\ None \notin Elems
    /\ None \notin Bid /\ None \notin Stores

\* Every stored number is a natural number, and a transaction in progress has
\* something to go back to.
TypeOK ==
    /\ present \in Stores
    /\ Idle <=> saved = None
    /\ ~Idle => saved \in Stores
    /\ oracle_owner \in Users /\ feeder \in [Tokens -> Users \cup {None}]
    /\ prices \in [Tokens -> [price : Nat, last_updated_time : 0 .. time] \cup {None}]
    /\ whitelist \in [Tokens -> Elems \cup {None}]
    /\ liquidation_config \in LiquidationConfigs /\ time \in Nat
    /\ custody_config \in [Custodies -> Keeper]

CustodiesOf(t) == {c \in Custodies : CustodyToken[c] = t}

spendable_of(st, u) ==
    [t \in Tokens |-> SumFunctionOnSet([c \in Custodies |-> st.custody[c][u].spendable],
                                       CustodiesOf(t))]
locked_of(st, u) ==
    [t \in Tokens |-> SumFunctionOnSet(
                        [c \in Custodies |-> st.custody[c][u].balance
                                              - st.custody[c][u].spendable],
                        CustodiesOf(t))]
kept_in(st, c) == SumFunctionOnSet([u \in Users |-> st.custody[c][u].balance], Users)
bid_by(st, u) ==
    SumFunctionOnSet([t \in Tokens |-> IF st.bids[u][t] = None THEN 0
                                       ELSE st.bids[u][t].amount], Tokens)

\* Between transactions the overseer and the custody contracts agree, for every
\* borrower and token, on what is locked: no message got lost, ran twice or ran
\* against another contract, and no transaction that failed half way left a trace.
LedgersAgree ==
    Idle => \A u \in Users : collaterals[u] = locked_of(present, u)

\* A custody contract always holds the tokens its borrowers have with it, also
\* between the messages of a liquidation; and of what the contracts send it no
\* liquidation contract keeps any once a transaction is over.  (Tokens that a holder
\* sends there unasked would stay; such transfers are not modelled.)
CustodyBacked ==
    /\ \A c \in Custodies : kept_in(present, c) <= cw20[CustodyToken[c]][c]
    /\ Idle => \A t \in Tokens, a \in {Liquidation, Successor} : cw20[t][a] = 0

\* The coins of every open bid are in escrow, whatever other bids were executed
\* or retracted and whatever tax those transfers cost.
BidsEscrowed ==
    SumFunctionOnSet([u \in Users |-> bid_by(present, u)], Users) <= bank[Liquidation]

\* Whoever owes nothing can unlock, in one transaction, all that the custody
\* contracts now on the whitelist have locked, and what stays recorded is really
\* locked in one that was replaced.  When nothing stays, no price is asked for.
DebtFreeCanUnlock ==
    Idle => \A u \in Users : loan[u] = 0 =>
      LET here == [t \in Tokens |-> IF whitelist[t] = None THEN 0
                                    ELSE locked_in(whitelist[t].custody_contract, u)]
          left == sub(collaterals[u], here)
      IN  /\ contains(collaterals[u], here)
          /\ left = No_collateral => may_unlock(u, left)
          /\ \A t \in Tokens : left[t] > 0 =>
               \E c \in CustodiesOf(t) : /\ c # whitelist[t].custody_contract
                                         /\ locked_in(c, u) > 0

\* Collateral leaves a borrower's record only when what is left covers the
\* loan, or when the loan was not covered: judged on the transaction as a whole.
ReleasedOnlyIfCovered ==
    [][\A u \in Users :
         ~contains(View'.collaterals[u], View.collaterals[u]) =>
           \/ compute_borrow_limit(View'.collaterals[u]) >= View.loan[u]
           \/ compute_borrow_limit(View.collaterals[u]) < View.loan[u]]_cvars

\* A liquidation forgives no more debt than the coins it brings the market:
\* bid fees, taxes, refunds and the balance the market had before never count.
DebtForgivenIsPaid ==
    [][View'.collaterals # View.collaterals =>
         SumFunctionOnSet([u \in Users |-> View.loan[u] - View'.loan[u]], Users)
           <= View'.bank[Market] - View.bank[Market]]_cvars

\* What rounding may leave of a loan when some of have is sold: a unit and what
\* the ratio loses, which is a Decimal256, and of every token sold a unit's price
\* and five units.  In units of 1/Scale.
rounding(have) ==
    LET held == {t \in Tokens : have[t] > 0}
    IN  collaterals_value(have) + FromUint(1)
          + SumFunctionOnSet([t \in held |-> rate(t) + FromUint(5)], held)

\* A liquidation that leaves the borrower any collateral leaves a loan within
\* safe_ratio of the limit of it (the liquidation contract's README: "a loan
\* position is liquidated until it reaches a safe borrow_amount / borrow_limit
\* ratio"), but for what rounding costs: the share taken allows for the highest
\* premium, the fee and the tax, whichever bid is executed and however it is taxed.
LiquidationRestores ==
    [][\A u \in Users :
         /\ can_compute_borrow_limit(View.collaterals[u])
         /\ View.loan[u] > compute_borrow_limit(View.collaterals[u])
         /\ View'.collaterals[u] # View.collaterals[u]
         /\ contains(View.collaterals[u], View'.collaterals[u])
         /\ View'.collaterals[u] # No_collateral
         => FromUint(View'.loan[u]) <=
              FromUint(UintMulDec(compute_borrow_limit(View'.collaterals[u]),
                                  liquidation_config.safe_ratio))
                + rounding(View.collaterals[u])]_cvars

\* The doc of liquidation_threshold (packages/moneymarket/src/liquidation.rs):
\* "When the current collaterals value is smaller than the threshold, all
\* collaterals will be liquidated".  query_liquidation_amount takes only
\* borrow_amount / expected_repay_amount of them.
BelowThresholdTakesAll ==
    \A u \in Users :
      /\ Idle /\ can_compute_borrow_limit(collaterals[u])
      /\ loan[u] > compute_borrow_limit(collaterals[u])
      /\ collaterals_value(collaterals[u]) < liquidation_config.liquidation_threshold
      => query_liquidation_amount(liquidation_config, loan[u],
                                  compute_borrow_limit(collaterals[u]), collaterals[u])
           = collaterals[u]

\* Message by message, with failures and rollbacks, the contracts implement
\* CollateralLedger, where every transaction is one step or nothing.
Ledger == INSTANCE CollateralLedger
            WITH Holders <- Users, Kinds <- Tokens,
                 free <- [u \in Users |-> spendable_of(View, u)],
                 locked <- View.collaterals

ImplementsLedger == Ledger!LedgerSpec

=============================================================================
