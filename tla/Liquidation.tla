---------------------------- MODULE Liquidation -----------------------------
(***************************************************************************)
(* The liquidation contract (contracts/liquidation): bidders escrow stable *)
(* coins against a collateral token, the overseer asks how much collateral *)
(* to liquidate, and a custody contract sends that collateral in to        *)
(* execute the bid of the liquidator.  A bid and its two indexes are       *)
(* written and removed together (store_bid, remove_bid) and are one map.   *)
(***************************************************************************)
EXTENDS Oracle, Functions

CONSTANTS LiquidationConfigs,   \* values of the contract's Config
          PremiumRates          \* premium_rate a bidder may ask for

VARIABLES bids,                 \* of every bidder and token, a Bid or None
          liquidation_config

lvars == <<bids, liquidation_config>>

LiquidationInit ==
    /\ bids = [u \in Users |-> [t \in Tokens |-> None]]
    /\ liquidation_config \in LiquidationConfigs

-----------------------------------------------------------------------------
(***************************************************************************)
(* query_liquidation_amount: how much of each collateral to liquidate.     *)
(* collaterals maps tokens to amounts; an absent token is a zero.          *)
(***************************************************************************)
collaterals_value(collaterals) ==
    LET held == {t \in Tokens : collaterals[t] > 0}
    IN  SumFunctionOnSet([t \in held |-> UintMulDec(collaterals[t], rate(t))], held)

fee_deductor(cfg) ==
    DecMul(DecMul(One - cfg.max_premium_rate, One - cfg.bid_fee), One - TaxRate)

\* Liquidated up to the limit itself, with no margin.
safe_borrow_amount_Limit(cfg, borrow_limit) == borrow_limit
safe_borrow_amount(cfg, borrow_limit) == UintMulDec(borrow_limit, cfg.safe_ratio)

liquidation_ratio(cfg, borrow_amount, borrow_limit, value) ==
    LET expected_repay_amount == UintMulDec(value, fee_deductor(cfg))
        safe                  == safe_borrow_amount(cfg, borrow_limit)
        part == IF value < cfg.liquidation_threshold
                THEN DecDiv(FromUint(borrow_amount), FromUint(expected_repay_amount))
                ELSE DecDiv(FromUint(borrow_amount - safe),
                            FromUint(expected_repay_amount - safe))
    IN  IF expected_repay_amount <= borrow_amount THEN One ELSE Lesser(One, part)

\* Asked only when borrow_amount > borrow_limit.
query_liquidation_amount(cfg, borrow_amount, borrow_limit, collaterals) ==
    LET ratio == liquidation_ratio(cfg, borrow_amount, borrow_limit,
                                   collaterals_value(collaterals))
    IN  [t \in Tokens |-> UintMulDec(collaterals[t], ratio)]

-----------------------------------------------------------------------------
(***************************************************************************)
(* Bids (bid.rs)                                                           *)
(***************************************************************************)
\* The coins come with the message.
submit_bid(bidder, token, premium_rate, amount) ==
    /\ bids[bidder][token] = None
    /\ premium_rate <= liquidation_config.max_premium_rate
    /\ amount <= bank[bidder]
    /\ bids' = [bids EXCEPT ![bidder][token] =
                  [amount |-> amount, premium_rate |-> premium_rate]]
    /\ bank' = moved(bank, bidder, Liquidation, amount)
    /\ UNCHANGED <<liquidation_config, cw20, queue>>

\* Coins leave, the bid stays.
less_Nothing(bid, amount) == bid

\* A bid drawn down to nothing is removed.
less(bid, amount) ==
    IF bid.amount = amount THEN None ELSE [bid EXCEPT !.amount = @ - amount]

retract_bid(bidder, token, amount) ==
    /\ bids[bidder][token] # None
    /\ amount <= bids[bidder][token].amount
    /\ bids' = [bids EXCEPT ![bidder][token] = less(@, amount)]
    /\ queue' = <<BankSend(Liquidation, bidder, amount)>>
    /\ UNCHANGED <<liquidation_config, bank, cw20>>

\* What the bidder pays: a bid made under a higher max_premium_rate is
\* executed at the present one.
required_stable(bid, token, amount) ==
    UintMulDec(UintMulDec(amount, rate(token)),
               One - Lesser(bid.premium_rate, liquidation_config.max_premium_rate))

can_execute_bid(m) ==
    LET bid == bids[m.liquidator][m.token]
    IN  /\ m.at = Liquidation /\ bid # None
        /\ price_valid(m.token, liquidation_config.price_timeframe)
        /\ required_stable(bid, m.token, m.amount) <= bid.amount

\* The message a custody contract sends, with the market to be repaid and the
\* overseer to get the fee.  The hook is open to any holder of the token, with any
\* liquidator and addresses; that use of it is not modelled.
execute_bid ==
    /\ Current("execute_bid") /\ can_execute_bid(Head(queue))
    /\ LET m == Head(queue)
           required == required_stable(bids[m.liquidator][m.token], m.token, m.amount)
           bid_fee == UintMulDec(required, liquidation_config.bid_fee)
           repay_amount == required - bid_fee
       IN  /\ bids' = [bids EXCEPT ![m.liquidator][m.token] = less(@, required)]
           /\ Then(<<Transfer(m.token, Liquidation, m.liquidator, m.amount),
                     BankSend(Liquidation, Market, repay_amount)>>
                   \o IF bid_fee = 0 THEN <<>>
                      ELSE <<BankSend(Liquidation, Overseer, bid_fee)>>)
    /\ UNCHANGED <<liquidation_config, bank, cw20>>

liquidation_update_config(sender, cfg) ==
    /\ sender = liquidation_config.owner
    /\ liquidation_config' = cfg
    /\ UNCHANGED <<bids, bank, cw20, queue>>
=============================================================================
