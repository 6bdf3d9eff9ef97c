------------------------------- MODULE Oracle -------------------------------
(***************************************************************************)
(* The price oracle (contracts/oracle) and the price query the other       *)
(* contracts make of it (packages/moneymarket/src/querier.rs).  The quote  *)
(* is always the oracle's base asset, whose price is one for ever.         *)
(***************************************************************************)
EXTENDS Chain

CONSTANT Prices        \* prices a feeder may feed

VARIABLES oracle_owner,   \* Config.owner
          feeder,         \* feeder of every asset, or None
          prices,         \* PriceInfo of every asset, or None
          time            \* block time

OracleInit ==
    /\ oracle_owner \in Users
    /\ feeder = [t \in Tokens |-> None]
    /\ prices = [t \in Tokens |-> None]
    /\ time = 0

\* query_price returned and its last_updated_base lies within the timeframe.
price_valid(token, timeframe) ==
    /\ prices[token] # None
    /\ time - timeframe <= prices[token].last_updated_time

rate(token) == DecDiv(prices[token].price, One)

-----------------------------------------------------------------------------
oracle_update_config(sender, owner) ==
    /\ sender = oracle_owner
    /\ oracle_owner' = owner
    /\ UNCHANGED <<feeder, prices, time>>

register_feeder(sender, asset, who) ==
    /\ sender = oracle_owner
    /\ feeder' = [feeder EXCEPT ![asset] = who]
    /\ UNCHANGED <<oracle_owner, prices, time>>

\* fed: the new price of some assets; one foreign asset fails the message.
feed_prices(sender, fed) ==
    /\ \A asset \in DOMAIN fed : feeder[asset] = sender
    /\ prices' = [t \in Tokens |->
                    IF t \in DOMAIN fed
                    THEN [price |-> fed[t], last_updated_time |-> time]
                    ELSE prices[t]]
    /\ UNCHANGED <<oracle_owner, feeder, time>>

time_passes ==
    /\ time' = time + 1
    /\ UNCHANGED <<oracle_owner, feeder, prices>>
=============================================================================
