---------------------------- MODULE MCCollateral ----------------------------
(***************************************************************************)
(* Instances of Collateral for TLC.                                        *)
(***************************************************************************)
EXTENDS Collateral

CONSTANTS alice, bob, bluna, beth, custody1, custody2,
          Borrowers,   \* bound: who deposits, locks and has loans
          Bidders,     \* bound: who bids and liquidates
          Keepers,     \* bound: configurations that custody contracts have
          MaxTime,     \* bound: last block time
          MaxCalls     \* bound: transactions of a behaviour

VARIABLE calls         \* transactions started, to bound the instance

OneCustody == custody1 :> bluna
TwoCustodies == (custody1 :> bluna) @@ (custody2 :> bluna)
TwoTokens == (custody1 :> bluna) @@ (custody2 :> beth)

Config(premium, threshold) ==
    [owner |-> alice, safe_ratio |-> 8, bid_fee |-> 1, max_premium_rate |-> premium,
     liquidation_threshold |-> threshold, price_timeframe |-> 0]

\* With a hundred units to one, and amounts of thousands, so that little of them
\* rounds away.
Hundredths(premium, threshold) ==
    [owner |-> alice, safe_ratio |-> 80, bid_fee |-> 1, max_premium_rate |-> premium,
     liquidation_threshold |-> threshold, price_timeframe |-> 0]
Precise == {Hundredths(10, 0), Hundredths(0, 100000)}

BelowThreshold == {Config(0, 100)}
OneConfig == {Config(1, 0)}

Kept == {[owner |-> alice, liquidation_contract |-> Liquidation]}
Replaced == Kept \cup {[owner |-> alice, liquidation_contract |-> Successor],
                       [owner |-> bob, liquidation_contract |-> Liquidation]}

\* After deployment: feeders and whitelist registered, a first price fed.
Deployed ==
    /\ ChainInit /\ LiquidationInit /\ CustodyInit
    /\ oracle_owner = alice /\ feeder = [t \in Tokens |-> alice] /\ time = 0
    /\ \E p \in Prices :
         prices = [t \in Tokens |-> [price |-> p, last_updated_time |-> 0]]
    /\ collaterals = [u \in Users |-> No_collateral]
    /\ \E l \in MaxLtvs :
         whitelist = [t \in Tokens |->
                        [max_ltv |-> l, custody_contract |-> CHOOSE c \in Custodies :
                                                               CustodyToken[c] = t]]
    /\ loan = [u \in Users |-> 0]
    /\ saved = None

MCvars == <<cvars, calls>>

Done == Idle /\ calls = MaxCalls /\ UNCHANGED MCvars

Bounds ==
    /\ time' <= MaxTime
    /\ \A u \in Users \ Borrowers : loan'[u] = 0 /\ \A c \in Custodies :
                                      custody'[c][u].balance = 0
    /\ \A u \in Users \ Bidders : bids'[u] = bids[u]
    /\ \A c \in Custodies : custody_config'[c] \in Keepers

MCNext ==
    \/ Transaction /\ calls < MaxCalls /\ calls' = calls + 1 /\ Bounds
    \/ (Message \/ Revert) /\ UNCHANGED calls
    \/ Done

Owned == \A c \in Custodies : custody_config[c].owner = alice

MCInit == Init /\ Owned /\ calls = 0
MCDeployed == Deployed /\ Owned /\ calls = 0

MCSpec == MCInit /\ [][MCNext]_MCvars
MCDeployedSpec == MCDeployed /\ [][MCNext]_MCvars
=============================================================================
