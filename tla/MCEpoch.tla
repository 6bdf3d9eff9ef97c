------------------------------ MODULE MCEpoch -------------------------------
(***************************************************************************)
(* Instances of Epoch for TLC.  They start with some tokens whitelisted.   *)
(***************************************************************************)
EXTENDS Epoch

CONSTANTS alice, luna, krt, custody1, custody2,
          Listed,      \* whitelist at the start
          MaxHeight,   \* bound: last block height
          MaxCalls     \* bound: transactions and blocks of a behaviour

VARIABLE calls         \* transactions and blocks so far, to bound the instance

Steep == {[owner |-> alice, base_rate |-> 1, interest_multiplier |-> 5]}
Emission == {[owner |-> alice, emission_cap |-> 0, emission_floor |-> 0,
              increment_multiplier |-> 0, decrement_multiplier |-> 0]}

Config(target_rate, threshold, distribution_factor, purchase_factor) ==
    [owner_addr |-> alice, epoch_period |-> 1, target_deposit_rate |-> target_rate,
     threshold_deposit_rate |-> threshold,
     buffer_distribution_factor |-> distribution_factor,
     anc_purchase_factor |-> purchase_factor]

\* The first one, one with a lower threshold, and one with factors above one,
\* which update_config accepts as well.
Moderately == Config(1, 40, 100, 10)
OverseerChoices == {Moderately, Config(1, 20, 100, 10), Config(1, 40, 150, 200)}

OneToken == <<custody1>>
AllCustodies == FoldSet(LAMBDA c, listed : Append(listed, c), <<>>, Custodies)

Mixed == {[stable |-> 1, other |-> [d \in Denoms |-> 2]]}
Staked == {[stable |-> 0, other |-> [d \in Denoms |-> 2]]}

MCvars == <<evars, calls>>

Done == Idle /\ calls = MaxCalls /\ UNCHANGED MCvars

MCNext ==
    \/ /\ calls < MaxCalls /\ Transaction /\ height' <= MaxHeight
       /\ calls' = IF config.registered = config'.registered THEN calls + 1 ELSE calls
    \/ (Message \/ Revert) /\ UNCHANGED calls
    \/ Done

MCInit ==
    Init /\ DistributionInit /\ OverseerInit /\ whitelist = Listed
    /\ overseer_config = Moderately /\ calls = 0

MCSpec == MCInit /\ [][MCNext]_MCvars

\* The weak fairness of EpochSpec, with ~Idle for ENABLED (Message \/ Revert):
\* TLC checks that they are the same when it looks for deadlocks.
MCFairSpec == MCSpec /\ ([]<>Idle \/ []<><<Message \/ Revert>>_MCvars)
=============================================================================
