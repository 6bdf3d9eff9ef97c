---------------------------- MODULE MCMigration -----------------------------
(***************************************************************************)
(* Instances of Migration for TLC: small markets of the older version.     *)
(***************************************************************************)
EXTENDS Migration

CONSTANTS alice,
          MaxHeight,   \* bound: last block height
          MaxCalls     \* bound: steps of a behaviour, blocks included

VARIABLE calls         \* steps taken, to bound the instance

Steep == {[owner |-> alice, base_rate |-> 1, interest_multiplier |-> 5]}
NoEmission == {[owner |-> alice, emission_cap |-> 0, emission_floor |-> 0,
                increment_multiplier |-> 0, decrement_multiplier |-> 0]}

\* Seven aTerra and perhaps a loan of four, at an index of 1 or 1.5, with
\* interest in the pool and in the reserves.
Legacy(at, coins, loan, liabilities, reserves, index) ==
    [state |-> [total_liabilities |-> liabilities, total_reserves |-> reserves,
                last_interest_updated |-> at, last_reward_updated |-> at,
                global_interest_index |-> index, global_reward_index |-> 0,
                anc_emission_rate |-> 0],
     borrower_info |-> [u \in Users |-> [interest_index |-> index, reward_index |-> 0,
                                         loan_amount |-> loan, pending_rewards |-> 0]],
     bank |-> coins, aterra_supply |-> 7, height |-> 2]

OldMarkets ==
    {Legacy(at, 12, 0, 0, r, i) : at \in {1, 2}, r \in {0, 8, 45}, i \in {10, 15}}
    \cup {Legacy(at, 5, 4, d, r, i) : at \in {1, 2}, d \in {40, 46}, r \in {0, 13},
                                      i \in {10, 15}}

MCvars == <<migrationVars, calls>>

Done == calls = MaxCalls /\ UNCHANGED MCvars

MCNext ==
    \/ calls < MaxCalls /\ calls' = calls + 1 /\ MigrationNext /\ height' <= MaxHeight
    \/ Done

MCInit == MigrationInit /\ calls = 0

MCSpec == MCInit /\ [][MCNext]_MCvars
=============================================================================
