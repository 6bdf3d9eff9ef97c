----------------------------- MODULE Migration ------------------------------
(***************************************************************************)
(* The market's migrate (contract.rs, migration.rs): a market stored by    *)
(* the older version, whose State lacks prev_aterra_supply and             *)
(* prev_exchange_rate, is rewritten once and then runs as module Market.   *)
(* How the older version works is not part of the repository;              *)
(* LegacyMarkets says what it may leave behind.                            *)
(***************************************************************************)
EXTENDS Market

CONSTANT LegacyMarkets   \* markets as the older version stored them

LegacyState ==
    [total_liabilities : Nat, total_reserves : Nat, last_interest_updated : Nat,
     last_reward_updated : Nat, global_interest_index : Nat,
     global_reward_index : Nat, anc_emission_rate : Nat]

LegacyMarket ==
    [state : LegacyState, borrower_info : [Users -> BorrowerInfo],
     bank : Nat, aterra_supply : Nat, height : Nat]

\* aTerra is worth at least what was paid for the first, and the indexes are in
\* order: what the new handlers rely on and migrate does not check.
ASSUME LegacyAssumption ==
    /\ LegacyMarkets \subseteq LegacyMarket
    /\ \A l \in LegacyMarkets :
         /\ One * l.aterra_supply <= pool_value(l.state, l.bank)
         /\ l.aterra_supply >= InitialDeposit
         /\ 0 < l.state.last_interest_updated
         /\ l.state.last_interest_updated <= l.height
         /\ l.state.last_reward_updated <= l.height
         /\ One <= l.state.global_interest_index
         /\ \A u \in Users :
              /\ One <= l.borrower_info[u].interest_index
              /\ l.borrower_info[u].interest_index <= l.state.global_interest_index
              /\ l.borrower_info[u].reward_index <= l.state.global_reward_index

VARIABLES migrated,      \* whether the new layout is stored
          legacy_rate,   \* history: the exchange rate before the migration
          burned         \* history: whether holders have burned aTerra since

migrationVars == <<mvars, migrated, legacy_rate, burned>>

MigrationInit ==
    /\ \E l \in LegacyMarkets :
         /\ state = l.state /\ borrower_info = l.borrower_info
         /\ bank = l.bank /\ aterra_supply = l.aterra_supply /\ height = l.height
    /\ config \in [owner_addr : Users, interest_model : InterestModels,
                   distribution_model : DistributionModels,
                   max_borrow_factor : BorrowFactors, registered : {TRUE}]
    /\ interest_config \in [InterestModels -> InterestConfigs]
    /\ emission_config \in [DistributionModels -> EmissionConfigs]
    /\ spent = 0 /\ emitted = 0
    /\ migrated = FALSE /\ burned = FALSE
    /\ legacy_rate = compute_exchange_rate_raw(state, aterra_supply, bank)

\* The values a new market starts with.
migrated_rate_One == One
migrated_rate == compute_exchange_rate_raw(state, aterra_supply, bank)

migrated_supply_Unset == 0
migrated_supply == aterra_supply

migrate_state ==
    [total_liabilities |-> state.total_liabilities,
     total_reserves |-> state.total_reserves,
     last_interest_updated |-> state.last_interest_updated,
     last_reward_updated |-> state.last_reward_updated,
     global_interest_index |-> state.global_interest_index,
     global_reward_index |-> state.global_reward_index,
     anc_emission_rate |-> state.anc_emission_rate,
     prev_aterra_supply |-> migrated_supply,
     prev_exchange_rate |-> migrated_rate]

\* Config loses reserve_factor, without which a second migrate cannot read it.
migrate_config == ~migrated /\ migrated' = TRUE /\ UNCHANGED config

migrate ==
    /\ migrate_config
    /\ pool_value(state, bank) >= 0
    /\ state' = migrate_state
    /\ UNCHANGED <<borrower_info, bank, aterra_supply, interest_config,
                   emission_config, height, spent, emitted, legacy_rate, burned>>

MigrationNext ==
    \/ migrate
    \/ /\ migrated /\ Next
       /\ burned' = (burned \/ ahead' > ahead)
       /\ UNCHANGED <<migrated, legacy_rate>>

MigrationSpec == MigrationInit /\ [][MigrationNext]_migrationVars

-----------------------------------------------------------------------------
\* A migrated market is as good as a new one: the rate it now publishes is
\* backed, prev_aterra_supply lacks no aTerra, and until holders burn some
\* interest can be computed at any later block, the long time since the last
\* update of the older version included.
MigratedSafe ==
    migrated => /\ RateBacked /\ IndexesOrdered
                /\ IF burned THEN ahead >= 0 ELSE Undisturbed
                /\ InterestNeverStuck

\* No depositor loses to the migration: at the first update after it, and as
\* long as no holder burns aTerra, it is worth what it was worth before.
LegacyRateKept ==
    migrated /\ ~burned =>
      compute_exchange_rate_raw(state, aterra_supply, bank) >= legacy_rate

=============================================================================
