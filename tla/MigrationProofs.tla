--------------------------- MODULE MigrationProofs ---------------------------
(***************************************************************************)
(* Theorems about Migration, for every value of its constants: migrate     *)
(* makes a state that satisfies the invariant of Market, of which the rest *)
(* follows.                                                                *)
(***************************************************************************)
EXTENDS Migration, MarketProofs

\* What is known of the stored market until it is migrated.
LegacyGood ==
    /\ state \in LegacyState /\ borrower_info \in [Users -> BorrowerInfo]
    /\ bank \in Nat /\ aterra_supply \in Nat /\ height \in Nat
    /\ One * aterra_supply <= pool_value(state, bank)
    /\ aterra_supply >= InitialDeposit
    /\ 0 < state.last_interest_updated /\ state.last_interest_updated <= height
    /\ state.last_reward_updated <= height
    /\ One <= state.global_interest_index
    /\ \A u \in Users :
         /\ One <= borrower_info[u].interest_index
         /\ borrower_info[u].interest_index <= state.global_interest_index
         /\ borrower_info[u].reward_index <= state.global_reward_index
    /\ config \in MarketConfig
    /\ interest_config \in [InterestModels -> InterestConfigs]
    /\ emission_config \in [DistributionModels -> EmissionConfigs]
    /\ spent = 0 /\ emitted = 0
    /\ legacy_rate = compute_exchange_rate_raw(state, aterra_supply, bank)

\* Before and after the migration.
MigrationInv ==
    /\ migrated \in BOOLEAN /\ burned \in BOOLEAN
    /\ ~migrated => LegacyGood /\ ~burned
    /\ migrated => IInv /\ legacy_rate \in Int /\ legacy_rate > 0
    /\ migrated /\ ~burned => ahead = 0 /\ state.prev_exchange_rate >= legacy_rate

LEMMA MigrationInitGood == MigrationInit => MigrationInv
<1> SUFFICES ASSUME MigrationInit PROVE MigrationInv
  OBVIOUS
<1>1. PICK l \in LegacyMarkets :
        /\ state = l.state /\ borrower_info = l.borrower_info
        /\ bank = l.bank /\ aterra_supply = l.aterra_supply /\ height = l.height
  BY DEF MigrationInit
<1>2. l \in LegacyMarket
  BY LegacyAssumption
<1>3. /\ state \in LegacyState /\ borrower_info \in [Users -> BorrowerInfo]
      /\ bank \in Nat /\ aterra_supply \in Nat /\ height \in Nat
  BY <1>1, <1>2 DEF LegacyMarket
<1>4. config \in MarketConfig
  BY DEF MigrationInit, MarketConfig
<1>5. LegacyGood
  BY <1>1, <1>3, <1>4, LegacyAssumption DEF MigrationInit, LegacyGood
<1> QED
  BY <1>5 DEF MigrationInit, MigrationInv

\* The migrated state: the rate is published as it was, and the pool backs it.
LEMMA MigrateGood ==
  ASSUME LegacyGood, migrate
  PROVE  /\ IInv' /\ ahead' = 0
         /\ state'.prev_exchange_rate = legacy_rate /\ legacy_rate \in Int /\ legacy_rate > 0
<1> DEFINE base == [total_liabilities |-> state.total_liabilities,
                    total_reserves |-> state.total_reserves,
                    last_interest_updated |-> state.last_interest_updated,
                    last_reward_updated |-> state.last_reward_updated,
                    global_interest_index |-> state.global_interest_index,
                    global_reward_index |-> state.global_reward_index,
                    anc_emission_rate |-> state.anc_emission_rate,
                    prev_aterra_supply |-> aterra_supply,
                    prev_exchange_rate |-> One]
<1>1. /\ Scale \in Nat /\ Scale > 0 /\ InitialDeposit \in Nat /\ InitialDeposit > 0
      /\ bank \in Nat /\ aterra_supply \in Nat /\ aterra_supply > 0
  BY ScaleAssumption, MarketAssumption, SMT DEF LegacyGood
<1>2. base \in MarketState
  BY <1>1 DEF LegacyGood, LegacyState, MarketState, One
<1>3. /\ pool_value(base, bank) = pool_value(state, bank)
      /\ compute_exchange_rate_raw(base, aterra_supply, bank) = legacy_rate
  BY DEF pool_value, compute_exchange_rate_raw, LegacyGood
<1> HIDE DEF base
<1>4. /\ legacy_rate \in Int /\ pool_value(state, bank) \in Int
      /\ legacy_rate * aterra_supply <= pool_value(state, bank)
      /\ \A k \in Int : k * aterra_supply <= pool_value(state, bank) => k <= legacy_rate
  BY <1>1, <1>2, <1>3, RateGreatest
<1>5. legacy_rate >= One /\ legacy_rate \in Nat
  BY <1>1, <1>4, SMT DEF LegacyGood, One
<1>6. /\ state' = migrate_state
      /\ UNCHANGED <<config, borrower_info, bank, aterra_supply, interest_config,
                     emission_config, height, spent, emitted>>
  BY DEF migrate, migrate_config
<1>7. /\ state'.total_liabilities = state.total_liabilities
      /\ state'.total_reserves = state.total_reserves
      /\ state'.last_interest_updated = state.last_interest_updated
      /\ state'.last_reward_updated = state.last_reward_updated
      /\ state'.global_interest_index = state.global_interest_index
      /\ state'.global_reward_index = state.global_reward_index
      /\ state'.prev_aterra_supply = aterra_supply
      /\ state'.prev_exchange_rate = legacy_rate
  BY <1>6 DEF migrate_state, migrated_supply, migrated_rate, LegacyGood
<1>8. state' \in MarketState
  BY <1>1, <1>5, <1>6
     DEF migrate_state, migrated_supply, migrated_rate, LegacyGood, LegacyState, MarketState
<1>9. TypeOK'
  BY <1>1, <1>6, <1>8 DEF TypeOK, LegacyGood
<1>10. RateBacked'
  <2>1. pool_value(state, bank)' = pool_value(state, bank)
    BY <1>6, <1>7 DEF pool_value, FromUint
  <2> QED
    BY <2>1, <1>4, <1>5, <1>6, <1>7 DEF RateBacked, LegacyGood, One
<1>11. ahead' = 0
  BY <1>6, <1>7, SMT DEF ahead, LegacyGood, LegacyState
<1>12. IndexesOrdered'
  BY <1>6, <1>7 DEF IndexesOrdered, LegacyGood, One
<1> QED
  BY <1>1, <1>5, <1>7, <1>9, <1>10, <1>11, <1>12, SMT DEF IInv, One

LEMMA MigrationStepGood ==
  ASSUME MigrationInv, [MigrationNext]_migrationVars
  PROVE  MigrationInv'
<1>1. CASE migrate
  <2>1. LegacyGood /\ ~burned
    BY <1>1 DEF migrate, migrate_config, MigrationInv
  <2>2. /\ IInv' /\ ahead' = 0
        /\ state'.prev_exchange_rate = legacy_rate /\ legacy_rate \in Int /\ legacy_rate > 0
    BY <1>1, <2>1, MigrateGood
  <2>3. migrated' = TRUE /\ legacy_rate' = legacy_rate /\ burned' = burned
    BY <1>1 DEF migrate, migrate_config
  <2> QED
    BY <2>1, <2>2, <2>3, SMT DEF MigrationInv
<1>2. CASE /\ migrated /\ [Next]_mvars /\ burned' = (burned \/ ahead' > ahead)
           /\ UNCHANGED <<migrated, legacy_rate>>
  <2>1. IInv /\ legacy_rate \in Int /\ legacy_rate > 0 /\ burned \in BOOLEAN
    BY <1>2 DEF MigrationInv
  <2>2. StepGood
    BY <1>2, <2>1, StepIsGood
  <2>3. state.prev_exchange_rate \in Int /\ state'.prev_exchange_rate \in Int
    BY <2>1, <2>2, SMT DEF StepGood, IInv, TypeOK, MarketState
  <2>4. ASSUME ~burned'
        PROVE  ahead' = 0 /\ state'.prev_exchange_rate >= legacy_rate
    <3>1. ~burned /\ ~(ahead' > ahead)
      BY <1>2, <2>4
    <3>2. ahead = 0 /\ state.prev_exchange_rate >= legacy_rate
      BY <1>2, <3>1 DEF MigrationInv
    <3>3. /\ ahead' \in {ahead, 0}
          /\ state'.prev_exchange_rate >= state.prev_exchange_rate
      BY <2>2, <3>1, <3>2 DEF StepGood
    <3> QED
      BY <2>1, <2>3, <3>2, <3>3, SMT
  <2> QED
    BY <1>2, <2>1, <2>2, <2>4 DEF MigrationInv, StepGood
<1>3. CASE ~migrated /\ UNCHANGED migrationVars
  BY <1>3 DEF MigrationInv, migrationVars, mvars, LegacyGood,
     compute_exchange_rate_raw, pool_value, DecDiv, FromUint
<1>4. CASE migrated /\ UNCHANGED migrationVars
  <2>1. ahead' = ahead /\ UNCHANGED mvars
    BY <1>4 DEF migrationVars, mvars, ahead
  <2>2. IInv'
    BY <1>4, <2>1, StepIsGood DEF MigrationInv, StepGood
  <2> QED
    BY <1>4, <2>1, <2>2 DEF MigrationInv, migrationVars, mvars
<1> QED
  BY <1>1, <1>2, <1>3, <1>4 DEF MigrationNext, MigrationInv

LEMMA MigrationInvariance == MigrationSpec => []MigrationInv
<1>1. MigrationInv /\ [MigrationNext]_migrationVars => MigrationInv'
  BY MigrationStepGood
<1> QED
  BY <1>1, MigrationInitGood, PTL DEF MigrationSpec

\* Whatever market the older version left, with its coins worth at least its
\* aTerra, migrate makes one whose published rate is backed, then and ever after,
\* and that never panics in accrual until holders burn aTerra.
THEOREM MigratedIsSafe == MigrationSpec => []MigratedSafe
<1>1. MigrationInv => MigratedSafe
  <2> SUFFICES ASSUME MigrationInv, migrated PROVE MigratedSafe
    BY DEF MigratedSafe
  <2>1. IInv /\ legacy_rate \in Int /\ legacy_rate > 0 /\ InterestNeverStuck
    BY NeverStuck DEF MigrationInv
  <2>2. ~burned => Undisturbed
    <3>1. state.prev_exchange_rate \in Int
      BY <2>1 DEF IInv, TypeOK, MarketState
    <3> QED
      BY <2>1, <3>1, SMT DEF MigrationInv, Undisturbed
  <2> QED
    BY <2>1, <2>2 DEF MigratedSafe, IInv
<1> QED
  BY <1>1, MigrationInvariance, PTL

\* The exchange rate of the older version is a floor until holders burn aTerra.
THEOREM RateSurvivesMigration == MigrationSpec => []LegacyRateKept
<1>1. MigrationInv => LegacyRateKept
  <2> SUFFICES ASSUME MigrationInv, migrated, ~burned
               PROVE  compute_exchange_rate_raw(state, aterra_supply, bank) >= legacy_rate
    BY DEF LegacyRateKept
  <2>1. IInv /\ state.prev_exchange_rate >= legacy_rate /\ legacy_rate \in Int
    BY DEF MigrationInv
  <2>2. StateGood(state, aterra_supply, bank)
    BY <2>1, BeforeGood
  <2>3. /\ state \in MarketState
        /\ compute_exchange_rate_raw(state, aterra_supply, bank) \in Nat
        /\ compute_exchange_rate_raw(state, aterra_supply, bank)
             >= state.prev_exchange_rate
    BY <2>1, <2>2, GoodNumbers
  <2> QED
    BY <2>1, <2>3, SMT DEF MarketState
<1> QED
  BY <1>1, MigrationInvariance, PTL
=============================================================================
