----------------------------- MODULE RateModels -----------------------------
(***************************************************************************)
(* The two contracts the market asks for rates: the interest model (what   *)
(* borrowers pay per block) and the distribution model (how many ANC are   *)
(* emitted per block).  Each is a configuration its owner may replace and  *)
(* one pure query; the configurations are records                          *)
(*   interest model      [owner, base_rate, interest_multiplier]           *)
(*   distribution model  [owner, emission_cap, emission_floor,             *)
(*                        increment_multiplier, decrement_multiplier]      *)
(***************************************************************************)
EXTENDS Decimal

(***************************************************************************)
(* The interest model's query_borrow_rate: linear in the share of the      *)
(* market's value that is lent out.                                        *)
(***************************************************************************)
query_borrow_rate(cfg, market_balance, total_liabilities, total_reserves) ==
    LET total_value == FromUint(market_balance) + total_liabilities - total_reserves
        utilization == IF total_value = 0 THEN 0
                       ELSE DecDiv(total_liabilities, total_value)
    IN  DecMul(utilization, cfg.interest_multiplier) + cfg.base_rate

(***************************************************************************)
(* The distribution model's query_anc_emission_rate: emit more while       *)
(* deposits earn too little, less while they earn too much, within         *)
(* [emission_floor, emission_cap].                                         *)
(***************************************************************************)
query_anc_emission_rate(cfg, deposit_rate, target, threshold, current) ==
    LET mid_rate     == DecDiv(threshold + target, 2 * One)
        high_trigger == DecDiv(mid_rate + target, 2 * One)
        low_trigger  == DecDiv(mid_rate + threshold, 2 * One)
        rate == IF deposit_rate < low_trigger
                THEN DecMul(current, cfg.increment_multiplier)
                ELSE IF deposit_rate > high_trigger
                     THEN DecMul(current, cfg.decrement_multiplier)
                     ELSE current
    IN  IF rate > cfg.emission_cap THEN cfg.emission_cap
        ELSE IF rate < cfg.emission_floor THEN cfg.emission_floor
        ELSE rate

(***************************************************************************)
(* update_config of either model: only the owner may replace the           *)
(* configuration, and the market is not told.                              *)
(***************************************************************************)
may_update_model(cfg, sender) == sender = cfg.owner

=============================================================================
