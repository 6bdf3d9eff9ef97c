------------------------------ MODULE MCMarket ------------------------------
(***************************************************************************)
(* Instances of Market for TLC: the configurations of the two models.      *)
(***************************************************************************)
EXTENDS Market

CONSTANTS alice, bob,
          MaxHeight,   \* bound: last block height
          MaxCalls     \* bound: steps of a behaviour, blocks included

VARIABLE calls         \* steps taken, to bound the instance

\* A flat curve and a steep one.
Flat  == [owner |-> alice, base_rate |-> 1, interest_multiplier |-> 0]
Steep == [owner |-> alice, base_rate |-> 1, interest_multiplier |-> 5]

TwoInterest == {Steep, Flat}

NoEmission == {[owner |-> alice, emission_cap |-> 0, emission_floor |-> 0,
                increment_multiplier |-> 0, decrement_multiplier |-> 0]}
Emission == {[owner |-> alice, emission_cap |-> 400, emission_floor |-> 100,
              increment_multiplier |-> 200, decrement_multiplier |-> 50]}

\* With a hundred units to one, so that what rounding loses stays small.
Precise == {[owner |-> alice, base_rate |-> 7, interest_multiplier |-> 50]}

MCvars == <<mvars, calls>>

Done == calls = MaxCalls /\ UNCHANGED MCvars

MCNext ==
    \/ calls < MaxCalls /\ calls' = calls + 1 /\ Next /\ height' <= MaxHeight
    \/ Done

MCInit == Init /\ calls = 0

MCSpec == MCInit /\ [][MCNext]_MCvars
=============================================================================
