---------------------------- MODULE MCBorrowing -----------------------------
(***************************************************************************)
(* Instances of Borrowing for TLC.                                         *)
(***************************************************************************)
EXTENDS Borrowing

CONSTANTS alice, bob,
          MaxHeight,   \* bound: last block height
          MaxCalls     \* bound: steps of a behaviour, blocks included

VARIABLE calls         \* steps taken, to bound the instance

Steep == [owner |-> bob, base_rate |-> 1, interest_multiplier |-> 5]
OneInterest == {Steep}
NoEmission == {[owner |-> bob, emission_cap |-> 0, emission_floor |-> 0,
                increment_multiplier |-> 0, decrement_multiplier |-> 0]}

MCvars == <<bvars, calls>>

Done == calls = MaxCalls /\ UNCHANGED MCvars

\* The owner of the market stays alice, and bob is never liquidated: he is there
\* to move the interest rate.
MCNext ==
    \/ /\ calls < MaxCalls /\ calls' = calls + 1
       /\ BorrowingNext
       /\ height' <= MaxHeight /\ config'.owner_addr = alice /\ liquidated' \subseteq {alice}
    \/ Done

MCInit == BorrowingInit /\ calls = 0 /\ config.owner_addr = alice

MCSpec == MCInit /\ [][MCNext]_MCvars
=============================================================================
