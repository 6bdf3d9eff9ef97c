----------------------------- MODULE RateFloor -----------------------------
(***************************************************************************)
(* What a money market promises its depositors, with nothing of how: a     *)
(* pool of some value is divided into shares, and there is a floor price   *)
(* per share that the value always covers.  The floor only ever rises,     *)
(* unless shares were thrown away: then the market may price them once     *)
(* more, and only then settle for less.                                    *)
(* Market implements it (ToRateFloor in MarketProofs).                     *)
(***************************************************************************)
EXTENDS Integers

CONSTANT InitialFloor   \* price of a share at the start, in units of value

VARIABLES value,      \* what the pool is worth
          shares,     \* shares that have a claim on it
          discarded,  \* shares thrown away that the market still reckons with
          floor       \* price that every share is worth at least

floorVars == <<value, shares, discarded, floor>>

Covered == floor * shares <= value

FloorInit ==
    /\ floor = InitialFloor /\ shares \in Nat /\ value \in Int
    /\ discarded = 0 /\ Covered

\* Shares are sold and bought back, the pool earns and pays out: at the price
\* of the moment, and never so that the shares left lose the floor.
Trade ==
    /\ value' \in Int /\ shares' \in Nat /\ floor' \in Nat
    /\ discarded' \in {discarded, 0}
    /\ discarded = 0 => floor' >= floor
    /\ Covered'

\* A holder throws shares away, which changes nothing else.
Discard ==
    /\ shares' \in Nat /\ shares' < shares
    /\ discarded' = discarded + (shares - shares')
    /\ UNCHANGED <<value, floor>>

FloorSpec == FloorInit /\ [][Trade \/ Discard]_floorVars
=============================================================================
