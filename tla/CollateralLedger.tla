-------------------------- MODULE CollateralLedger --------------------------
(***************************************************************************)
(* What the system promises a borrower about collateral, with none of its  *)
(* contracts and messages: of every token some is free and some is locked, *)
(* and one step does one thing to one borrower, in full or not at all.     *)
(* Collateral implements it.                                               *)
(***************************************************************************)
EXTENDS Integers

CONSTANTS Holders,   \* who has collateral
          Kinds      \* kinds of collateral

VARIABLES free,      \* of every holder and kind, what may be withdrawn
          locked     \* of every holder and kind, what secures a loan

ledgerVars == <<free, locked>>

Nothing == [h \in Holders |-> [k \in Kinds |-> 0]]

LedgerInit == free = Nothing /\ locked = Nothing

\* Only h's account moves, from its part f and l to newFree and newLocked.
Account(h, newFree, newLocked) ==
    /\ newFree \in [Kinds -> Nat] /\ newLocked \in [Kinds -> Nat]
    /\ free' = [free EXCEPT ![h] = newFree]
    /\ locked' = [locked EXCEPT ![h] = newLocked]

Deposit(h)  == /\ Account(h, free'[h], locked[h])
               /\ \A k \in Kinds : free'[h][k] >= free[h][k]
Withdraw(h) == /\ Account(h, free'[h], locked[h])
               /\ \A k \in Kinds : free'[h][k] <= free[h][k]
Lock(h)     == /\ Account(h, free'[h], locked'[h])
               /\ \A k \in Kinds : /\ free'[h][k] <= free[h][k]
                                   /\ free'[h][k] + locked'[h][k] = free[h][k] + locked[h][k]
Unlock(h)   == /\ Account(h, free'[h], locked'[h])
               /\ \A k \in Kinds : /\ free'[h][k] >= free[h][k]
                                   /\ free'[h][k] + locked'[h][k] = free[h][k] + locked[h][k]
Seize(h)    == /\ Account(h, free[h], locked'[h])
               /\ \A k \in Kinds : locked'[h][k] <= locked[h][k]

LedgerNext == \E h \in Holders :
                Deposit(h) \/ Withdraw(h) \/ Lock(h) \/ Unlock(h) \/ Seize(h)

LedgerSpec == LedgerInit /\ [][LedgerNext]_ledgerVars
=============================================================================
