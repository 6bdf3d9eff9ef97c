------------------------------ MODULE Custody -------------------------------
(***************************************************************************)
(* Custody contracts (contracts/custody_bluna): each holds one collateral  *)
(* token, and of every borrower the balance and the part of it that is     *)
(* spendable.  The rest is locked, and only the overseer locks, unlocks    *)
(* and liquidates.                                                         *)
(***************************************************************************)
EXTENDS Chain

CONSTANT CustodyToken     \* collateral_token of every custody contract

ASSUME CustodyAssumption == CustodyToken \in [Custodies -> Tokens]

VARIABLES custody,         \* of every contract and borrower, the BorrowerInfo
          custody_config   \* of every contract, what of its Config may change

kvars == <<custody, custody_config>>

Keeper == [owner : Users, liquidation_contract : {Liquidation, Successor}]

CustodyInit ==
    /\ custody = [c \in Custodies |-> [u \in Users |-> [balance |-> 0, spendable |-> 0]]]
    /\ \E u \in Users :
         custody_config = [c \in Custodies |-> [owner |-> u,
                                               liquidation_contract |-> Liquidation]]

locked_in(c, u) == custody[c][u].balance - custody[c][u].spendable

\* Messages of the overseer.
LockMessage(c, borrower, amount) ==
    [type |-> "lock", custody |-> c, borrower |-> borrower, amount |-> amount]
UnlockMessage(c, borrower, amount) ==
    [type |-> "unlock", custody |-> c, borrower |-> borrower, amount |-> amount]
LiquidateMessage(c, liquidator, borrower, amount) ==
    [type |-> "liquidate", custody |-> c, liquidator |-> liquidator,
     borrower |-> borrower, amount |-> amount]

-----------------------------------------------------------------------------
\* The token sends the amount in and calls receive_cw20.
deposit_collateral(borrower, c, amount) ==
    /\ amount <= cw20[CustodyToken[c]][borrower]
    /\ cw20' = [cw20 EXCEPT ![CustodyToken[c]] = moved(@, borrower, c, amount)]
    /\ custody' = [custody EXCEPT ![c][borrower] =
                       [balance |-> @.balance + amount,
                        spendable |-> @.spendable + amount]]
    /\ UNCHANGED <<custody_config, bank, queue>>

\* Locked collateral may be withdrawn too.
withdraw_collateral_Locked(borrower, c, amount) ==
    /\ amount <= custody[c][borrower].balance
    /\ custody' = [custody EXCEPT ![c][borrower] =
                       [balance |-> @.balance - amount,
                        spendable |-> @.spendable - amount]]
    /\ queue' = <<Transfer(CustodyToken[c], c, borrower, amount)>>
    /\ UNCHANGED <<custody_config, bank, cw20>>

withdraw_collateral(borrower, c, amount) ==
    /\ amount <= custody[c][borrower].spendable
    /\ custody' = [custody EXCEPT ![c][borrower] =
                       [balance |-> @.balance - amount,
                        spendable |-> @.spendable - amount]]
    /\ queue' = <<Transfer(CustodyToken[c], c, borrower, amount)>>
    /\ UNCHANGED <<custody_config, bank, cw20>>

can_lock(m) == m.amount <= custody[m.custody][m.borrower].spendable

\* What is locked stays spendable.
custody_lock_collateral_Spendable ==
    /\ Current("lock") /\ can_lock(Head(queue))
    /\ Then(<<>>)
    /\ UNCHANGED <<kvars, bank, cw20>>

custody_lock_collateral ==
    /\ Current("lock") /\ can_lock(Head(queue))
    /\ LET m == Head(queue)
       IN  custody' = [custody EXCEPT ![m.custody][m.borrower].spendable = @ - m.amount]
    /\ Then(<<>>)
    /\ UNCHANGED <<custody_config, bank, cw20>>

\* The check of unlock and of liquidate.
can_release(m) == m.amount <= locked_in(m.custody, m.borrower)

custody_unlock_collateral ==
    /\ Current("unlock") /\ can_release(Head(queue))
    /\ LET m == Head(queue)
       IN  custody' = [custody EXCEPT ![m.custody][m.borrower].spendable = @ + m.amount]
    /\ Then(<<>>)
    /\ UNCHANGED <<custody_config, bank, cw20>>

\* The borrower keeps a balance that is sold.
custody_liquidate_collateral_KeepsBalance ==
    /\ Current("liquidate") /\ can_release(Head(queue))
    /\ LET m == Head(queue)
       IN  /\ custody' = [custody EXCEPT ![m.custody][m.borrower].spendable = @ + m.amount]
           /\ Then(<<SendToBid(CustodyToken[m.custody], m.custody,
                               custody_config[m.custody].liquidation_contract,
                               m.liquidator, m.amount)>>)
    /\ UNCHANGED <<custody_config, bank, cw20>>

\* What is sold comes out of the spendable part, as in a withdrawal.
custody_liquidate_collateral_FromSpendable ==
    /\ Current("liquidate") /\ can_release(Head(queue))
    /\ LET m == Head(queue)
       IN  /\ custody' = [custody EXCEPT ![m.custody][m.borrower] =
                             [balance |-> @.balance - m.amount,
                              spendable |-> @.spendable - m.amount]]
           /\ Then(<<SendToBid(CustodyToken[m.custody], m.custody,
                               custody_config[m.custody].liquidation_contract,
                               m.liquidator, m.amount)>>)
    /\ UNCHANGED <<custody_config, bank, cw20>>

custody_liquidate_collateral ==
    /\ Current("liquidate") /\ can_release(Head(queue))
    /\ LET m == Head(queue)
       IN  /\ custody' = [custody EXCEPT ![m.custody][m.borrower].balance = @ - m.amount]
           /\ Then(<<SendToBid(CustodyToken[m.custody], m.custody,
                               custody_config[m.custody].liquidation_contract,
                               m.liquidator, m.amount)>>)
    /\ UNCHANGED <<custody_config, bank, cw20>>

custody_update_config(sender, c, cfg) ==
    /\ sender = custody_config[c].owner
    /\ custody_config' = [custody_config EXCEPT ![c] = cfg]
    /\ UNCHANGED <<custody, bank, cw20, queue>>
=============================================================================
