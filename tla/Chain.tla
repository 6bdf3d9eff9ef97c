------------------------------- MODULE Chain --------------------------------
(***************************************************************************)
(* The chain under the contracts, as they use it: stable coins in bank     *)
(* accounts, cw20 collateral tokens, and the messages that move them.  The *)
(* contracts that return these messages are modelled in Custody,           *)
(* Liquidation and Collateral.                                             *)
(***************************************************************************)
EXTENDS Decimal, Messages, FiniteSets

CONSTANTS Users,       \* accounts of people: borrowers, bidders, owners
          Tokens,      \* cw20 tokens that may be collateral
          Custodies,   \* custody contracts
          Wallet,      \* coins, and tokens of each kind, a user starts with; the
                       \* market starts with as many coins, deposits of others
          None         \* no price, no feeder, no bid, nothing saved

Overseer == "overseer"
Market == "market"
Liquidation == "liquidation"
Successor == "successor"    \* a later liquidation contract, with no bids yet

Accounts == Users \cup Custodies \cup {Overseer, Market, Liquidation, Successor}

\* There are finitely many accounts, and a contract has an address of its own.
ASSUME AccountsAssumption ==
    /\ IsFiniteSet(Users) /\ IsFiniteSet(Tokens) /\ IsFiniteSet(Custodies)
    /\ Users \cap Custodies = {}
    /\ {Overseer, Market, Liquidation, Successor} \cap (Users \cup Custodies) = {}

VARIABLES bank,    \* stable coins of every account
          cw20     \* of every token, the balance of every account

ChainInit ==
    /\ bank = [a \in Accounts |-> IF a \in Users \cup {Market} THEN Wallet ELSE 0]
    /\ cw20 = [t \in Tokens |-> [a \in Accounts |-> IF a \in Users THEN Wallet ELSE 0]]
    /\ queue = <<>>

BankSend(from, to, amount) ==
    [type |-> "bank_send", from |-> from, to |-> to, amount |-> amount]

Transfer(token, from, to, amount) ==
    [type |-> "transfer", token |-> token, from |-> from, to |-> to, amount |-> amount]

\* A cw20 Send to a liquidation contract, with an ExecuteBid hook.
SendToBid(token, from, to, liquidator, amount) ==
    [type |-> "send", token |-> token, from |-> from, to |-> to,
     liquidator |-> liquidator, amount |-> amount]

moved(balance, from, to, amount) ==
    [balance EXCEPT ![from] = @ - amount, ![to] = @ + amount]

-----------------------------------------------------------------------------
\* Bank Send of deduct_tax(amount).  The chain's tax comes on top.
can_bank_send(m) == Sendable(m.amount) /\ Outlay(m.amount) <= bank[m.from]

bank_send ==
    /\ Current("bank_send") /\ can_bank_send(Head(queue))
    /\ LET m == Head(queue)
       IN  bank' = [bank EXCEPT ![m.from] = @ - Outlay(m.amount),
                                ![m.to] = @ + deduct_tax(m.amount)]
    /\ Then(<<>>)
    /\ UNCHANGED cw20

can_transfer(m) == m.amount <= cw20[m.token][m.from]

transfer ==
    /\ Current("transfer") /\ can_transfer(Head(queue))
    /\ LET m == Head(queue)
       IN  cw20' = [cw20 EXCEPT ![m.token] = moved(@, m.from, m.to, m.amount)]
    /\ Then(<<>>)
    /\ UNCHANGED bank

\* The token moves the amount and then calls the receiver's hook.
send ==
    /\ Current("send") /\ can_transfer(Head(queue))
    /\ LET m == Head(queue)
       IN  /\ cw20' = [cw20 EXCEPT ![m.token] =
                         moved(@, m.from, m.to, m.amount)]
           /\ Then(<<[type |-> "execute_bid", token |-> m.token, at |-> m.to,
                      liquidator |-> m.liquidator, amount |-> m.amount]>>)
    /\ UNCHANGED bank
=============================================================================
