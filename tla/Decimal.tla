------------------------------ MODULE Decimal ------------------------------
(***************************************************************************)
(* The arithmetic of cosmwasm-bignumber as the contracts use it, and the   *)
(* Terra tax helpers of packages/moneymarket/src/querier.rs.               *)
(*                                                                         *)
(* A Uint256 is a natural number.  A Decimal256 is a natural number of     *)
(* 1/Scale units (10^18 in the library).  Every product and quotient       *)
(* rounds down.  A subtraction below zero, and a division by zero, panic   *)
(* in the library and abort the transaction: callers state that as a       *)
(* guard.                                                                  *)
(*                                                                         *)
(* Here and in the other modules a definition named <name>_<Mistake> is a  *)
(* wrong <name>, kept to show which property notices the mistake.          *)
(***************************************************************************)
EXTENDS Integers

CONSTANTS Scale,     \* DECIMAL_FRACTIONAL: units of one
          TaxRate,   \* treasury tax rate, a Decimal256
          TaxCap,    \* treasury tax cap of the stable denom, a Uint256
          ZeroSends  \* whether the bank accepts a transfer of nothing

ASSUME ScaleAssumption == Scale \in Nat /\ Scale > 0
ASSUME TaxAssumption == TaxRate \in Nat /\ TaxCap \in Nat
ASSUME ZeroSendsAssumption == ZeroSends \in BOOLEAN

One == Scale
FromUint(n) == n * Scale
DecMul(a, b) == (a * b) \div Scale
DecDiv(a, b) == (a * Scale) \div b
UintMulDec_RoundsUp(n, d) == (n * d + Scale - 1) \div Scale
UintMulDec(n, d) == (n * d) \div Scale
UintDivDec_RoundsUp(n, d) == (n * Scale + d - 1) \div d
UintDivDec(n, d) == (n * Scale) \div d
Trunc(d) == d \div Scale           \* d * Uint256::one()

Lesser(a, b) == IF a <= b THEN a ELSE b

(***************************************************************************)
(* compute_tax and deduct_tax: what the contract leaves out of a transfer  *)
(* so that the chain's own tax does not take more than the amount it       *)
(* accounts for.                                                           *)
(***************************************************************************)
compute_tax(amount) ==
    Lesser(amount - UintDivDec(amount, One + TaxRate), TaxCap)

deduct_tax_Nothing(amount) == amount
deduct_tax(amount) == amount - compute_tax(amount)

(***************************************************************************)
(* The chain charges the sender of a bank transfer a tax of its own, on    *)
(* top of what is sent.  Outlay(amount) is what leaves the sender when it  *)
(* sends deduct_tax(amount).                                               *)
(***************************************************************************)
chain_tax(sent) == Lesser(UintMulDec(sent, TaxRate), TaxCap)
Outlay(amount) == deduct_tax(amount) + chain_tax(deduct_tax(amount))

\* A BankMsg::Send of deduct_tax(amount) is accepted: the handlers test the
\* amount before the tax is taken off, the bank tests what is left.
Sendable(amount) == ZeroSends \/ deduct_tax(amount) > 0

=============================================================================
