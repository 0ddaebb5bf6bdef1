-------------------------------- MODULE Fees -------------------------------
(***************************************************************************)
(* split_fee, the fee calculation shared by the contracts that charge a    *)
(* protocol fee (packages/contracts/contracts/types/src/helpers.rs).       *)
(***************************************************************************)
EXTENDS Integers

\* the fee of an amount, in basis points and rounded down
Fee(amount, bps) == (amount * bps) \div 10000

\* the product fits into an i128: otherwise split_fee panics
FeeFits(amount, bps, maxI128) == bps = 0 \/ amount * bps <= maxI128
=============================================================================
