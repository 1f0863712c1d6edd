----------------------------- MODULE CurveMath -----------------------------
(* The arithmetic every trade of the bonding curve goes through: the trading *)
(* fee of utils.rs and the constant-product formulas of pool/state.rs.       *)
(*                                                                           *)
(* Amounts are u64.  Products are taken in u128, which two u64 factors never *)
(* overflow, so "checked_mul(..).unwrap()" is plain multiplication here; the *)
(* final "as u64" cast is AsU64, which drops the high bits.                  *)
EXTENDS Integers

CONSTANTS
    U64_MAX,      \* largest u64 (2^64 - 1 in the program, small under TLC)
    FEE_PER_DIV,  \* constants.rs: fee units in one per cent
    PERCENT       \* the literal 100 of utils.rs

ASSUME WidthAssumption == U64_MAX \in Nat \ {0}
ASSUME FeeAssumption ==
    /\ FEE_PER_DIV \in Nat \ {0}
    /\ PERCENT \in Nat
    /\ PERCENT > 5

U64 == 0 .. U64_MAX

(* "n as u64" for a u128 value n. *)
AsU64(n) == n % (U64_MAX + 1)

MAX_TRADING_FEE == 5 * FEE_PER_DIV

(* The fee is trading_fee units out of Whole. *)
Whole == FEE_PER_DIV * PERCENT

-----------------------------------------------------------------------------
(* Fee on a payment of "amount" that includes it. *)
calculate_trading_fee(fee, amount) ==
    AsU64(((amount * fee) \div FEE_PER_DIV) \div PERCENT)

(* Mutant: the total as the input plus the fee of the input.                  *)
TotalByAddingTheFee(fee, input_amount) ==
    AsU64(input_amount + (input_amount * fee) \div Whole)

(* Mutant: the fee taken out of the divisor twice.                           *)
TotalWithFeeTwice(fee, input_amount) ==
    AsU64((input_amount * Whole) \div (Whole - 2 * fee))

(* Payment whose part left after the fee is meant to be input_amount. *)
calculate_total_amount(fee, input_amount) ==
    AsU64((input_amount * Whole) \div (Whole - fee))

(* Mutant: the price before the trade, without the input in the divisor.     *)
OutputAtSpotPrice(input_amount, input_reserve, output_reserve) ==
    AsU64((output_reserve * input_amount) \div input_reserve)

(* Mutant: rounded up, in the trader's favour.                               *)
OutputRoundedUp(input_amount, input_reserve, output_reserve) ==
    AsU64((output_reserve * input_amount + input_reserve + input_amount - 1)
              \div (input_reserve + input_amount))

(* Constant product: what comes out for a given input, rounded down. *)
calculate_output_amount(input_amount, input_reserve, output_reserve) ==
    AsU64((output_reserve * input_amount) \div (input_reserve + input_amount))

(* Mutant: the price before the trade, the output left in the divisor.       *)
InputAtSpotPrice(output_amount, input_reserve, output_reserve) ==
    AsU64((output_amount * input_reserve) \div output_reserve)

(* Constant product: what must go in for a given output, also rounded down. *)
calculate_input_amount(output_amount, input_reserve, output_reserve) ==
    AsU64((output_amount * input_reserve) \div (output_reserve - output_amount))

(* Mutant: the fee is charged on top of the payment.                         *)
FeeOnTop(fee, amount) == amount

(* What is left of a payment once the fee is taken. *)
NetOfFee(fee, amount) == amount - calculate_trading_fee(fee, amount)
=============================================================================
