---------------------------- MODULE MCCurveMath ----------------------------
(* Enumerates the inputs of CurveMath: one state per choice of a fee, an     *)
(* amount and the two reserves, reached by stepping one input at a time, and *)
(* in every state compares the four functions with what a trade needs of     *)
(* them.                                                                     *)
EXTENDS CurveMath

CONSTANTS
    MaxAmount,    \* bound on the enumerated amount
    MaxReserve    \* bound on either enumerated reserve

ASSUME BoundAssumption == MaxAmount \in U64 /\ MaxReserve \in U64

VARIABLES fee, amount, inReserve, outReserve

vars == <<fee, amount, inReserve, outReserve>>

(* The handlers only reach the curve with reserves above zero: the virtual   *)
(* reserves are, and the real ones add to them.                              *)
Init == fee = 0 /\ amount = 0 /\ inReserve = 1 /\ outReserve = 1

NextFee == fee < MAX_TRADING_FEE /\ fee' = fee + 1
           /\ UNCHANGED <<amount, inReserve, outReserve>>
NextAmount == amount < MaxAmount /\ amount' = amount + 1
              /\ UNCHANGED <<fee, inReserve, outReserve>>
NextInReserve == inReserve < MaxReserve /\ inReserve' = inReserve + 1
                 /\ UNCHANGED <<fee, amount, outReserve>>
NextOutReserve == outReserve < MaxReserve /\ outReserve' = outReserve + 1
                  /\ UNCHANGED <<fee, amount, inReserve>>

Next == NextFee \/ NextAmount \/ NextInReserve \/ NextOutReserve

Spec == Init /\ [][Next]_vars

(* A value the "as u64" casts keep: the properties below are about amounts   *)
(* the program can represent.                                                *)
Fits(n) == n \in U64

-----------------------------------------------------------------------------
(* A buy cut to the curve's headroom pays calculate_total_amount and is      *)
(* charged the fee of that total; what is left must be exactly the headroom, *)
(* or the curve ends one unit away from its threshold although both          *)
(* divisions round (buy.rs:114-118, buy.rs:161-162).                         *)
CappedPaymentIsExact ==
    Fits((amount * Whole) \div (Whole - fee)) =>
        NetOfFee(fee, calculate_total_amount(fee, amount)) = amount

(* Cutting a buy never makes it dearer: when the net payment exceeds the     *)
(* headroom, the recomputed total is at most what the buyer offered          *)
(* (buy.rs:113-116 compares nothing after recomputing).                      *)
CapNeverRaisesThePayment ==
    \A headroom \in 0 .. amount :
        headroom < NetOfFee(fee, amount) =>
            calculate_total_amount(fee, headroom) <= amount

(* Paying for what calculate_output_amount returns never shrinks the product *)
(* of the reserves and never empties the output side (pool/state.rs:70).     *)
OutputKeepsTheProduct ==
    LET out == calculate_output_amount(amount, inReserve, outReserve)
    IN  /\ out <= outReserve
        /\ (inReserve + amount) * (outReserve - out) >= inReserve * outReserve

(* calculate_input_amount rounds down too, in the buyer's favour: by less    *)
(* than one unit of the input token (pool/state.rs:87).                      *)
InputIsShortByLessThanOne ==
    amount < outReserve /\ Fits((amount * inReserve) \div (outReserve - amount)) =>
        LET in == calculate_input_amount(amount, inReserve, outReserve)
        IN  (inReserve + in + 1) * (outReserve - amount) > inReserve * outReserve

(* The exact-base buy that is cut to the headroom recomputes the base amount *)
(* with the other formula (buy.rs:156-159): a buyer who is charged less than *)
(* the price of the order must not receive more than was ordered.            *)
CutOrderIsNotEnlarged ==
    amount < outReserve /\ Fits((amount * inReserve) \div (outReserve - amount)) =>
        \A headroom \in 0 .. calculate_input_amount(amount, inReserve, outReserve) :
            headroom < calculate_input_amount(amount, inReserve, outReserve) =>
                calculate_output_amount(headroom, inReserve, outReserve) <= amount

-----------------------------------------------------------------------------
(* pool/state.rs:85 states the formula of calculate_input_amount:            *)
(* "input_amount = output_amount * input_reserve / (output_reserve -         *)
(* output_amount)".                                                          *)
InputFollowsItsFormula ==
    amount < outReserve =>
        calculate_input_amount(amount, inReserve, outReserve)
            = (amount * inReserve) \div (outReserve - amount)
=============================================================================
