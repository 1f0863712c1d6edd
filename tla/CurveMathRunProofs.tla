-------------------------- MODULE CurveMathRunProofs --------------------------
(* The invariants of MCCurveMath for every width of the integers, every fee  *)
(* and every amount and reserve a u64 holds, not only those TLC enumerates.  *)
EXTENDS MCCurveMath, CurveMathProofs

(* The inputs a handler may pass: u64, with reserves above zero.             *)
InputsOK ==
    /\ fee \in Fees
    /\ amount \in U64
    /\ inReserve \in U64 \ {0}
    /\ outReserve \in U64 \ {0}

LEMMA BoundFacts ==
    /\ MaxAmount \in Nat /\ MaxAmount <= U64_MAX
    /\ MaxReserve \in Nat /\ MaxReserve <= U64_MAX
    /\ MAX_TRADING_FEE \in Nat
  BY BoundAssumption, WidthAssumption, FeeAssumption, SMT DEF U64, MAX_TRADING_FEE

LEMMA InputsAlwaysOK == Spec => []InputsOK
<1>1. Init => InputsOK
  BY WidthAssumption, BoundFacts, SMT DEF Init, InputsOK, U64, Fees
<1>2. InputsOK /\ [Next]_vars => InputsOK'
  <2> SUFFICES ASSUME InputsOK, [Next]_vars PROVE InputsOK'
    OBVIOUS
  <2>1. CASE NextFee
    BY <2>1, BoundFacts, SMT DEF NextFee, InputsOK, Fees
  <2>2. CASE NextAmount
    BY <2>2, BoundFacts, WidthAssumption, SMT DEF NextAmount, InputsOK, U64
  <2>3. CASE NextInReserve
    BY <2>3, BoundFacts, WidthAssumption, SMT DEF NextInReserve, InputsOK, U64
  <2>4. CASE NextOutReserve
    BY <2>4, BoundFacts, WidthAssumption, SMT DEF NextOutReserve, InputsOK, U64
  <2>5. CASE UNCHANGED vars
    BY <2>5 DEF vars, InputsOK
  <2> QED BY <2>1, <2>2, <2>3, <2>4, <2>5 DEF Next
<1> QED BY <1>1, <1>2, PTL DEF Spec

LEMMA InputFacts ==
    ASSUME InputsOK
    PROVE  /\ amount \in Nat /\ amount <= U64_MAX
           /\ inReserve \in Nat \ {0} /\ inReserve \in U64
           /\ outReserve \in Nat \ {0} /\ outReserve \in U64
  BY WidthAssumption, SMT DEF InputsOK, U64

(* A buy cut to the headroom brings the pool exactly the headroom, although  *)
(* the total and the fee of the total are both rounded (buy.rs:114-118).     *)
THEOREM CutPaymentIsAlwaysExact == Spec => []CappedPaymentIsExact
<1>1. InputsOK => CappedPaymentIsExact
  BY CutPaymentIsExact DEF InputsOK, CappedPaymentIsExact, Fits, TotalQuotient
<1> QED BY <1>1, InputsAlwaysOK, PTL

(* Cutting a buy never makes it dearer than what was offered                 *)
(* (buy.rs:113-116).                                                         *)
THEOREM CutIsAlwaysWithinBudget == Spec => []CapNeverRaisesThePayment
<1>1. ASSUME InputsOK, NEW headroom \in 0 .. amount, headroom < NetOfFee(fee, amount)
      PROVE  calculate_total_amount(fee, headroom) <= amount
  <2>1. headroom \in U64
    BY InputFacts, <1>1, WidthAssumption, SMT DEF U64
  <2> QED BY <1>1, <2>1, CutPaymentIsWithinBudget DEF InputsOK
<1>2. InputsOK => CapNeverRaisesThePayment
  BY <1>1 DEF CapNeverRaisesThePayment
<1> QED BY <1>2, InputsAlwaysOK, PTL

(* What calculate_output_amount returns never shrinks the product of the     *)
(* reserves and never exceeds the output side (pool/state.rs:70).            *)
THEOREM OutputAlwaysKeepsTheProduct == Spec => []OutputKeepsTheProduct
<1>1. ASSUME InputsOK PROVE OutputKeepsTheProduct
  <2> DEFINE out == calculate_output_amount(amount, inReserve, outReserve)
  <2>1. out <= outReserve /\ out \in Nat
    <3>1. out <= outReserve /\ out \in U64
      BY <1>1, InputFacts, OutputBounds
    <3> HIDE DEF out
    <3> QED BY <3>1, WidthAssumption, SMT DEF U64
  <2>2. inReserve * outReserve <= (inReserve + amount) * (outReserve - out)
    BY <1>1, InputFacts, OutputKeepsProduct
  <2> HIDE DEF out
  <2>3. /\ inReserve * outReserve \in Int
        /\ (inReserve + amount) * (outReserve - out) \in Int
    BY <1>1, <2>1, InputFacts, SMT
  <2>4. (inReserve + amount) * (outReserve - out) >= inReserve * outReserve
    BY <2>2, <2>3
  <2> QED BY <2>1, <2>4 DEF OutputKeepsTheProduct, out
<1> QED BY <1>1, InputsAlwaysOK, PTL

(* The price of an exact-base buy, when a u64 holds it, is short of the      *)
(* constant product by less than one unit (pool/state.rs:87).                *)
THEOREM InputIsAlwaysShortByLessThanOne == Spec => []InputIsShortByLessThanOne
<1>1. ASSUME InputsOK, amount < outReserve,
             (amount * inReserve) \div (outReserve - amount) \in U64
      PROVE  LET in == calculate_input_amount(amount, inReserve, outReserve)
             IN  (inReserve + in + 1) * (outReserve - amount) > inReserve * outReserve
  <2> DEFINE in == calculate_input_amount(amount, inReserve, outReserve)
  <2>1. in \in U64 /\ inReserve * outReserve < (inReserve + in + 1) * (outReserve - amount)
    BY <1>1, InputFacts, InputIsShortByLessThanOneUnit
  <2>2. in \in Nat
    BY <2>1, WidthAssumption, SMT DEF U64
  <2> HIDE DEF in
  <2>3. (inReserve + in + 1) * (outReserve - amount) > inReserve * outReserve
    <3>1. /\ inReserve * outReserve \in Int
          /\ (inReserve + in + 1) * (outReserve - amount) \in Int
      BY <1>1, <2>2, InputFacts, SMT
    <3> QED BY <2>1, <3>1
  <2> QED BY <2>3 DEF in
<1>2. InputsOK => InputIsShortByLessThanOne
  BY <1>1 DEF InputIsShortByLessThanOne, Fits
<1> QED BY <1>2, InputsAlwaysOK, PTL

(* An order cut to a headroom below its price never delivers more than was   *)
(* ordered, whichever of the two formulas rounds more (buy.rs:156-159).      *)
THEOREM CutOrderIsNeverEnlarged == Spec => []CutOrderIsNotEnlarged
<1>1. ASSUME InputsOK, amount < outReserve,
             NEW headroom \in Nat,
             headroom < calculate_input_amount(amount, inReserve, outReserve)
      PROVE  calculate_output_amount(headroom, inReserve, outReserve) <= amount
  <2>1. inReserve > 0
    BY <1>1, InputFacts
  <2> QED BY <1>1, <2>1, InputFacts, CutOrderIsNotEnlargedByTheCut
<1>2. InputsOK => CutOrderIsNotEnlarged
  BY <1>1 DEF CutOrderIsNotEnlarged
<1> QED BY <1>2, InputsAlwaysOK, PTL
=============================================================================
