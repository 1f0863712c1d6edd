--------------------------- MODULE CurveMathProofs ---------------------------
(* What the functions of CurveMath return, for every width of the integers,  *)
(* every fee up to MAX_TRADING_FEE and every amount: the facts the handlers  *)
(* rely on, and the lemmas the proofs about PumpFun cite.                    *)
EXTENDS CurveMath, TLAPS

Fees == 0 .. MAX_TRADING_FEE

-----------------------------------------------------------------------------
(* Integer division, as the provers need it stated.                          *)
LEMMA DivBounds ==
    ASSUME NEW n \in Nat, NEW d \in Nat \ {0}
    PROVE  /\ n \div d \in Nat
           /\ d * (n \div d) <= n
           /\ n < d * (n \div d) + d
  BY SMT

(* A smaller factor of the same divisor.                                     *)
LEMMA ProductMonotone ==
    ASSUME NEW a \in Int, NEW b \in Int, NEW c \in Nat, a <= b
    PROVE  c * a <= c * b
  BY SMT

LEMMA CancelFactor ==
    ASSUME NEW a \in Int, NEW b \in Int, NEW c \in Nat \ {0}, c * a < c * b
    PROVE  a < b
<1>1. SUFFICES ASSUME b <= a PROVE FALSE
  OBVIOUS
<1>2. c * b <= c * a
  BY <1>1, ProductMonotone
<1> QED BY <1>2

(* The cast keeps what fits and never returns more than it is given.         *)
LEMMA CastFacts ==
    ASSUME NEW n \in Nat
    PROVE  /\ AsU64(n) \in U64
           /\ AsU64(n) <= n
           /\ n \in U64 => AsU64(n) = n
  BY WidthAssumption, SMT DEF AsU64, U64

(* The fee is a proper part of Whole.                                        *)
LEMMA WholeFacts ==
    ASSUME NEW fee \in Fees
    PROVE  /\ Whole \in Nat \ {0}
           /\ fee \in Nat
           /\ Whole - fee \in Nat \ {0}
           /\ MAX_TRADING_FEE \in Nat
<1>1. FEE_PER_DIV * 6 <= FEE_PER_DIV * PERCENT
  BY FeeAssumption, ProductMonotone
<1> QED BY <1>1, FeeAssumption, SMT DEF Whole, Fees, MAX_TRADING_FEE

(* The two divisions of calculate_trading_fee amount to one, by Whole, and   *)
(* the fee never exceeds the payment it is taken from.                       *)
LEMMA FeeBounds ==
    ASSUME NEW fee \in Fees, NEW amount \in U64
    PROVE  LET g == calculate_trading_fee(fee, amount)
           IN  /\ g \in U64
               /\ g <= amount
               /\ Whole * g <= amount * fee
               /\ amount * fee < Whole * g + Whole
<1> DEFINE a == (amount * fee) \div FEE_PER_DIV
           g == a \div PERCENT
<1>0. amount \in Nat /\ fee \in Nat /\ Whole \in Nat \ {0} /\ amount * fee \in Nat
  BY WholeFacts, WidthAssumption, SMT DEF U64
<1>1. a \in Nat /\ FEE_PER_DIV * a <= amount * fee
      /\ amount * fee < FEE_PER_DIV * a + FEE_PER_DIV
  BY <1>0, FeeAssumption, DivBounds
<1>2. g \in Nat /\ PERCENT * g <= a /\ a + 1 <= PERCENT * g + PERCENT
  <2>1. PERCENT \in Nat \ {0}
    BY FeeAssumption
  <2>2. g \in Nat /\ PERCENT * g <= a /\ a < PERCENT * g + PERCENT
    BY <1>1, <2>1, DivBounds
  <2> QED BY <2>1, <2>2, <1>1
<1> HIDE DEF a, g
<1>3. Whole * g <= amount * fee
  <2>1. FEE_PER_DIV * (PERCENT * g) <= FEE_PER_DIV * a
    BY <1>1, <1>2, FeeAssumption, ProductMonotone
  <2>2. FEE_PER_DIV * (PERCENT * g) = Whole * g
    BY <1>2, FeeAssumption, SMT DEF Whole
  <2> QED BY <2>1, <2>2, <1>1, <1>0, <1>2, FeeAssumption
<1>4. amount * fee < Whole * g + Whole
  <2>1. FEE_PER_DIV * (a + 1) <= FEE_PER_DIV * (PERCENT * g + PERCENT)
    BY <1>1, <1>2, FeeAssumption, ProductMonotone
  <2>2. FEE_PER_DIV * (PERCENT * g + PERCENT) = Whole * g + Whole
    BY <1>2, FeeAssumption, SMT DEF Whole
  <2>3. FEE_PER_DIV * (a + 1) = FEE_PER_DIV * a + FEE_PER_DIV
    BY <1>1, FeeAssumption, SMT
  <2> QED BY <2>1, <2>2, <2>3, <1>1, <1>0, <1>2, FeeAssumption
<1>5. g <= amount
  <2>1. amount * fee <= amount * Whole
    BY <1>0, WholeFacts, ProductMonotone
  <2>2. Whole * g < Whole * (amount + 1)
    BY <2>1, <1>3, <1>0, <1>2, SMT
  <2>3. g < amount + 1
    BY <2>2, <1>0, <1>2, CancelFactor
  <2> QED BY <2>3, <1>0, <1>2
<1>6. calculate_trading_fee(fee, amount) = g /\ g \in U64
  <2>1. g \in U64
    BY <1>2, <1>5, WidthAssumption, SMT DEF U64
  <2> QED BY <2>1, <1>2, CastFacts DEF calculate_trading_fee, a, g
<1> QED BY <1>3, <1>4, <1>5, <1>6

LEMMA NetFacts ==
    ASSUME NEW fee \in Fees, NEW amount \in U64
    PROVE  NetOfFee(fee, amount) \in U64 /\ NetOfFee(fee, amount) <= amount
  BY FeeBounds, WidthAssumption, SMT DEF NetOfFee, U64

-----------------------------------------------------------------------------
(* The quotient calculate_total_amount computes, before its cast.            *)
TotalQuotient(fee, input_amount) == (input_amount * Whole) \div (Whole - fee)

LEMMA TotalBounds ==
    ASSUME NEW fee \in Fees, NEW headroom \in U64
    PROVE  LET t0 == TotalQuotient(fee, headroom)
               t  == calculate_total_amount(fee, headroom)
           IN  /\ t0 \in Nat
               /\ t \in U64
               /\ t <= t0
               /\ t0 \in U64 => t = t0
               /\ t0 * (Whole - fee) <= headroom * Whole
               /\ headroom * Whole < t0 * (Whole - fee) + (Whole - fee)
<1> DEFINE t0 == TotalQuotient(fee, headroom)
<1>1. headroom * Whole \in Nat
  BY WholeFacts, WidthAssumption, SMT DEF U64
<1>2. t0 \in Nat /\ (Whole - fee) * t0 <= headroom * Whole
      /\ headroom * Whole < (Whole - fee) * t0 + (Whole - fee)
  BY <1>1, WholeFacts, DivBounds DEF TotalQuotient
<1>3. (Whole - fee) * t0 = t0 * (Whole - fee)
  <2> HIDE DEF t0
  <2> QED BY <1>2, WholeFacts, SMT
<1>4. calculate_total_amount(fee, headroom) = AsU64(t0)
  BY DEF calculate_total_amount, TotalQuotient
<1> HIDE DEF t0
<1> QED BY <1>2, <1>3, <1>4, CastFacts DEF t0

(* A buy cut to the headroom never brings the pool more than the headroom,   *)
(* whether or not the cast of the total drops bits (buy.rs:114-118): the     *)
(* curve cannot go beyond its threshold.                                     *)
THEOREM CutPaymentFitsTheHeadroom ==
    ASSUME NEW fee \in Fees, NEW headroom \in U64
    PROVE  NetOfFee(fee, calculate_total_amount(fee, headroom)) <= headroom
<1> DEFINE t0 == TotalQuotient(fee, headroom)
           t  == calculate_total_amount(fee, headroom)
           g  == calculate_trading_fee(fee, t)
<1>0. headroom \in Nat /\ fee \in Nat /\ Whole \in Nat \ {0} /\ Whole - fee \in Nat \ {0}
  BY WholeFacts, WidthAssumption, SMT DEF U64
<1>1. t0 \in Nat /\ t \in U64 /\ t \in Nat /\ t <= t0 /\ t0 * (Whole - fee) <= headroom * Whole
  BY TotalBounds, WidthAssumption, SMT DEF U64
<1>2. g \in Nat /\ t * fee < Whole * g + Whole
  BY <1>1, FeeBounds, WidthAssumption, SMT DEF U64
<1>3. NetOfFee(fee, t) = t - g
  BY DEF NetOfFee
<1> HIDE DEF t0, t, g
<1>4. t * (Whole - fee) <= t0 * (Whole - fee)
  BY <1>0, <1>1, SMT
<1>5. t * (Whole - fee) = Whole * t - t * fee
  BY <1>0, <1>1, SMT
<1>6. Whole * (t - g) = Whole * t - Whole * g
  BY <1>0, <1>1, <1>2, SMT
<1>7. Whole * (headroom + 1) = headroom * Whole + Whole
  BY <1>0, SMT
<1>8. Whole * (t - g) < Whole * (headroom + 1)
  BY <1>0, <1>1, <1>2, <1>4, <1>5, <1>6, <1>7, SMT
<1>9. t - g < headroom + 1
  BY <1>8, <1>0, <1>1, <1>2, CancelFactor
<1> QED BY <1>3, <1>9, <1>0, <1>1, <1>2 DEF t

(* When the total fits a u64, the pool receives exactly the headroom although*)
(* both divisions round: a cut buy fills the curve to the last unit.         *)
THEOREM CutPaymentIsExact ==
    ASSUME NEW fee \in Fees, NEW headroom \in U64,
           TotalQuotient(fee, headroom) \in U64
    PROVE  NetOfFee(fee, calculate_total_amount(fee, headroom)) = headroom
<1> DEFINE t0 == TotalQuotient(fee, headroom)
           t  == calculate_total_amount(fee, headroom)
           g  == calculate_trading_fee(fee, t)
<1>0. headroom \in Nat /\ fee \in Nat /\ Whole \in Nat \ {0} /\ Whole - fee \in Nat \ {0}
  BY WholeFacts, WidthAssumption, SMT DEF U64
<1>1. t \in U64 /\ t \in Nat /\ t = t0
      /\ headroom * Whole < t0 * (Whole - fee) + (Whole - fee)
  BY TotalBounds, WidthAssumption, SMT DEF U64
<1>2. g \in Nat /\ Whole * g <= t * fee
  BY <1>1, FeeBounds, WidthAssumption, SMT DEF U64
<1>3. NetOfFee(fee, t) = t - g
  BY DEF NetOfFee
<1>4. NetOfFee(fee, t) <= headroom
  BY CutPaymentFitsTheHeadroom
<1> HIDE DEF t0, t, g
<1>5. t * (Whole - fee) = Whole * t - t * fee
  BY <1>0, <1>1, SMT
<1>6. Whole * (t - g) = Whole * t - Whole * g
  BY <1>0, <1>1, <1>2, SMT
<1>7. Whole * (headroom - 1) = headroom * Whole - Whole
  BY <1>0, SMT
<1>8. Whole * (headroom - 1) < Whole * (t - g)
  BY <1>0, <1>1, <1>2, <1>5, <1>6, <1>7, SMT
<1>9. headroom - 1 < t - g
  BY <1>8, <1>0, <1>1, <1>2, CancelFactor
<1> QED BY <1>3, <1>4, <1>9, <1>0, <1>1, <1>2 DEF t

(* The total of a headroom below a net payment, before its cast, is within   *)
(* the payment.                                                              *)
LEMMA CutTotalIsWithinBudget ==
    ASSUME NEW fee \in Fees, NEW amount \in U64, NEW headroom \in U64,
           headroom < NetOfFee(fee, amount)
    PROVE  TotalQuotient(fee, headroom) <= amount
<1> DEFINE t0 == TotalQuotient(fee, headroom)
           g  == calculate_trading_fee(fee, amount)
<1>0. headroom \in Nat /\ amount \in Nat /\ fee \in Nat /\ Whole \in Nat \ {0}
      /\ Whole - fee \in Nat \ {0}
  BY WholeFacts, WidthAssumption, SMT DEF U64
<1>1. t0 \in Nat /\ t0 * (Whole - fee) <= headroom * Whole
  BY TotalBounds, WidthAssumption, SMT DEF U64
<1>2. g \in Nat /\ amount * fee < Whole * g + Whole
  BY FeeBounds, WidthAssumption, SMT DEF U64
<1>3. headroom + 1 <= amount - g
  BY <1>0, <1>2 DEF NetOfFee
<1> HIDE DEF t0, g
<1>4. Whole * (headroom + 1) <= Whole * (amount - g)
  BY <1>0, <1>2, <1>3, ProductMonotone
<1>5. /\ Whole * (headroom + 1) = headroom * Whole + Whole
      /\ Whole * (amount - g) = Whole * amount - Whole * g
      /\ (Whole - fee) * amount = Whole * amount - amount * fee
      /\ t0 * (Whole - fee) = (Whole - fee) * t0
  BY <1>0, <1>1, <1>2, SMT
<1>6. (Whole - fee) * t0 < (Whole - fee) * (amount + 1)
  <2>1. (Whole - fee) * (amount + 1) = (Whole - fee) * amount + (Whole - fee)
    BY <1>0, SMT
  <2> QED BY <2>1, <1>0, <1>1, <1>2, <1>4, <1>5, SMT
<1>7. t0 < amount + 1
  BY <1>6, <1>0, <1>1, CancelFactor
<1> QED BY <1>7, <1>0, <1>1 DEF t0

(* Cutting a buy to a headroom below its net payment never makes it dearer   *)
(* (buy.rs:113-116, where nothing is compared after recomputing).            *)
THEOREM CutPaymentIsWithinBudget ==
    ASSUME NEW fee \in Fees, NEW amount \in U64, NEW headroom \in U64,
           headroom < NetOfFee(fee, amount)
    PROVE  calculate_total_amount(fee, headroom) <= amount
<1> DEFINE t0 == TotalQuotient(fee, headroom)
           t  == calculate_total_amount(fee, headroom)
<1>1. t0 \in Nat /\ t \in Nat /\ amount \in Nat /\ t <= t0
  BY TotalBounds, WidthAssumption, SMT DEF U64
<1>2. t0 <= amount
  BY CutTotalIsWithinBudget
<1> HIDE DEF t0, t
<1> QED BY <1>1, <1>2 DEF t

-----------------------------------------------------------------------------
(* What calculate_output_amount pays is within the output side, which is a   *)
(* u64, so its cast drops nothing.                                           *)
LEMMA OutputBounds ==
    ASSUME NEW in \in Nat, NEW inReserve \in Nat \ {0}, NEW outReserve \in U64
    PROVE  LET out == calculate_output_amount(in, inReserve, outReserve)
           IN  /\ out \in U64
               /\ out <= outReserve
               /\ (inReserve + in) * out <= outReserve * in
               /\ out = (outReserve * in) \div (inReserve + in)
<1> DEFINE out == (outReserve * in) \div (inReserve + in)
<1>0. outReserve \in Nat /\ inReserve + in \in Nat \ {0} /\ outReserve * in \in Nat
  BY WidthAssumption, SMT DEF U64
<1>1. out \in Nat /\ (inReserve + in) * out <= outReserve * in
  BY <1>0, DivBounds
<1>2. calculate_output_amount(in, inReserve, outReserve) = AsU64(out)
  BY DEF calculate_output_amount
<1> HIDE DEF out
<1>3. (inReserve + in) * out < (inReserve + in) * (outReserve + 1)
  <2>1. outReserve * in <= outReserve * (inReserve + in)
    BY <1>0, ProductMonotone
  <2>2. (inReserve + in) * (outReserve + 1) = outReserve * (inReserve + in) + (inReserve + in)
    BY <1>0, SMT
  <2> QED BY <2>1, <2>2, <1>0, <1>1, SMT
<1>4. out < outReserve + 1
  BY <1>3, <1>0, <1>1, CancelFactor
<1>5. out \in U64 /\ out <= outReserve
  BY <1>4, <1>0, <1>1, WidthAssumption, SMT DEF U64
<1>6. calculate_output_amount(in, inReserve, outReserve) = out
  BY <1>1, <1>2, <1>5, CastFacts
<1> QED BY <1>1, <1>5, <1>6 DEF out

(* A trade at the price of calculate_output_amount, a buy by exact quote or  *)
(* a sell, never shrinks the product of the reserves (pool/state.rs:70).     *)
THEOREM OutputKeepsProduct ==
    ASSUME NEW in \in Nat, NEW inReserve \in Nat \ {0}, NEW outReserve \in U64
    PROVE  inReserve * outReserve
             <= (inReserve + in)
                  * (outReserve - calculate_output_amount(in, inReserve, outReserve))
<1> DEFINE out == calculate_output_amount(in, inReserve, outReserve)
<1>1. outReserve \in Nat /\ out \in Nat /\ (inReserve + in) * out <= outReserve * in
  BY OutputBounds, WidthAssumption, SMT DEF U64
<1> HIDE DEF out
<1>2. (inReserve + in) * (outReserve - out)
        = inReserve * outReserve + outReserve * in - (inReserve + in) * out
  BY <1>1, SMT
<1>3. (inReserve + in) * (outReserve - out) >= inReserve * outReserve
  BY <1>1, <1>2, SMT
<1> QED BY <1>3, <1>1, SMT DEF out

(* The price calculate_input_amount asks, when it fits a u64, is short of    *)
(* the constant product by less than one unit (pool/state.rs:87).            *)
THEOREM InputIsShortByLessThanOneUnit ==
    ASSUME NEW out \in Nat, NEW inReserve \in U64, NEW outReserve \in U64,
           out < outReserve,
           (out * inReserve) \div (outReserve - out) \in U64
    PROVE  LET in == calculate_input_amount(out, inReserve, outReserve)
           IN  /\ in \in U64
               /\ inReserve * outReserve < (inReserve + in + 1) * (outReserve - out)
<1> DEFINE in == (out * inReserve) \div (outReserve - out)
<1>0. inReserve \in Nat /\ outReserve \in Nat /\ out * inReserve \in Nat
      /\ outReserve - out \in Nat \ {0}
  BY WidthAssumption, SMT DEF U64
<1>1. in \in Nat /\ out * inReserve < (outReserve - out) * in + (outReserve - out)
  BY <1>0, DivBounds
<1>2. calculate_input_amount(out, inReserve, outReserve) = in
  BY <1>1, CastFacts DEF calculate_input_amount
<1> HIDE DEF in
<1>3. (inReserve + in + 1) * (outReserve - out)
        = inReserve * outReserve - out * inReserve
            + ((outReserve - out) * in + (outReserve - out))
  BY <1>0, <1>1, SMT
<1>4. inReserve * outReserve < (inReserve + in + 1) * (outReserve - out)
  BY <1>0, <1>1, <1>3, SMT
<1> QED BY <1>2, <1>4 DEF in

(* An exact-base order cut to a headroom below its price delivers no more    *)
(* than was ordered, although the base amount comes from the other formula   *)
(* (buy.rs:156-159).                                                         *)
THEOREM CutOrderIsNotEnlargedByTheCut ==
    ASSUME NEW base \in Nat, NEW inReserve \in U64, NEW outReserve \in U64,
           NEW headroom \in Nat,
           inReserve > 0, base < outReserve,
           headroom < calculate_input_amount(base, inReserve, outReserve)
    PROVE  calculate_output_amount(headroom, inReserve, outReserve) <= base
<1> DEFINE in  == (base * inReserve) \div (outReserve - base)
           out == calculate_output_amount(headroom, inReserve, outReserve)
<1>0. inReserve \in Nat \ {0} /\ outReserve \in Nat /\ base * inReserve \in Nat
      /\ outReserve - base \in Nat \ {0}
  BY WidthAssumption, SMT DEF U64
<1>1. in \in Nat /\ (outReserve - base) * in <= base * inReserve
  BY <1>0, DivBounds
<1>2. calculate_input_amount(base, inReserve, outReserve) <= in
      /\ calculate_input_amount(base, inReserve, outReserve) \in Nat
  BY <1>1, CastFacts, WidthAssumption, SMT DEF calculate_input_amount, U64
<1>3. out \in Nat /\ (inReserve + headroom) * out <= outReserve * headroom
  BY <1>0, OutputBounds, WidthAssumption, SMT DEF U64
<1>4. headroom <= in
  BY <1>1, <1>2, SMT
<1> HIDE DEF in, out
<1>5. (outReserve - base) * headroom <= base * inReserve
  <2>1. (outReserve - base) * headroom <= (outReserve - base) * in
    BY <1>0, <1>1, <1>4, ProductMonotone
  <2> QED BY <2>1, <1>0, <1>1, SMT
<1>6. outReserve * headroom <= base * (inReserve + headroom)
  <2>1. (outReserve - base) * headroom = outReserve * headroom - base * headroom
    BY <1>0, SMT
  <2>2. base * (inReserve + headroom) = base * inReserve + base * headroom
    BY <1>0, SMT
  <2> QED BY <2>1, <2>2, <1>5, <1>0, SMT
<1>7. (inReserve + headroom) * out < (inReserve + headroom) * (base + 1)
  <2>1. (inReserve + headroom) * (base + 1) = base * (inReserve + headroom) + (inReserve + headroom)
    BY <1>0, SMT
  <2> QED BY <2>1, <1>3, <1>6, <1>0, SMT
<1>8. out < base + 1
  BY <1>7, <1>0, <1>3, CancelFactor
<1> QED BY <1>8, <1>3, SMT DEF out
=============================================================================
