---------------------------- MODULE FairCurveProofs ----------------------------
(* Two kinds of curves, for every value of the other constants.  One nobody  *)
(* buys an exact amount of base tokens from, the one trade that rounds       *)
(* against the pool, never loses value, takes back all it sold and, with     *)
(* terms that are fair, can be filled and then withdrawn, and no checked     *)
(* operation of a trade on it aborts as long as terms and orders leave room  *)
(* in a u64; the runs sell_out and exhausted show what happens to others.    *)
(* And one whose terms fit the width keeps the limits of exact-base buyers   *)
(* and loses at most what the rounding of one price takes.                   *)
EXTENDS CurveSafetyProofs

(* No buy_exact_tokens_from_quote is submitted.                              *)
NoExactBaseBuys == BaseAmounts = {}

SameTerms(p, q) ==
    /\ q.virt_base_reserves = p.virt_base_reserves
    /\ q.virt_quote_reserves = p.virt_quote_reserves
    /\ q.real_quote_threshold = p.real_quote_threshold

(* One step of a trading curve: its terms stay, its product does not fall.   *)
Fairly(p, q) ==
    /\ p.exists /\ ~p.complete /\ q.exists /\ ReservesFit(p)
    /\ SameTerms(p, q)
    /\ Product(q) >= Product(p)

(* What a step may do to a pool.                                             *)
Evolves(m) ==
    \/ pool'[m] = pool[m]
    \/ ~pool[m].exists /\ \E creator \in Users : CreatePool(creator, m)
    \/ Fairly(pool[m], pool'[m])
    \/ /\ Withdrawn(pool'[m]) /\ pool[m].exists /\ pool[m].complete /\ pool'[m].exists
       /\ SameTerms(pool[m], pool'[m])

(* The net payment enters the quote side, what it buys leaves the base side: *)
(* the product of buy.rs:122-123 does not fall.                              *)
LEMMA BuyIsFair ==
    ASSUME NEW p, Priced(p), p.exists, ~p.complete, NEW fill, fill.quote \in Nat,
           fill.base = compute_receivable_amount_on_buy(p, fill.quote),
           AfterBuy(p, fill) \in PoolState
    PROVE  Fairly(p, AfterBuy(p, fill))
<1> DEFINE q == AfterBuy(p, fill)
           B == BaseReserves(p)
           Q == QuoteReserves(p)
           out == calculate_output_amount(fill.quote, Q, B)
<1>1. /\ q.exists
      /\ q.virt_base_reserves = p.virt_base_reserves
      /\ q.virt_quote_reserves = p.virt_quote_reserves
      /\ q.real_quote_threshold = p.real_quote_threshold
      /\ q.real_base_reserves = p.real_base_reserves - fill.base
      /\ q.real_quote_reserves = p.real_quote_reserves + fill.quote
  BY DEF AfterBuy, Priced, PoolState
<1>2. B \in U64 /\ B \in Nat \ {0} /\ Q \in Nat \ {0} /\ fill.base = out
  BY ReserveFacts DEF compute_receivable_amount_on_buy
<1>3. Q * B <= (Q + fill.quote) * (B - out)
  BY <1>2, OutputKeepsProduct
<1>4. out \in Nat
  BY <1>2, OutputBounds, U64Facts
<1>5. /\ p.virt_base_reserves \in Nat /\ p.real_base_reserves \in Nat
      /\ p.virt_quote_reserves \in Nat /\ p.real_quote_reserves \in Nat
  BY U64Facts DEF Priced, PoolState
<1> HIDE DEF q, out
<1>6. BaseReserves(q) = B - out /\ QuoteReserves(q) = Q + fill.quote
  BY <1>1, <1>2, <1>4, <1>5 DEF BaseReserves, QuoteReserves
<1> HIDE DEF B, Q
<1>7. B * Q <= (B - out) * (Q + fill.quote)
  BY <1>2, <1>3, <1>4
<1>8. Product(q) >= Product(p)
  <2>1. Product(p) = B * Q /\ Product(q) = (B - out) * (Q + fill.quote)
    BY <1>6 DEF Product, B, Q
  <2>2. B * Q \in Int /\ (B - out) * (Q + fill.quote) \in Int
    BY <1>2, <1>4
  <2> QED BY <2>1, <2>2, <1>7
<1> QED BY <1>1, <1>8 DEF Fairly, SameTerms, Priced, q

(* The tokens sold enter the base side, the whole payout leaves the quote    *)
(* side: the product of sell.rs:41-42 does not fall.                         *)
LEMMA SellIsFair ==
    ASSUME NEW p, Priced(p), p.exists, ~p.complete, NEW fill, fill.base \in Nat,
           fill.total = compute_receivable_amount_on_sell(p, fill.base),
           AfterSell(p, fill) \in PoolState
    PROVE  Fairly(p, AfterSell(p, fill))
<1> DEFINE q == AfterSell(p, fill)
           B == BaseReserves(p)
           Q == QuoteReserves(p)
           out == calculate_output_amount(fill.base, B, Q)
<1>1. /\ q.exists
      /\ q.virt_base_reserves = p.virt_base_reserves
      /\ q.virt_quote_reserves = p.virt_quote_reserves
      /\ q.real_quote_threshold = p.real_quote_threshold
      /\ q.real_base_reserves = p.real_base_reserves + fill.base
      /\ q.real_quote_reserves = p.real_quote_reserves - fill.total
  BY DEF AfterSell, Priced, PoolState
<1>2. B \in Nat \ {0} /\ Q \in U64 /\ Q \in Nat \ {0} /\ fill.total = out
  BY ReserveFacts DEF compute_receivable_amount_on_sell
<1>3. B * Q <= (B + fill.base) * (Q - out)
  BY <1>2, OutputKeepsProduct
<1>4. out \in Nat
  BY <1>2, OutputBounds, U64Facts
<1>5. /\ p.virt_base_reserves \in Nat /\ p.real_base_reserves \in Nat
      /\ p.virt_quote_reserves \in Nat /\ p.real_quote_reserves \in Nat
  BY U64Facts DEF Priced, PoolState
<1> HIDE DEF q, out
<1>6. BaseReserves(q) = B + fill.base /\ QuoteReserves(q) = Q - out
  BY <1>1, <1>2, <1>4, <1>5 DEF BaseReserves, QuoteReserves
<1> HIDE DEF B, Q
<1>7. Product(q) >= Product(p)
  <2>1. Product(p) = B * Q /\ Product(q) = (B + fill.base) * (Q - out)
    BY <1>6 DEF Product, B, Q
  <2>2. B * Q \in Int /\ (B + fill.base) * (Q - out) \in Int
    BY <1>2, <1>4
  <2> QED BY <2>1, <2>2, <1>3
<1> QED BY <1>1, <1>7 DEF Fairly, SameTerms, Priced, q

(* An exact-base buy from curve m.                                           *)
ExactBaseBuyOf(m) ==
    \E u \in Users, b \in BaseAmounts, max \in MaxInputs :
        BuyExactTokensFromQuote(u, m, b, max)

(* Each other step leaves a pool alone, lists it, trades fairly on it or     *)
(* empties it.                                                               *)
LEMMA OtherStepsEvolve ==
    ASSUME IInv, [Next]_vars, NEW m \in BaseMints, ~ExactBaseBuyOf(m)
    PROVE  Evolves(m)
<1>1. PoolsOK /\ mainState \in MainStateAccount /\ pool \in [BaseMints -> PoolState]
  BY IInvParts DEF PoolsOK
<1>2. CASE pool' = pool
  BY <1>2 DEF Evolves
<1>3. ASSUME NEW n \in BaseMints, NEW q, pool' = [pool EXCEPT ![n] = q], n # m
      PROVE  Evolves(m)
  BY <1>1, <1>3 DEF Evolves
<1>4. ASSUME NEW u \in Users, NEW n \in BaseMints, CreatePool(u, n)
      PROVE  Evolves(m)
  <2>1. pool' = [pool EXCEPT ![n] = NewPool(u)] /\ ~pool[n].exists
    BY <1>4 DEF CreatePool, ACreatePool
  <2> QED BY <1>3, <1>4, <2>1 DEF Evolves
<1>5. ASSUME NEW u \in Users, NEW n \in BaseMints, NEW q \in QuoteAmounts,
             NEW min \in MinOutputs, BuyTokensFromExactQuote(u, n, q, min)
      PROVE  Evolves(m)
  <2> DEFINE fill == ExactQuoteFill(pool[n], mainState.trading_fee, q)
  <2>1. /\ pool[n].exists /\ ~pool[n].complete
        /\ Headroom(pool[n]) \in U64 /\ ReservesFit(pool[n])
        /\ AfterBuy(pool[n], fill) \in PoolState
        /\ pool' = [pool EXCEPT ![n] = AfterBuy(pool[n], fill)]
    BY <1>5 DEF BuyTokensFromExactQuote, ABuy, buy_finalize
  <2>2. Priced(pool[n]) /\ mainState.trading_fee \in Fees /\ q \in U64
    BY <1>1, <2>1, ListedIsPriced, MainFacts, InputAssumption DEF PoolsOK
  <2>3. fill.quote \in Nat
    BY <2>1, <2>2, ExactQuoteFillFacts
  <2>4. fill.base = compute_receivable_amount_on_buy(pool[n], fill.quote)
    BY DEF ExactQuoteFill
  <2> HIDE DEF fill
  <2>5. Fairly(pool[n], AfterBuy(pool[n], fill))
    BY <2>1, <2>2, <2>3, <2>4, BuyIsFair
  <2>6. CASE n = m
    BY <1>1, <2>1, <2>5, <2>6 DEF Evolves
  <2> QED BY <1>3, <2>1, <2>6
<1>6. ASSUME NEW u \in Users, NEW n \in BaseMints, NEW b \in SellAmounts,
             NEW min \in MinOutputs, Sell(u, n, b, min)
      PROVE  Evolves(m)
  <2> DEFINE fill == SellFill(pool[n], mainState.trading_fee, b)
  <2>1. /\ pool[n].exists /\ ~pool[n].complete /\ ReservesFit(pool[n])
        /\ AfterSell(pool[n], fill) \in PoolState
        /\ pool' = [pool EXCEPT ![n] = AfterSell(pool[n], fill)]
    BY <1>6 DEF Sell, ASell
  <2>2. Priced(pool[n]) /\ mainState.trading_fee \in Fees /\ b \in U64
    BY <1>1, <2>1, ListedIsPriced, MainFacts, InputAssumption DEF PoolsOK
  <2>3. fill.base \in Nat
    BY <2>2, SellFillFacts
  <2>4. fill.total = compute_receivable_amount_on_sell(pool[n], fill.base)
    BY DEF SellFill
  <2> HIDE DEF fill
  <2>5. Fairly(pool[n], AfterSell(pool[n], fill))
    BY <2>1, <2>2, <2>3, <2>4, SellIsFair
  <2>6. CASE n = m
    BY <1>1, <2>1, <2>5, <2>6 DEF Evolves
  <2> QED BY <1>3, <2>1, <2>6
<1>7. ASSUME NEW u \in Users, NEW n \in BaseMints, Withdraw(u, n)
      PROVE  Evolves(m)
  <2>1. /\ pool[n].exists /\ pool[n].complete
        /\ pool' = [pool EXCEPT ![n] = AfterWithdraw(pool[n])]
    BY <1>7 DEF Withdraw, AWithdraw
  <2>2. /\ Withdrawn(AfterWithdraw(pool[n])) /\ AfterWithdraw(pool[n]).exists
        /\ SameTerms(pool[n], AfterWithdraw(pool[n]))
    BY <1>1, <2>1 DEF AfterWithdraw, Withdrawn, PoolState, SameTerms
  <2>3. CASE n = m
    BY <1>1, <2>1, <2>2, <2>3 DEF Evolves
  <2> QED BY <1>3, <2>1, <2>3
<1>8. ASSUME NEW u \in Users, NEW n \in BaseMints, NEW b \in BaseAmounts,
             NEW max \in MaxInputs, BuyExactTokensFromQuote(u, n, b, max)
      PROVE  Evolves(m)
  <2>1. n # m
    BY <1>8 DEF ExactBaseBuyOf
  <2>2. PICK q : pool' = [pool EXCEPT ![n] = q]
    BY <1>8 DEF BuyExactTokensFromQuote, buy_finalize
  <2> QED BY <1>3, <2>1, <2>2
<1>9. PoolNext => Evolves(m)
  BY <1>4, <1>5, <1>6, <1>7, <1>8 DEF PoolNext
<1> QED BY <1>2, <1>9 DEF Next, vars

(* With buys by exact quote only, every step is such a one.                  *)
LEMMA StepEvolves ==
    ASSUME IInv, NoExactBaseBuys, [Next]_vars, NEW m \in BaseMints
    PROVE  Evolves(m)
  BY OtherStepsEvolve DEF NoExactBaseBuys, ExactBaseBuyOf

(* The sides of a pool as the sums of naturals they are.                     *)
LEMMA PoolSides ==
    ASSUME NEW p, p \in PoolState
    PROVE  /\ p.virt_base_reserves \in Nat /\ p.real_base_reserves \in Nat
           /\ p.virt_quote_reserves \in Nat /\ p.real_quote_reserves \in Nat
           /\ p.real_quote_threshold \in Nat
           /\ BaseReserves(p) \in Nat /\ QuoteReserves(p) \in Nat
           /\ BaseReserves(p) = p.virt_base_reserves + p.real_base_reserves
           /\ QuoteReserves(p) = p.virt_quote_reserves + p.real_quote_reserves
           /\ Product(p) = BaseReserves(p) * QuoteReserves(p) /\ Product(p) \in Nat
<1>1. /\ p.virt_base_reserves \in Nat /\ p.real_base_reserves \in Nat
      /\ p.virt_quote_reserves \in Nat /\ p.real_quote_reserves \in Nat
      /\ p.real_quote_threshold \in Nat
  BY U64Facts DEF PoolState
<1>2. BaseReserves(p) \in Nat /\ QuoteReserves(p) \in Nat
  BY <1>1 DEF BaseReserves, QuoteReserves
<1>3. BaseReserves(p) * QuoteReserves(p) \in Nat
  BY <1>2
<1> QED BY <1>1, <1>2, <1>3 DEF Product, BaseReserves, QuoteReserves

(* When all buys are by exact quote, no trade makes the product of the       *)
(* reserves fall: buys and sells round in the pool's favour, the fee and the *)
(* cut at the threshold included (pool/state.rs:60-82).                      *)
THEOREM ProductNeverFallsWithoutExactBaseBuys ==
    ASSUME NoExactBaseBuys PROVE Spec => ProductNeverFalls
<1>1. IInv /\ [Next]_vars =>
        \A m \in BaseMints :
          pool[m].exists /\ ~Withdrawn(pool'[m]) => Product(pool'[m]) >= Product(pool[m])
  <2> SUFFICES ASSUME IInv, [Next]_vars, NEW m \in BaseMints,
                      pool[m].exists, ~Withdrawn(pool'[m])
               PROVE  Product(pool'[m]) >= Product(pool[m])
    OBVIOUS
  <2>1. Evolves(m) /\ Product(pool[m]) \in Nat
    BY StepEvolves, IInvParts, PoolSides DEF PoolsOK
  <2> QED BY <2>1 DEF Evolves, Fairly
<1> QED BY <1>1, InductiveInvariant, PTL DEF Spec, ProductNeverFalls

-----------------------------------------------------------------------------
(* A trading curve is worth no less than when all of the supply was in it.   *)
WorthItsSupply(m) ==
    Product(pool[m]) >=
        pool[m].virt_quote_reserves * (pool[m].virt_base_reserves + mint[m].supply)

SupplyInv ==
    /\ BackedInv
    /\ ListedAreFinal
    /\ \A m \in BaseMints : Trading(m) => WorthItsSupply(m)

(* A new pool holds all of the supply and no quote.                          *)
LEMMA NewPoolIsWorthItsSupply ==
    ASSUME IInv, NEW creator \in Users, NEW m \in BaseMints, CreatePool(creator, m)
    PROVE  WorthItsSupply(m)'
<1> DEFINE q == NewPool(creator)
<1>1. pool'[m] = q /\ mint' = mint /\ mint[m].supply = mainState.total_supply
  BY IInvParts DEF CreatePool, PoolsOK
<1>2. /\ mainState.total_supply \in Nat
      /\ mainState.init_virt_base_reserves \in Nat
      /\ mainState.init_virt_quote_reserves \in Nat
  BY IInvParts, MainFacts, U64Facts
<1>3. /\ BaseReserves(q) = q.virt_base_reserves + mainState.total_supply
      /\ QuoteReserves(q) = q.virt_quote_reserves
      /\ q.virt_base_reserves \in Nat /\ q.virt_quote_reserves \in Nat
  BY <1>2 DEF NewPool, BaseReserves, QuoteReserves
<1> HIDE DEF q
<1>4. Product(q) = q.virt_quote_reserves * (q.virt_base_reserves + mainState.total_supply)
  BY <1>2, <1>3 DEF Product
<1>5. Product(q) \in Nat
  <2>1. q.virt_base_reserves + mainState.total_supply \in Nat
    BY <1>2, <1>3
  <2> QED BY <2>1, <1>3, <1>4
<1> QED BY <1>1, <1>4, <1>5 DEF WorthItsSupply

(* Trades do not lower what the curve is worth, burning lowers the supply.   *)
LEMMA NextSupplyInv ==
    ASSUME NoExactBaseBuys
    PROVE  SupplyInv /\ [Next]_vars => SupplyInv'
<1> SUFFICES ASSUME SupplyInv, [Next]_vars PROVE SupplyInv'
  OBVIOUS
<1>1. IInv /\ BackedInv' /\ ListedAreFinal'
  BY NextBacked, NextListedAreFinal DEF SupplyInv, BackedInv
<1>2. ASSUME NEW m \in BaseMints, Trading(m)'
      PROVE  WorthItsSupply(m)'
  <2>1. Evolves(m) /\ pool[m] \in PoolState /\ pool'[m] \in PoolState
    BY <1>1, StepEvolves, IInvParts, IInvPartsPrimed DEF PoolsOK, BackedInv
  <2>2. ASSUME Trading(m),
               pool'[m].virt_base_reserves = pool[m].virt_base_reserves,
               pool'[m].virt_quote_reserves = pool[m].virt_quote_reserves,
               Product(pool'[m]) >= Product(pool[m])
        PROVE  WorthItsSupply(m)'
    <3> DEFINE vb == pool[m].virt_base_reserves
               vq == pool[m].virt_quote_reserves
    <3>1. mint'[m].supply <= mint[m].supply
      BY <1>1, <2>2, NextKeepsMints DEF SupplyInv, ListedAreFinal, MintKept, Trading
    <3>2. mint[m].supply \in Nat /\ mint'[m].supply \in Nat /\ vb \in Nat /\ vq \in Nat
      <4>1. LedgerTypeOK /\ LedgerTypeOK'
        BY <1>1, IInvParts, IInvPartsPrimed DEF BackedInv
      <4> QED BY <4>1, <2>1, PoolSides DEF LedgerTypeOK, MintAccount
    <3>3. Product(pool[m]) >= vq * (vb + mint[m].supply)
      BY <2>2 DEF SupplyInv, WorthItsSupply
    <3>4. Product(pool[m]) \in Nat /\ Product(pool'[m]) \in Nat
      BY <2>1, PoolSides
    <3> HIDE DEF vb, vq
    <3>5. vb + mint[m].supply \in Nat /\ vb + mint'[m].supply \in Nat
          /\ vb + mint'[m].supply <= vb + mint[m].supply
      BY <3>1, <3>2
    <3>6. vq * (vb + mint'[m].supply) <= vq * (vb + mint[m].supply)
      BY <3>2, <3>5, ProductMonotone
    <3>7. vq * (vb + mint'[m].supply) \in Nat /\ vq * (vb + mint[m].supply) \in Nat
      BY <3>2, <3>5
    <3>8. Product(pool'[m]) >= vq * (vb + mint'[m].supply)
      BY <2>2, <3>3, <3>4, <3>6, <3>7
    <3> QED BY <2>2, <3>8 DEF WorthItsSupply, vb, vq
  <2>3. CASE pool'[m] = pool[m]
    <3>1. Trading(m)
      BY <1>2, <2>3 DEF Trading
    <3>2. Product(pool[m]) \in Nat
      BY <2>1, PoolSides
    <3> QED BY <2>2, <2>3, <3>1, <3>2
  <2>4. CASE \E creator \in Users : CreatePool(creator, m)
    BY <1>1, <2>4, NewPoolIsWorthItsSupply
  <2>5. CASE Fairly(pool[m], pool'[m])
    BY <2>2, <2>5 DEF Fairly, SameTerms, Trading
  <2>6. CASE Withdrawn(pool'[m])
    BY <1>2, <2>6 DEF Withdrawn, Trading
  <2> QED BY <2>1, <2>3, <2>4, <2>5, <2>6 DEF Evolves
<1> QED BY <1>1, <1>2 DEF SupplyInv

(* A payout that leaves the virtual quote reserve in place.                  *)
LEMMA PayoutIsCovered ==
    ASSUME NEW B \in Nat \ {0}, NEW Q \in Nat, NEW vq \in Nat, NEW amount \in Nat,
           Q * B >= vq * (B + amount)
    PROVE  calculate_output_amount(amount, B, Q) <= Q - vq
<1> DEFINE d == (Q * amount) \div (B + amount)
           s == B + amount
<1>1. s \in Nat \ {0} /\ Q * amount \in Nat
  BY SMT
<1>2. d \in Nat /\ s * d <= Q * amount
  BY <1>1, DivBounds
<1>3. calculate_output_amount(amount, B, Q) <= d /\ calculate_output_amount(amount, B, Q) \in Nat
  BY <1>2, CastFacts, U64Facts DEF calculate_output_amount
<1> HIDE DEF d
<1>4. Q * s = Q * B + Q * amount
  BY SMT
<1> HIDE DEF s
<1>5. vq * s <= Q * s - s * d
  <2>1. vq * s \in Int /\ Q * s \in Int /\ s * d \in Int /\ Q * B \in Int /\ Q * amount \in Int
    BY <1>1, <1>2
  <2>2. vq * s <= Q * B
    BY <2>1 DEF s
  <2> QED BY <1>2, <1>4, <2>1, <2>2
<1>6. s * vq <= s * (Q - d)
  <2>1. s * (Q - d) = Q * s - s * d /\ s * vq = vq * s
    BY <1>1, <1>2, SMT
  <2> QED BY <1>5, <2>1
<1>7. vq <= Q - d
  <2> SUFFICES ASSUME Q - d < vq PROVE FALSE
    BY <1>2
  <2>1. Q - d + 1 <= vq
    BY <1>2
  <2>2. s * (Q - d + 1) <= s * vq
    BY <1>1, <1>2, <2>1, ProductMonotone
  <2>3. s * (Q - d + 1) = s * (Q - d) + s
    BY <1>1, <1>2, SMT
  <2>4. s * (Q - d) \in Int /\ s * vq \in Int
    BY <1>1, <1>2
  <2> QED BY <1>1, <1>6, <2>2, <2>3, <2>4
<1> QED BY <1>2, <1>3, <1>7

(* At first no pool is listed.                                               *)
LEMMA InitSupplyInv == Init => SupplyInv
<1>1. Init => VaultsBacked /\ ListedAreFinal /\ \A m \in BaseMints : ~Trading(m)
  BY DEF Init, NoPool, VaultsBacked, ListedAreFinal, Trading
<1> QED BY <1>1, InitIInv DEF SupplyInv, BackedInv

(* All that is out of the vault, sold at once, leaves the virtual quote      *)
(* reserve in place.                                                         *)
LEMMA SupplyCanBeSoldBack == SupplyInv => CirculatingTokensCanBeSoldBack
<1> SUFFICES ASSUME SupplyInv, NEW m \in BaseMints, Trading(m),
                    NEW amount \in 0 .. (mint[m].supply - Vault(m, m))
             PROVE  compute_receivable_amount_on_sell(pool[m], amount)
                      <= pool[m].real_quote_reserves
  BY DEF CirculatingTokensCanBeSoldBack
<1> DEFINE p  == pool[m]
           B  == BaseReserves(p)
           Q  == QuoteReserves(p)
           vb == p.virt_base_reserves
           vq == p.virt_quote_reserves
<1>1. IInv /\ LedgerTypeOK /\ PoolsOK /\ Listed(p) /\ p \in PoolState
  BY IInvParts DEF SupplyInv, BackedInv, PoolsOK, Trading
<1>2. /\ mint[m].supply \in Nat /\ Vault(m, m) \in Nat
      /\ Vault(m, m) >= p.real_base_reserves
  BY <1>1, VaultFacts DEF SupplyInv, BackedInv, VaultsBacked, Trading,
                          LedgerTypeOK, MintAccount
<1>3. /\ B \in Nat /\ Q \in Nat /\ vb \in Nat /\ vq \in Nat
      /\ B = vb + p.real_base_reserves /\ Q = vq + p.real_quote_reserves
      /\ p.real_base_reserves \in Nat /\ p.real_quote_reserves \in Nat
      /\ Product(p) = B * Q
  BY <1>1, PoolSides
<1>4. vb > 0
  BY <1>1 DEF Listed
<1>5. Product(p) >= vq * (vb + mint[m].supply)
  BY DEF SupplyInv, WorthItsSupply
<1> HIDE DEF p, B, Q, vb, vq
<1>6. amount \in Nat /\ B + amount <= vb + mint[m].supply /\ B \in Nat \ {0}
  BY <1>2, <1>3, <1>4
<1>7. Q * B >= vq * (B + amount)
  <2>1. vq * (B + amount) <= vq * (vb + mint[m].supply)
    BY <1>2, <1>3, <1>6, ProductMonotone
  <2>2. vq * (B + amount) \in Int /\ vq * (vb + mint[m].supply) \in Int
        /\ B * Q \in Int /\ Q * B = B * Q
    BY <1>2, <1>3, <1>6
  <2> QED BY <1>3, <1>5, <2>1, <2>2
<1>8. calculate_output_amount(amount, B, Q) <= Q - vq
  BY <1>3, <1>6, <1>7, PayoutIsCovered
<1>9. Q - vq = p.real_quote_reserves
  BY <1>3
<1> QED BY <1>8, <1>9 DEF compute_receivable_amount_on_sell, p, B, Q

(* When all buys are by exact quote, a curve can pay for every base token in *)
(* circulation, whatever was traded, burned or sent to its vault: no holder  *)
(* is left with tokens the curve cannot buy back (sell.rs:42).               *)
THEOREM WhatWasSoldCanBeSoldBack ==
    ASSUME NoExactBaseBuys PROVE Spec => []CirculatingTokensCanBeSoldBack
  BY InitSupplyInv, NextSupplyInv, SupplyCanBeSoldBack, PTL DEF Spec

-----------------------------------------------------------------------------
(* Terms with which a curve reaches its threshold before its real base       *)
(* tokens run out: what the whole supply is worth at the opening price is    *)
(* more than the threshold.                                                  *)
FairTerms(total_supply, virt_base, virt_quote, threshold) ==
    virt_quote * total_supply > virt_base * threshold

MainTermsFair ==
    FairTerms(mainState.total_supply, mainState.init_virt_base_reserves,
              mainState.init_virt_quote_reserves, mainState.real_quote_threshold)

(* The terms of constants.rs are fair, and no update the owner makes turns   *)
(* fair terms into unfair ones.                                              *)
OwnerKeepsTermsFair ==
    /\ FairTerms(TOTAL_SUPPLY, INIT_VIRT_BASE_RESERVE,
                 INIT_VIRT_QUOTE_RESERVE, REAL_QUOTE_THRESHOLD)
    /\ \A input \in UpdateInputs, s \in U64, b \in U64, q \in U64, t \in U64 :
         FairTerms(s, b, q, t) =>
             FairTerms(OrElse(input.total_supply, s),
                       OrElse(input.init_virt_base_reserves, b),
                       OrElse(input.init_virt_quote_reserves, q),
                       OrElse(input.real_quote_threshold, t))

(* The curve is worth more than at a state with the threshold reached and no *)
(* real base tokens left.                                                    *)
OutlastsTheThreshold(p) ==
    Product(p) > p.virt_base_reserves * (p.virt_quote_reserves + p.real_quote_threshold)

FillInv ==
    /\ IInv
    /\ MainTermsFair
    /\ \A m \in BaseMints :
         /\ ~pool[m].exists => ~pool[m].complete
         /\ pool[m].exists /\ ~Withdrawn(pool[m]) => OutlastsTheThreshold(pool[m])

(* The configuration's terms stay fair.                                      *)
LEMMA NextMainTermsFair ==
    ASSUME OwnerKeepsTermsFair, IInv, MainTermsFair, [Next]_vars
    PROVE  MainTermsFair'
<1>1. mainState \in MainStateAccount
  BY IInvParts
<1>2. CASE mainState' = mainState
  BY <1>2 DEF MainTermsFair
<1>3. ASSUME NEW owner \in Users, InitMainState(owner)
      PROVE  MainTermsFair'
  BY <1>3 DEF InitMainState, DefaultMainState, MainTermsFair, OwnerKeepsTermsFair
<1>4. ASSUME NEW owner \in Users, NEW new_owner \in NewOwners,
             TransferOwnership(owner, new_owner)
      PROVE  MainTermsFair'
  BY <1>1, <1>4 DEF TransferOwnership, MainTermsFair, MainStateAccount
<1>5. ASSUME NEW owner \in Users, NEW input \in UpdateInputs, UpdateMainState(owner, input)
      PROVE  MainTermsFair'
  <2> DEFINE s == mainState.total_supply
             b == mainState.init_virt_base_reserves
             q == mainState.init_virt_quote_reserves
             t == mainState.real_quote_threshold
  <2>1. /\ mainState'.total_supply = OrElse(input.total_supply, s)
        /\ mainState'.init_virt_base_reserves = OrElse(input.init_virt_base_reserves, b)
        /\ mainState'.init_virt_quote_reserves = OrElse(input.init_virt_quote_reserves, q)
        /\ mainState'.real_quote_threshold = OrElse(input.real_quote_threshold, t)
    BY <1>1, <1>5 DEF UpdateMainState, MainStateAccount
  <2>2. FairTerms(s, b, q, t) /\ s \in U64 /\ b \in U64 /\ q \in U64 /\ t \in U64
    BY <1>1, MainFacts DEF MainTermsFair
  <2> HIDE DEF s, b, q, t
  <2>3. FairTerms(OrElse(input.total_supply, s),
                  OrElse(input.init_virt_base_reserves, b),
                  OrElse(input.init_virt_quote_reserves, q),
                  OrElse(input.real_quote_threshold, t))
    BY <2>2 DEF OwnerKeepsTermsFair
  <2> QED BY <2>1, <2>3 DEF MainTermsFair
<1>6. PoolNext => mainState' = mainState
  BY DEF PoolNext, CreatePool, BuyTokensFromExactQuote, BuyExactTokensFromQuote,
         buy_finalize, Sell, Withdraw
<1> QED BY <1>2, <1>3, <1>4, <1>5, <1>6 DEF Next, MainNext, vars

(* A curve with fair terms starts out worth more than its threshold.         *)
LEMMA NewPoolOutlasts ==
    ASSUME IInv, MainTermsFair, NEW creator \in Users
    PROVE  OutlastsTheThreshold(NewPool(creator))
<1> DEFINE q  == NewPool(creator)
           vb == mainState.init_virt_base_reserves
           vq == mainState.init_virt_quote_reserves
           s  == mainState.total_supply
           t  == mainState.real_quote_threshold
<1>1. vb \in Nat /\ vq \in Nat /\ s \in Nat /\ t \in Nat
  BY IInvParts, MainFacts, U64Facts
<1>2. vq * s > vb * t
  BY DEF MainTermsFair, FairTerms
<1>3. Product(q) = (vb + s) * (vq + 0)
  BY DEF NewPool, Product, BaseReserves, QuoteReserves
<1>4. q.virt_base_reserves = vb /\ q.virt_quote_reserves = vq /\ q.real_quote_threshold = t
  BY DEF NewPool
<1> HIDE DEF q, vb, vq, s, t
<1>5. (vb + s) * (vq + 0) = vb * vq + vq * s /\ vb * (vq + t) = vb * vq + vb * t
  BY <1>1, SMT
<1>6. vb * vq \in Nat /\ vq * s \in Nat /\ vb * t \in Nat
  BY <1>1
<1>7. (vb + s) * (vq + 0) > vb * (vq + t)
  BY <1>2, <1>5, <1>6
<1> QED BY <1>3, <1>4, <1>7 DEF OutlastsTheThreshold, q

(* The product does not fall, so the curve still outlasts its threshold.     *)
LEMMA NextFillInv ==
    ASSUME NoExactBaseBuys, OwnerKeepsTermsFair
    PROVE  FillInv /\ [Next]_vars => FillInv'
<1> SUFFICES ASSUME FillInv, [Next]_vars PROVE FillInv'
  OBVIOUS
<1>1. IInv /\ IInv' /\ MainTermsFair'
  BY NextIInv, NextMainTermsFair DEF FillInv
<1>2. ASSUME NEW m \in BaseMints
      PROVE  /\ ~pool'[m].exists => ~pool'[m].complete
             /\ pool'[m].exists /\ ~Withdrawn(pool'[m]) => OutlastsTheThreshold(pool'[m])
  <2>1. Evolves(m) /\ pool[m] \in PoolState /\ pool'[m] \in PoolState
    BY <1>1, StepEvolves, IInvParts, IInvPartsPrimed DEF PoolsOK
  <2>2. CASE pool'[m] = pool[m]
    BY <2>2 DEF FillInv
  <2>3. CASE \E creator \in Users : CreatePool(creator, m)
    <3>1. PICK creator \in Users : CreatePool(creator, m)
      BY <2>3
    <3>2. pool'[m] = NewPool(creator)
      BY <1>1, <3>1, IInvParts DEF CreatePool, PoolsOK
    <3>3. NewPool(creator).exists
      BY DEF NewPool
    <3> QED BY <1>1, <3>2, <3>3, NewPoolOutlasts DEF FillInv
  <2>4. CASE Fairly(pool[m], pool'[m])
    <3> DEFINE low == pool[m].virt_base_reserves
                        * (pool[m].virt_quote_reserves + pool[m].real_quote_threshold)
    <3>1. Product(pool[m]) > low
      BY <2>4 DEF FillInv, Fairly, Withdrawn, OutlastsTheThreshold
    <3>2. Product(pool'[m]) >= Product(pool[m]) /\ pool'[m].exists
          /\ low = pool'[m].virt_base_reserves
                     * (pool'[m].virt_quote_reserves + pool'[m].real_quote_threshold)
      BY <2>4 DEF Fairly, SameTerms
    <3>3. Product(pool[m]) \in Int /\ Product(pool'[m]) \in Int /\ low \in Int
      <4>1. /\ pool[m].virt_base_reserves \in Nat /\ pool[m].virt_quote_reserves \in Nat
            /\ pool[m].real_quote_threshold \in Nat
            /\ Product(pool[m]) \in Nat /\ Product(pool'[m]) \in Nat
        BY <2>1, PoolSides
      <4> QED BY <4>1
    <3>4. Product(pool'[m]) > low
      <4> HIDE DEF low
      <4> QED BY <3>1, <3>2, <3>3
    <3> QED BY <3>2, <3>4 DEF OutlastsTheThreshold
  <2>5. CASE Withdrawn(pool'[m]) /\ pool'[m].exists
    BY <2>5
  <2> QED BY <2>1, <2>2, <2>3, <2>4, <2>5 DEF Evolves
<1> QED BY <1>1, <1>2 DEF FillInv

(* The default terms are fair.                                               *)
LEMMA InitFillInv ==
    ASSUME OwnerKeepsTermsFair
    PROVE  Init => FillInv
<1> SUFFICES ASSUME Init PROVE FillInv
  OBVIOUS
<1>1. MainTermsFair
  BY DEF Init, MainInit, DefaultMainState, MainTermsFair, OwnerKeepsTermsFair
<1>2. \A m \in BaseMints : ~pool[m].exists /\ ~pool[m].complete
  BY DEF Init, NoPool
<1> QED BY <1>1, <1>2, InitIInv DEF FillInv

(* What the payment that fills the curve buys leaves the virtual base        *)
(* reserve in place.                                                         *)
LEMMA LastFillIsCovered ==
    ASSUME NEW B \in Nat, NEW Q \in Nat \ {0}, NEW vb \in Nat, NEW headroom \in Nat,
           Q * B > vb * (Q + headroom)
    PROVE  calculate_output_amount(headroom, Q, B) <= B - vb
<1>1. B \in Nat /\ B * Q >= vb * (Q + headroom)
  <2>1. Q * B = B * Q /\ Q * B \in Int /\ vb * (Q + headroom) \in Int
    BY SMT
  <2> QED BY <2>1
<1> QED BY <1>1, PayoutIsCovered

(* The pool can deliver what any payment within its headroom buys.           *)
LEMMA PaymentIsCovered ==
    ASSUME FillInv, NEW m \in BaseMints, Trading(m),
           NEW net \in Nat, net <= Headroom(pool[m])
    PROVE  compute_receivable_amount_on_buy(pool[m], net) <= pool[m].real_base_reserves
<1> DEFINE p  == pool[m]
           B  == BaseReserves(p)
           Q  == QuoteReserves(p)
           vb == p.virt_base_reserves
           vq == p.virt_quote_reserves
           top == vq + p.real_quote_threshold
<1>1. Listed(p) /\ p \in PoolState /\ ~Withdrawn(p) /\ p.exists /\ ~p.complete
  BY IInvParts DEF FillInv, PoolsOK, Trading, Withdrawn
<1>2. /\ B \in Nat /\ Q \in Nat /\ vb \in Nat /\ vq \in Nat
      /\ B = vb + p.real_base_reserves /\ Q = vq + p.real_quote_reserves
      /\ p.real_base_reserves \in Nat /\ p.real_quote_reserves \in Nat
      /\ p.real_quote_threshold \in Nat
      /\ Product(p) = B * Q
  BY <1>1, PoolSides
<1>3. vq > 0
  BY <1>1 DEF Listed
<1>4. Product(p) > vb * top
  BY <1>1 DEF FillInv, OutlastsTheThreshold
<1>5. net <= p.real_quote_threshold - p.real_quote_reserves
  BY DEF Headroom
<1>6. Q \in Nat \ {0} /\ Q + net \in Nat /\ Q + net <= top /\ top \in Nat
  <2> HIDE DEF p, B, Q, vb, vq
  <2> QED BY <1>2, <1>3, <1>5
<1> HIDE DEF p, B, Q, vb, vq, top
<1>7. Q * B > vb * (Q + net)
  <2>1. vb * (Q + net) <= vb * top
    BY <1>2, <1>6, ProductMonotone
  <2>2. Q * B = B * Q /\ B * Q \in Int /\ vb * (Q + net) \in Int /\ vb * top \in Int
    BY <1>2, <1>6
  <2> QED BY <1>2, <1>4, <2>1, <2>2
<1>8. calculate_output_amount(net, Q, B) <= B - vb
  BY <1>2, <1>6, <1>7, LastFillIsCovered
<1>9. B - vb = p.real_base_reserves
  BY <1>2
<1> QED BY <1>8, <1>9 DEF compute_receivable_amount_on_buy, p, B, Q

(* With fair terms and buys by exact quote, the pool can always deliver the  *)
(* buy that fills the curve: it never sells out short of its threshold       *)
(* (buy.rs:113-118, buy.rs:123).                                             *)
THEOREM FairCurveCanBeFilled ==
    ASSUME NoExactBaseBuys, OwnerKeepsTermsFair
    PROVE  Spec => []CurveCanBeFilled
<1>1. FillInv => CurveCanBeFilled
  <2> SUFFICES ASSUME FillInv, NEW m \in BaseMints, Trading(m)
               PROVE  compute_receivable_amount_on_buy(pool[m], Headroom(pool[m]))
                        <= pool[m].real_base_reserves
    BY DEF CurveCanBeFilled
  <2>1. Listed(pool[m]) /\ pool[m] \in PoolState /\ ~pool[m].complete
    BY IInvParts DEF FillInv, PoolsOK, Trading
  <2>2. Headroom(pool[m]) \in Nat /\ Headroom(pool[m]) <= Headroom(pool[m])
    BY <2>1, PoolSides DEF Listed, Headroom
  <2> QED BY <2>2, PaymentIsCovered
<1> QED BY <1>1, InitFillInv, NextFillInv, PTL DEF Spec

(* With fair terms and buys by exact quote, a complete curve still holds     *)
(* base tokens, so withdraw's test for "not withdrawn yet" lets the first    *)
(* withdrawal through (withdraw.rs:26).                                      *)
THEOREM FairCompleteCurveCanBeWithdrawn ==
    ASSUME NoExactBaseBuys, OwnerKeepsTermsFair
    PROVE  Spec => []CompleteCurveCanBeWithdrawn
<1>1. FillInv => CompleteCurveCanBeWithdrawn
  <2> SUFFICES ASSUME FillInv, NEW m \in BaseMints,
                      pool[m].complete, pool[m].real_quote_reserves > 0
               PROVE  pool[m].real_base_reserves > 0
    BY DEF CompleteCurveCanBeWithdrawn, NotWithdrawn
  <2> DEFINE p  == pool[m]
             B  == BaseReserves(p)
             Q  == QuoteReserves(p)
             vb == p.virt_base_reserves
  <2>1. p.exists /\ Listed(p) /\ p \in PoolState
    BY IInvParts DEF FillInv, PoolsOK
  <2>2. /\ B \in Nat /\ Q \in Nat /\ vb \in Nat /\ p.virt_quote_reserves \in Nat
        /\ B = vb + p.real_base_reserves
        /\ Q = p.virt_quote_reserves + p.real_quote_reserves
        /\ p.real_base_reserves \in Nat /\ p.real_quote_reserves \in Nat
        /\ Product(p) = B * Q
    BY <2>1, PoolSides
  <2>3. ~Withdrawn(p) /\ p.real_quote_reserves = p.real_quote_threshold
    <3>1. ~Withdrawn(p)
      BY <2>2 DEF Withdrawn
    <3> QED BY <2>1, <3>1 DEF Listed
  <2>4. B * Q > vb * Q
    <3>1. Product(p) > vb * (p.virt_quote_reserves + p.real_quote_threshold)
      BY <2>1, <2>3 DEF FillInv, OutlastsTheThreshold
    <3> QED BY <2>2, <2>3, <3>1
  <2> HIDE DEF p, B, Q, vb
  <2>5. B > vb
    <3> SUFFICES ASSUME B <= vb PROVE FALSE
      BY <2>2
    <3>1. Q * B <= Q * vb
      BY <2>2, ProductMonotone
    <3>2. Q * B = B * Q /\ Q * vb = vb * Q /\ B * Q \in Int /\ vb * Q \in Int
      BY <2>2
    <3> QED BY <2>4, <3>1, <3>2
  <2>6. p.real_base_reserves > 0
    BY <2>2, <2>5
  <2> QED BY <2>6 DEF p
<1> QED BY <1>1, InitFillInv, NextFillInv, PTL DEF Spec

-----------------------------------------------------------------------------
(* Exact-base orders.  Price and total of such an order are cast to u64, and *)
(* what the buyer is told holds as long as neither cast drops a bit:         *)
(* FittingTerms are terms under which none does.  Those of constants.rs are, *)
(* by far, for every base_amount.                                            *)
FittingTerms(virt_base, virt_quote, threshold) ==
    \A base_amount \in BaseAmounts :
        /\ threshold * Whole <= U64_MAX * (Whole - MAX_TRADING_FEE)
        /\ base_amount * (virt_quote + threshold) <= U64_MAX * virt_base

MainTermsFit ==
    FittingTerms(mainState.init_virt_base_reserves, mainState.init_virt_quote_reserves,
                 mainState.real_quote_threshold)

(* The defaults fit, and no update the owner makes changes that.             *)
OwnerKeepsTermsFitting ==
    /\ FittingTerms(INIT_VIRT_BASE_RESERVE, INIT_VIRT_QUOTE_RESERVE, REAL_QUOTE_THRESHOLD)
    /\ \A input \in UpdateInputs, b \in U64, q \in U64, t \in U64 :
         FittingTerms(b, q, t) =>
             FittingTerms(OrElse(input.init_virt_base_reserves, b),
                          OrElse(input.init_virt_quote_reserves, q),
                          OrElse(input.real_quote_threshold, t))

FitsItsTerms(p) ==
    FittingTerms(p.virt_base_reserves, p.virt_quote_reserves, p.real_quote_threshold)

FitInv ==
    /\ IInv
    /\ MainTermsFit
    /\ \A m \in BaseMints : pool[m].exists => FitsItsTerms(pool[m])

(* The configuration's terms keep fitting the width.                         *)
LEMMA NextMainTermsFit ==
    ASSUME OwnerKeepsTermsFitting, IInv, MainTermsFit, [Next]_vars
    PROVE  MainTermsFit'
<1>1. mainState \in MainStateAccount
  BY IInvParts
<1>2. CASE mainState' = mainState
  BY <1>2 DEF MainTermsFit
<1>3. ASSUME NEW owner \in Users, InitMainState(owner)
      PROVE  MainTermsFit'
  BY <1>3 DEF InitMainState, DefaultMainState, MainTermsFit, OwnerKeepsTermsFitting
<1>4. ASSUME NEW owner \in Users, NEW new_owner \in NewOwners,
             TransferOwnership(owner, new_owner)
      PROVE  MainTermsFit'
  BY <1>1, <1>4 DEF TransferOwnership, MainTermsFit, MainStateAccount
<1>5. ASSUME NEW owner \in Users, NEW input \in UpdateInputs, UpdateMainState(owner, input)
      PROVE  MainTermsFit'
  <2> DEFINE b == mainState.init_virt_base_reserves
             q == mainState.init_virt_quote_reserves
             t == mainState.real_quote_threshold
  <2>1. /\ mainState'.init_virt_base_reserves = OrElse(input.init_virt_base_reserves, b)
        /\ mainState'.init_virt_quote_reserves = OrElse(input.init_virt_quote_reserves, q)
        /\ mainState'.real_quote_threshold = OrElse(input.real_quote_threshold, t)
    BY <1>1, <1>5 DEF UpdateMainState, MainStateAccount
  <2>2. FittingTerms(b, q, t) /\ b \in U64 /\ q \in U64 /\ t \in U64
    BY <1>1, MainFacts DEF MainTermsFit
  <2> HIDE DEF b, q, t
  <2>3. FittingTerms(OrElse(input.init_virt_base_reserves, b),
                     OrElse(input.init_virt_quote_reserves, q),
                     OrElse(input.real_quote_threshold, t))
    BY <2>2 DEF OwnerKeepsTermsFitting
  <2> QED BY <2>1, <2>3 DEF MainTermsFit
<1>6. PoolNext => mainState' = mainState
  BY DEF PoolNext, CreatePool, BuyTokensFromExactQuote, BuyExactTokensFromQuote,
         buy_finalize, Sell, Withdraw
<1> QED BY <1>2, <1>3, <1>4, <1>5, <1>6 DEF Next, MainNext, vars

(* What an exact-base buy does to its pool.                                  *)
LEMMA ExactBaseBuyFacts ==
    ASSUME IInv, NEW u \in Users, NEW m \in BaseMints, NEW b \in BaseAmounts,
           NEW max \in MaxInputs, BuyExactTokensFromQuote(u, m, b, max)
    PROVE  LET fill == ExactBaseFill(pool[m], mainState.trading_fee, b)
           IN  /\ Priced(pool[m]) /\ pool[m].exists /\ ~pool[m].complete
               /\ pool[m].real_quote_reserves < pool[m].real_quote_threshold
               /\ mainState.trading_fee \in Fees /\ b \in U64
               /\ b <= pool[m].real_base_reserves
               /\ Headroom(pool[m]) \in U64
               /\ fill.fee \in Nat /\ fill.quote \in Nat /\ fill.base \in Nat
               /\ fill.base <= b
               /\ pool[m].real_quote_reserves + fill.quote <= pool[m].real_quote_threshold
               /\ AfterBuy(pool[m], fill) \in PoolState
               /\ pool'[m] = AfterBuy(pool[m], fill)
<1> DEFINE fill == ExactBaseFill(pool[m], mainState.trading_fee, b)
<1>1. /\ pool[m].exists /\ ~pool[m].complete
      /\ b <= pool[m].real_base_reserves
      /\ Headroom(pool[m]) \in U64 /\ ReservesFit(pool[m])
      /\ AfterBuy(pool[m], fill) \in PoolState
      /\ pool' = [pool EXCEPT ![m] = AfterBuy(pool[m], fill)]
  BY DEF BuyExactTokensFromQuote, ABuy, buy_finalize
<1>2. Listed(pool[m]) /\ pool \in [BaseMints -> PoolState]
      /\ mainState \in MainStateAccount
  BY <1>1, IInvParts DEF PoolsOK
<1>3. Priced(pool[m]) /\ mainState.trading_fee \in Fees /\ b \in U64
      /\ pool[m].real_quote_reserves < pool[m].real_quote_threshold
  BY <1>1, <1>2, ListedIsPriced, MainFacts, InputAssumption DEF Listed
<1>4. /\ fill.fee \in Nat /\ fill.quote \in Nat /\ fill.base \in Nat /\ fill.base <= b
      /\ pool[m].real_quote_reserves + fill.quote <= pool[m].real_quote_threshold
  BY <1>1, <1>3, ExactBaseFillFacts
<1> HIDE DEF fill
<1>5. pool'[m] = AfterBuy(pool[m], fill)
  BY <1>1, <1>2
<1> QED BY <1>1, <1>3, <1>4, <1>5 DEF fill

(* A listed curve keeps the terms it was listed with.                        *)
LEMMA NextFitInv ==
    ASSUME OwnerKeepsTermsFitting
    PROVE  FitInv /\ [Next]_vars => FitInv'
<1> SUFFICES ASSUME FitInv, [Next]_vars PROVE FitInv'
  OBVIOUS
<1>1. IInv /\ IInv' /\ MainTermsFit'
  BY NextIInv, NextMainTermsFit DEF FitInv
<1>2. ASSUME NEW m \in BaseMints, pool'[m].exists
      PROVE  FitsItsTerms(pool'[m])
  <2>1. ASSUME pool[m].exists, SameTerms(pool[m], pool'[m])
        PROVE  FitsItsTerms(pool'[m])
    BY <2>1 DEF FitInv, FitsItsTerms, SameTerms
  <2>2. CASE ExactBaseBuyOf(m)
    <3>1. PICK u \in Users, b \in BaseAmounts, max \in MaxInputs :
            BuyExactTokensFromQuote(u, m, b, max)
      BY <2>2 DEF ExactBaseBuyOf
    <3> DEFINE fill == ExactBaseFill(pool[m], mainState.trading_fee, b)
    <3>2. pool[m].exists /\ pool'[m] = AfterBuy(pool[m], fill) /\ pool[m] \in PoolState
      BY <1>1, <3>1, ExactBaseBuyFacts DEF Priced
    <3> HIDE DEF fill
    <3>3. SameTerms(pool[m], AfterBuy(pool[m], fill))
      BY <3>2 DEF AfterBuy, PoolState, SameTerms
    <3> QED BY <2>1, <3>2, <3>3
  <2>3. CASE ~ExactBaseBuyOf(m)
    <3>1. Evolves(m)
      BY <1>1, <2>3, OtherStepsEvolve
    <3>2. CASE \E creator \in Users : CreatePool(creator, m)
      <4>1. PICK creator \in Users : CreatePool(creator, m)
        BY <3>2
      <4>2. pool'[m] = NewPool(creator)
        BY <1>1, <4>1, IInvParts DEF CreatePool, PoolsOK
      <4> QED BY <4>2 DEF NewPool, FitsItsTerms, FitInv, MainTermsFit
    <3>3. CASE pool'[m] = pool[m]
      BY <1>2, <3>3 DEF FitInv
    <3> QED BY <2>1, <3>1, <3>2, <3>3 DEF Evolves, Fairly
  <2> QED BY <2>2, <2>3
<1> QED BY <1>1, <1>2 DEF FitInv

(* The default terms fit.                                                    *)
LEMMA InitFitInv == ASSUME OwnerKeepsTermsFitting PROVE Init => FitInv
<1>1. Init => MainTermsFit
  BY DEF Init, MainInit, DefaultMainState, MainTermsFit, OwnerKeepsTermsFitting
<1>2. Init => \A m \in BaseMints : ~pool[m].exists
  BY DEF Init, NoPool
<1> QED BY <1>1, <1>2, InitIInv DEF FitInv

(* Every listed curve has terms that fit.                                    *)
LEMMA TermsAlwaysFit == ASSUME OwnerKeepsTermsFitting PROVE Spec => []FitInv
  BY InitFitInv, NextFitInv, PTL DEF Spec

(* Under a threshold that fits, the total of any net payment up to it is     *)
(* what its formula says.                                                    *)
LEMMA TotalFits ==
    ASSUME NEW fee \in Fees, NEW net \in U64, NEW threshold \in U64, net <= threshold,
           threshold * Whole <= U64_MAX * (Whole - MAX_TRADING_FEE)
    PROVE  TotalQuotient(fee, net) \in U64
<1> DEFINE t0 == TotalQuotient(fee, net)
<1>1. /\ net \in Nat /\ threshold \in Nat /\ U64_MAX \in Nat
      /\ fee \in Nat /\ Whole \in Nat \ {0} /\ Whole - fee \in Nat \ {0}
      /\ MAX_TRADING_FEE \in Nat /\ fee <= MAX_TRADING_FEE
  BY WholeFacts, WidthAssumption, U64Facts DEF Fees
<1>2. t0 \in Nat /\ t0 * (Whole - fee) <= net * Whole
  BY TotalBounds
<1> HIDE DEF t0
<1>3. Whole * net <= Whole * threshold
  BY <1>1, ProductMonotone
<1>4. U64_MAX * (Whole - MAX_TRADING_FEE) <= U64_MAX * (Whole - fee)
  BY <1>1, ProductMonotone
<1>5. t0 * (Whole - fee) <= U64_MAX * (Whole - fee)
  BY <1>1, <1>2, <1>3, <1>4, SMT
<1>6. (Whole - fee) * t0 < (Whole - fee) * (U64_MAX + 1)
  BY <1>1, <1>2, <1>5, SMT
<1>7. t0 < U64_MAX + 1
  BY <1>1, <1>2, <1>6, CancelFactor
<1> QED BY <1>1, <1>2, <1>7 DEF t0, U64

(* The total of an exact-base buy is its fee and its net payment.            *)
LEMMA ExactBaseTotal ==
    ASSUME NEW p, Priced(p), FitsItsTerms(p), NEW fee \in Fees, NEW b \in BaseAmounts,
           b \in U64, b <= p.real_base_reserves, Headroom(p) \in U64
    PROVE  LET fill == ExactBaseFill(p, fee, b)
           IN  /\ fill.fee + fill.quote = fill.total
               /\ fill.quote = NetOfFee(fee, fill.total)
<1> DEFINE fill == ExactBaseFill(p, fee, b)
<1>1. /\ fill.fee \in Nat /\ fill.quote \in Nat
      /\ p.real_quote_reserves + fill.quote <= p.real_quote_threshold
  BY ExactBaseFillFacts
<1>2. fill.total = calculate_total_amount(fee, fill.quote)
      /\ fill.fee = calculate_trading_fee(fee, fill.total)
  BY DEF ExactBaseFill
<1> HIDE DEF fill
<1>3. /\ p.real_quote_threshold \in U64 /\ p.real_quote_threshold \in Nat
      /\ p.real_quote_reserves \in Nat
  BY ReserveFacts DEF Priced, PoolState
<1>4. fill.quote <= p.real_quote_threshold /\ fill.quote \in U64
  BY <1>1, <1>3, U64Facts
<1>5. TotalQuotient(fee, fill.quote) \in U64
  BY <1>3, <1>4, TotalFits DEF FitsItsTerms, FittingTerms
<1>6. NetOfFee(fee, fill.total) = fill.quote
  BY <1>2, <1>4, <1>5, CutPaymentIsExact
<1>7. fill.total \in Nat
  BY <1>2, <1>4, TotalBounds, U64Facts
<1> QED BY <1>1, <1>2, <1>6, <1>7 DEF NetOfFee, fill

(* Who pays what: at most the total the buyer was told, for at most the      *)
(* tokens he ordered.                                                        *)
LEMMA ExactBaseBuyMoves ==
    ASSUME FitInv, NEW u \in Users, NEW m \in BaseMints, NEW b \in BaseAmounts,
           NEW max \in MaxInputs, BuyExactTokensFromQuote(u, m, b, max)
    PROVE  Paid(QuoteMint, u) <= max /\ Received(m, u) <= b
<1> DEFINE fill == ExactBaseFill(pool[m], mainState.trading_fee, b)
           rec  == mainState.fee_recipient
<1>1. IInv /\ LedgerTypeOK /\ rec \in Holders
  BY IInvParts, MainFacts DEF FitInv
<1>2. fill.total <= max /\ buy_finalize(u, m, fill)
  BY DEF BuyExactTokensFromQuote, WithinMaximum
<1>3. /\ Priced(pool[m]) /\ pool[m].exists /\ mainState.trading_fee \in Fees
      /\ b \in U64 /\ b <= pool[m].real_base_reserves /\ Headroom(pool[m]) \in U64
      /\ fill.fee \in Nat /\ fill.quote \in Nat /\ fill.base \in Nat /\ fill.base <= b
  BY <1>1, ExactBaseBuyFacts
<1>4. fill.fee + fill.quote = fill.total
  BY <1>3, ExactBaseTotal DEF FitInv
<1> HIDE DEF fill
<1>5. \A t \in Mints, h \in Holders :
        balance'[t][h] = balance[t][h] + Flow(QuoteMint, u, rec, fill.fee, t, h)
                                       + Flow(QuoteMint, u, pool_pda(m), fill.quote, t, h)
                                       + Flow(m, pool_pda(m), u, fill.base, t, h)
  BY <1>1, <1>2, <1>3, BuyMoves
<1> HIDE DEF rec
<1>6. u \in Holders /\ u # pool_pda(m) /\ m # QuoteMint /\ m \in Mints /\ QuoteMint \in Mints
  BY PdaFacts
<1>7. balance[m][u] \in Nat /\ balance[QuoteMint][u] \in Nat /\ b \in Nat /\ max \in Nat
  BY <1>1, <1>3, <1>6, U64Facts, InputAssumption DEF LedgerTypeOK
<1>8. /\ balance'[QuoteMint][u] >= balance[QuoteMint][u] - (fill.fee + fill.quote)
      /\ balance'[QuoteMint][u] \in Int
      /\ balance'[m][u] = balance[m][u] + fill.base
  BY <1>3, <1>5, <1>6, <1>7 DEF Flow
<1> QED BY <1>2, <1>3, <1>4, <1>7, <1>8 DEF Paid, Received

(* A buyer of an exact amount never pays more than max_quote_amount, fee     *)
(* included, and never gets more than base_amount, also when the order is    *)
(* cut (buy.rs:133-170).                                                     *)
THEOREM ExactBaseBuyIsWithinItsLimits ==
    ASSUME OwnerKeepsTermsFitting PROVE Spec => ExactBaseBuyKeepsItsLimits
<1>1. FitInv => \A u \in Users, m \in BaseMints, b \in BaseAmounts, max \in MaxInputs :
                  BuyExactTokensFromQuote(u, m, b, max) =>
                      Paid(QuoteMint, u) <= max /\ Received(m, u) <= b
  BY ExactBaseBuyMoves
<1> QED BY <1>1, TermsAlwaysFit, PTL DEF ExactBaseBuyKeepsItsLimits

-----------------------------------------------------------------------------
(* How little an exact-base buy loses.                                       *)
NearlyFair(p, q) == Product(q) + BaseReserves(q) > Product(p)

(* Under terms that fit, the price of an order is what its formula says.     *)
LEMMA PriceFits ==
    ASSUME NEW p, Priced(p), FitsItsTerms(p), NEW b \in BaseAmounts, b \in U64,
           b <= p.real_base_reserves, p.real_quote_reserves <= p.real_quote_threshold
    PROVE  (b * QuoteReserves(p)) \div (BaseReserves(p) - b) \in U64
<1> DEFINE B == BaseReserves(p)
           Q == QuoteReserves(p)
           price == (b * Q) \div (B - b)
           top == p.virt_quote_reserves + p.real_quote_threshold
           vb == p.virt_base_reserves
<1>1. /\ B \in Nat /\ Q \in Nat /\ top \in Nat /\ vb \in Nat /\ b \in Nat
      /\ vb > 0 /\ U64_MAX \in Nat
      /\ B = vb + p.real_base_reserves /\ p.real_base_reserves \in Nat /\ Q <= top
  <2>1. p \in PoolState /\ p.virt_base_reserves > 0
    BY DEF Priced
  <2>2. b \in Nat /\ U64_MAX \in Nat
    BY U64Facts, WidthAssumption
  <2> QED BY <2>1, <2>2, PoolSides
<1>2. b * top <= U64_MAX * vb
  BY DEF FitsItsTerms, FittingTerms
<1> HIDE DEF B, Q, top, vb
<1>3. B - b \in Nat \ {0} /\ vb <= B - b
  BY <1>1
<1>4. b * Q <= b * top /\ U64_MAX * vb <= U64_MAX * (B - b)
  BY <1>1, <1>3, ProductMonotone
<1>5. b * Q \in Nat /\ b * top \in Nat /\ U64_MAX * vb \in Nat
      /\ U64_MAX * (B - b) \in Nat
  BY <1>1, <1>3
<1>6. price \in Nat /\ (B - b) * price <= b * Q
  BY <1>3, <1>5, DivBounds
<1> HIDE DEF price
<1>7. (B - b) * price < (B - b) * (U64_MAX + 1)
  <2>1. (B - b) * (U64_MAX + 1) = U64_MAX * (B - b) + (B - b)
    <3> DEFINE d == B - b
    <3>1. d \in Nat
      BY <1>3
    <3> HIDE DEF d
    <3>2. d * (U64_MAX + 1) = U64_MAX * d + d
      BY <1>1, <3>1, SMT
    <3> QED BY <3>2 DEF d
  <2>2. (B - b) * price \in Int
    BY <1>3, <1>6
  <2> QED BY <2>1, <2>2, <1>2, <1>3, <1>4, <1>5, <1>6
<1>8. price < U64_MAX + 1
  BY <1>1, <1>3, <1>6, <1>7, CancelFactor
<1> QED BY <1>1, <1>6, <1>8 DEF price, B, Q, U64

(* Cut, such a buy is fair; whole, it pays less than one unit too little.    *)
LEMMA ExactBaseBuyIsNearlyFair ==
    ASSUME FitInv, NEW u \in Users, NEW m \in BaseMints, NEW b \in BaseAmounts,
           NEW max \in MaxInputs, BuyExactTokensFromQuote(u, m, b, max)
    PROVE  NearlyFair(pool[m], pool'[m])
<1> DEFINE p == pool[m]
           fill == ExactBaseFill(p, mainState.trading_fee, b)
           q == AfterBuy(p, fill)
           B == BaseReserves(p)
           Q == QuoteReserves(p)
           required == calculate_input_amount(b, Q, B)
           cut == p.real_quote_reserves + required > p.real_quote_threshold
<1>1. /\ Priced(p) /\ p.exists /\ ~p.complete /\ FitsItsTerms(p)
      /\ p.real_quote_reserves < p.real_quote_threshold
      /\ b \in U64 /\ b <= p.real_base_reserves
      /\ fill.fee \in Nat /\ fill.quote \in Nat /\ fill.base \in Nat /\ fill.base <= b
      /\ q \in PoolState /\ pool'[m] = q
  BY ExactBaseBuyFacts DEF FitInv
<1>2. /\ cut => fill.base = compute_receivable_amount_on_buy(p, fill.quote)
      /\ ~cut => fill.base = b /\ fill.quote = required
  BY DEF ExactBaseFill, compute_required_amount_on_buy
<1>3. /\ B \in U64 /\ B \in Nat \ {0} /\ Q \in U64 /\ Q \in Nat \ {0}
      /\ p.real_base_reserves \in Nat /\ p.real_base_reserves < B
      /\ b \in Nat
  BY <1>1, ReserveFacts, U64Facts
<1>4. p \in PoolState
  BY <1>1 DEF Priced
<1> HIDE DEF fill
<1>5. BaseReserves(q) = B - fill.base /\ QuoteReserves(q) = Q + fill.quote
  <2>1. /\ q.virt_base_reserves = p.virt_base_reserves
        /\ q.virt_quote_reserves = p.virt_quote_reserves
        /\ q.real_base_reserves = p.real_base_reserves - fill.base
        /\ q.real_quote_reserves = p.real_quote_reserves + fill.quote
    BY <1>4 DEF AfterBuy, PoolState
  <2> HIDE DEF q, p
  <2> QED BY <2>1, <1>1, <1>4, PoolSides DEF BaseReserves, QuoteReserves
<1>6. CASE cut
  <2>1. Fairly(p, q)
    BY <1>1, <1>2, <1>6, BuyIsFair
  <2>2. BaseReserves(q) > 0
    BY <1>1, <1>3, <1>5
  <2>3. Product(q) >= Product(p)
    BY <2>1 DEF Fairly
  <2>4. Product(q) \in Nat /\ Product(p) \in Nat /\ BaseReserves(q) \in Nat
    BY <1>1, <1>4, PoolSides
  <2> HIDE DEF p, q
  <2> QED BY <2>2, <2>3, <2>4, <1>1 DEF NearlyFair, p
<1>7. CASE ~cut
  <2>1. (b * Q) \div (B - b) \in U64
    <3>1. p.real_quote_reserves <= p.real_quote_threshold
      BY <1>1, <1>4, PoolSides
    <3> HIDE DEF p
    <3> QED BY <1>1, <3>1, PriceFits
  <2>2. b < B
    BY <1>1, <1>3
  <2>3. required \in U64 /\ Q * B < (Q + required + 1) * (B - b)
    BY <1>1, <1>3, <2>1, <2>2, InputIsShortByLessThanOneUnit
  <2>4. required \in Nat
    BY <2>3, U64Facts
  <2>5. Product(p) = B * Q /\ Product(q) = (B - b) * (Q + required)
        /\ BaseReserves(q) = B - b
    BY <1>2, <1>5, <1>7 DEF Product
  <2> HIDE DEF p, q, B, Q, required
  <2>6. (Q + required + 1) * (B - b) = (B - b) * (Q + required) + (B - b) /\ Q * B = B * Q
    BY <1>3, <2>4, SMT
  <2>7. (B - b) * (Q + required) + (B - b) > B * Q
    BY <2>3, <2>6, <1>3, <2>4, SMT
  <2> QED BY <2>5, <2>7, <1>1 DEF NearlyFair, p
<1> QED BY <1>6, <1>7

(* A step that is no exact-base buy never lets the product fall, and an      *)
(* exact-base buy by less than one quote unit times the base side, however   *)
(* many follow each other (pool/state.rs:70-94).                             *)
THEOREM ExactBaseLossIsBounded ==
    ASSUME OwnerKeepsTermsFitting PROVE Spec => ProductLossIsBounded
<1>1. FitInv /\ [Next]_vars =>
        \A m \in BaseMints :
          pool[m].exists /\ ~Withdrawn(pool'[m]) =>
              Product(pool'[m]) + BaseReserves(pool'[m]) > Product(pool[m])
  <2> SUFFICES ASSUME FitInv, [Next]_vars, NEW m \in BaseMints,
                      pool[m].exists, ~Withdrawn(pool'[m])
               PROVE  NearlyFair(pool[m], pool'[m])
    BY DEF NearlyFair
  <2>1. CASE ExactBaseBuyOf(m)
    BY <2>1, ExactBaseBuyIsNearlyFair DEF ExactBaseBuyOf
  <2>2. CASE ~ExactBaseBuyOf(m)
    <3>1. IInv /\ IInv'
      BY NextIInv DEF FitInv
    <3>2. Evolves(m)
      BY <3>1, <2>2, OtherStepsEvolve
    <3>3. /\ pool[m] \in PoolState /\ pool'[m] \in PoolState
          /\ Product(pool[m]) \in Nat /\ pool'[m].exists
      BY <3>1, <3>2, IInvParts, IInvPartsPrimed, PoolSides DEF PoolsOK, Evolves, Fairly
    <3>4. /\ Product(pool'[m]) >= Product(pool[m])
          /\ pool'[m].virt_base_reserves > 0
      BY <3>1, <3>2, <3>3, IInvPartsPrimed DEF PoolsOK, Listed, Evolves, Fairly
    <3>5. /\ Product(pool[m]) \in Nat /\ Product(pool'[m]) \in Nat
          /\ BaseReserves(pool'[m]) \in Nat /\ BaseReserves(pool'[m]) > 0
      BY <3>3, <3>4, PoolSides
    <3> QED BY <3>4, <3>5 DEF NearlyFair
  <2> QED BY <2>1, <2>2
<1> QED BY <1>1, TermsAlwaysFit, PTL DEF Spec, ProductLossIsBounded

-----------------------------------------------------------------------------
(* Checked arithmetic.  The sums of buy.rs:113 and of the events stay within *)
(* u64 when the terms and the orders leave them room.  Those of constants.rs *)
(* do: only an order near 2^64 of the smallest units does not.               *)
SumsFit(virt_quote, threshold) ==
    /\ virt_quote + threshold \in U64
    /\ \A quote_amount \in QuoteAmounts : threshold + quote_amount \in U64

MainSumsFit ==
    SumsFit(mainState.init_virt_quote_reserves, mainState.real_quote_threshold)

(* The defaults leave room, and no update the owner makes changes that.      *)
OwnerKeepsSumsFitting ==
    /\ SumsFit(INIT_VIRT_QUOTE_RESERVE, REAL_QUOTE_THRESHOLD)
    /\ \A input \in UpdateInputs, q \in U64, t \in U64 :
         SumsFit(q, t) => SumsFit(OrElse(input.init_virt_quote_reserves, q),
                                  OrElse(input.real_quote_threshold, t))

(* A listed curve has room for its threshold and for all of its supply.      *)
HasRoom(m) ==
    /\ SumsFit(pool[m].virt_quote_reserves, pool[m].real_quote_threshold)
    /\ pool[m].virt_base_reserves + mint[m].supply \in U64

RoomInv ==
    /\ ConservedInv
    /\ SupplyInv
    /\ FillInv
    /\ MainSumsFit
    /\ \A m \in BaseMints : pool[m].exists => HasRoom(m)

(* The configuration keeps leaving room.                                     *)
LEMMA NextMainSumsFit ==
    ASSUME OwnerKeepsSumsFitting, IInv, MainSumsFit, [Next]_vars
    PROVE  MainSumsFit'
<1>1. mainState \in MainStateAccount
  BY IInvParts
<1>2. CASE mainState' = mainState
  BY <1>2 DEF MainSumsFit
<1>3. ASSUME NEW owner \in Users, InitMainState(owner)
      PROVE  MainSumsFit'
  BY <1>3 DEF InitMainState, DefaultMainState, MainSumsFit, OwnerKeepsSumsFitting
<1>4. ASSUME NEW owner \in Users, NEW new_owner \in NewOwners,
             TransferOwnership(owner, new_owner)
      PROVE  MainSumsFit'
  BY <1>1, <1>4 DEF TransferOwnership, MainSumsFit, MainStateAccount
<1>5. ASSUME NEW owner \in Users, NEW input \in UpdateInputs, UpdateMainState(owner, input)
      PROVE  MainSumsFit'
  <2> DEFINE q == mainState.init_virt_quote_reserves
             t == mainState.real_quote_threshold
  <2>1. /\ mainState'.init_virt_quote_reserves = OrElse(input.init_virt_quote_reserves, q)
        /\ mainState'.real_quote_threshold = OrElse(input.real_quote_threshold, t)
    BY <1>1, <1>5 DEF UpdateMainState, MainStateAccount
  <2>2. SumsFit(q, t) /\ q \in U64 /\ t \in U64
    BY <1>1, MainFacts DEF MainSumsFit
  <2> HIDE DEF q, t
  <2>3. SumsFit(OrElse(input.init_virt_quote_reserves, q),
                OrElse(input.real_quote_threshold, t))
    BY <2>2 DEF OwnerKeepsSumsFitting
  <2> QED BY <2>1, <2>3 DEF MainSumsFit
<1>6. PoolNext => mainState' = mainState
  BY DEF PoolNext, CreatePool, BuyTokensFromExactQuote, BuyExactTokensFromQuote,
         buy_finalize, Sell, Withdraw
<1> QED BY <1>2, <1>3, <1>4, <1>5, <1>6 DEF Next, MainNext, vars

(* A listed curve keeps its room: its terms stay, its supply only falls.     *)
LEMMA NextHasRoom ==
    ASSUME NoExactBaseBuys, RoomInv, IInv', [Next]_vars,
           NEW m \in BaseMints, pool'[m].exists
    PROVE  HasRoom(m)'
<1>1. IInv /\ LedgerTypeOK /\ LedgerTypeOK' /\ PoolsOK /\ PoolsOK' /\ ListedAreFinal
  BY IInvParts, IInvPartsPrimed DEF RoomInv, SupplyInv, BackedInv
<1>2. Evolves(m) /\ pool[m] \in PoolState /\ pool'[m] \in PoolState
  BY <1>1, StepEvolves DEF PoolsOK
<1>3. ASSUME pool[m].exists, SameTerms(pool[m], pool'[m])
      PROVE  HasRoom(m)'
  <2> DEFINE vb == pool[m].virt_base_reserves
             s  == mint[m].supply
             t  == mint'[m].supply
  <2>1. HasRoom(m)
    BY <1>3 DEF RoomInv
  <2>2. t <= s
    BY <1>1, <1>3, NextKeepsMints DEF ListedAreFinal, MintKept
  <2>3. s \in Nat /\ t \in Nat /\ vb \in Nat
    BY <1>1, <1>2, PoolSides DEF LedgerTypeOK, MintAccount
  <2>4. vb + s \in U64
    BY <2>1 DEF HasRoom
  <2> HIDE DEF vb, s, t
  <2>5. vb + t \in Nat /\ vb + t <= vb + s
    BY <2>2, <2>3
  <2>6. vb + t \in U64
    BY <2>4, <2>5, U64Facts
  <2>7. SumsFit(pool'[m].virt_quote_reserves, pool'[m].real_quote_threshold)
    BY <1>3, <2>1 DEF HasRoom, SameTerms
  <2>8. pool'[m].virt_base_reserves + mint'[m].supply \in U64
    BY <1>3, <2>6 DEF SameTerms, vb, t
  <2> QED BY <2>7, <2>8 DEF HasRoom
<1>4. CASE pool'[m] = pool[m]
  BY <1>2, <1>3, <1>4 DEF SameTerms
<1>5. CASE \E creator \in Users : CreatePool(creator, m)
  <2>1. PICK creator \in Users : CreatePool(creator, m)
    BY <1>5
  <2> DEFINE q == NewPool(creator)
  <2>2. /\ pool'[m] = q /\ mint'[m].supply = mainState.total_supply
        /\ BaseReserves(q) \in U64
    BY <1>1, <2>1 DEF CreatePool, PoolsOK
  <2>3. /\ q.virt_quote_reserves = mainState.init_virt_quote_reserves
        /\ q.real_quote_threshold = mainState.real_quote_threshold
        /\ BaseReserves(q) = q.virt_base_reserves + mainState.total_supply
    BY DEF NewPool, BaseReserves
  <2> HIDE DEF q
  <2> QED BY <2>2, <2>3 DEF HasRoom, RoomInv, MainSumsFit
<1>6. CASE Fairly(pool[m], pool'[m])
  BY <1>3, <1>6 DEF Fairly
<1>7. CASE pool[m].exists /\ SameTerms(pool[m], pool'[m])
  BY <1>3, <1>7
<1> QED BY <1>2, <1>4, <1>5, <1>6, <1>7 DEF Evolves

(* Every step leaves a trading curve its room.                               *)
LEMMA NextRoomInv ==
    ASSUME IsFiniteSet(Holders), NoExactBaseBuys, OwnerKeepsTermsFair, OwnerKeepsSumsFitting
    PROVE  RoomInv /\ [Next]_vars => RoomInv'
<1> SUFFICES ASSUME RoomInv, [Next]_vars PROVE RoomInv'
  OBVIOUS
<1>1. ConservedInv' /\ SupplyInv' /\ FillInv' /\ IInv /\ IInv' /\ MainSumsFit
  BY NextConserved, NextSupplyInv, NextFillInv, NextIInv DEF RoomInv, FillInv
<1>2. MainSumsFit'
  BY <1>1, NextMainSumsFit
<1>3. \A m \in BaseMints : pool'[m].exists => HasRoom(m)'
  BY <1>1, NextHasRoom
<1> QED BY <1>1, <1>2, <1>3 DEF RoomInv

(* At first there is room.                                                   *)
LEMMA InitRoomInv ==
    ASSUME IsFiniteSet(Holders), OwnerKeepsTermsFair, OwnerKeepsSumsFitting
    PROVE  Init => RoomInv
<1> SUFFICES ASSUME Init PROVE RoomInv
  OBVIOUS
<1>1. MainSumsFit
  BY DEF Init, MainInit, DefaultMainState, MainSumsFit, OwnerKeepsSumsFitting
<1>2. \A m \in BaseMints : ~pool[m].exists
  BY DEF Init, NoPool
<1> QED BY <1>1, <1>2, InitConserved, InitSupplyInv, InitFillInv DEF RoomInv

(* The numbers of a trading curve: it holds no more base tokens than there   *)
(* are, and no more quote than its threshold.                                *)
LEMMA RoomOfTrading ==
    ASSUME IsFiniteSet(Holders), RoomInv, NEW m \in BaseMints, Trading(m)
    PROVE  LET p == pool[m]
           IN  /\ p \in PoolState /\ Priced(p) /\ Headroom(p) \in U64
               /\ p.real_quote_reserves < p.real_quote_threshold
               /\ mint[m].supply \in Nat /\ Vault(m, m) \in Nat
               /\ p.real_base_reserves <= Vault(m, m) /\ Vault(m, m) <= mint[m].supply
               /\ p.virt_base_reserves + mint[m].supply \in U64
               /\ SumsFit(p.virt_quote_reserves, p.real_quote_threshold)
<1> DEFINE p == pool[m]
<1>1. /\ IInv /\ LedgerTypeOK /\ PoolsOK /\ p \in PoolState /\ Listed(p) /\ p.exists /\ ~p.complete
      /\ HasRoom(m)
  BY IInvParts DEF RoomInv, FillInv, PoolsOK, Trading
<1>2. /\ mint[m].supply \in Nat /\ Vault(m, m) \in Nat
      /\ Vault(m, m) >= p.real_base_reserves
  BY <1>1, VaultFacts DEF RoomInv, SupplyInv, BackedInv, VaultsBacked, Trading,
                          LedgerTypeOK, MintAccount
<1>3. Vault(m, m) <= mint[m].supply
  <2>1. /\ pool_pda(m) \in Holders /\ DEFAULT_OWNER \in Users /\ DEFAULT_OWNER \in Holders
        /\ DEFAULT_OWNER # pool_pda(m) /\ m \in Mints
    BY PdaFacts, ConfigAssumption
  <2>2. balance[m][pool_pda(m)] + balance[m][DEFAULT_OWNER] <= mint[m].supply
    BY <2>1, TwoHoldersWithinTheSupply DEF RoomInv
  <2>3. balance[m][DEFAULT_OWNER] \in Nat /\ Vault(m, m) = balance[m][pool_pda(m)]
    BY <1>1, <2>1 DEF LedgerTypeOK, Vault
  <2> QED BY <1>2, <2>2, <2>3
<1>4. /\ p.virt_base_reserves \in Nat /\ p.real_base_reserves \in Nat
      /\ p.virt_quote_reserves \in Nat /\ p.real_quote_reserves \in Nat
      /\ p.real_quote_threshold \in Nat
      /\ BaseReserves(p) \in Nat /\ QuoteReserves(p) \in Nat
      /\ BaseReserves(p) = p.virt_base_reserves + p.real_base_reserves
      /\ QuoteReserves(p) = p.virt_quote_reserves + p.real_quote_reserves
  BY <1>1, PoolSides
<1>5. /\ p.virt_base_reserves + mint[m].supply \in U64
      /\ SumsFit(p.virt_quote_reserves, p.real_quote_threshold)
  BY <1>1 DEF HasRoom
<1>6. p.real_quote_reserves < p.real_quote_threshold /\ p.virt_base_reserves > 0
      /\ p.virt_quote_reserves > 0
  BY <1>1 DEF Listed
<1>7. p.virt_quote_reserves + p.real_quote_threshold \in U64 /\ p.real_quote_threshold \in U64
  BY <1>1, <1>5 DEF SumsFit, PoolState
<1> HIDE DEF p
<1>8. BaseReserves(p) <= p.virt_base_reserves + mint[m].supply
      /\ QuoteReserves(p) <= p.virt_quote_reserves + p.real_quote_threshold
      /\ p.real_quote_threshold - p.real_quote_reserves \in Nat
      /\ p.real_quote_threshold - p.real_quote_reserves <= p.real_quote_threshold
  BY <1>2, <1>3, <1>4, <1>6
<1>9. BaseReserves(p) \in U64 /\ QuoteReserves(p) \in U64
      /\ p.real_quote_threshold - p.real_quote_reserves \in U64
  BY <1>4, <1>5, <1>7, <1>8, U64Facts
<1> QED BY <1>1, <1>2, <1>3, <1>5, <1>6, <1>9 DEF Priced, ReservesFit, Headroom, p

(* No checked operation of an exact-quote buy on a trading curve aborts.     *)
LEMMA BuyDoesNotOverflow ==
    ASSUME IsFiniteSet(Holders), RoomInv, NEW m \in BaseMints, Trading(m),
           NEW q \in QuoteAmounts
    PROVE  LET fee  == mainState.trading_fee
               fill == ExactQuoteFill(pool[m], fee, q)
           IN  /\ pool[m].real_quote_reserves + NetOfFee(fee, q) \in U64
               /\ AfterBuy(pool[m], fill) \in PoolState
               /\ fill.fee + fill.quote \in U64
               /\ ReservesFit(AfterBuy(pool[m], fill))
<1> DEFINE p    == pool[m]
           fee  == mainState.trading_fee
           fill == ExactQuoteFill(p, fee, q)
           after == AfterBuy(p, fill)
           base == p.real_base_reserves
           quote == p.real_quote_reserves
           t    == p.real_quote_threshold
           vb   == p.virt_base_reserves
           vq   == p.virt_quote_reserves
<1>1. /\ p \in PoolState /\ Priced(p) /\ Headroom(p) \in U64 /\ quote < t
      /\ vq + t \in U64 /\ t + q \in U64
  BY RoomOfTrading DEF SumsFit
<1>2. fee \in Fees /\ q \in U64
  BY IInvParts, MainFacts, InputAssumption DEF RoomInv, FillInv
<1>3. NetOfFee(fee, q) \in U64 /\ NetOfFee(fee, q) <= q
  BY <1>2, NetFacts
<1>4. /\ fill.fee \in Nat /\ fill.quote \in Nat /\ fill.base \in Nat
      /\ fill.fee + fill.quote = fill.total /\ fill.total <= q
      /\ quote + fill.quote <= t
      /\ fill.base = compute_receivable_amount_on_buy(p, fill.quote)
  BY <1>1, <1>2, ExactQuoteFillFacts DEF ExactQuoteFill
<1>5. base \in Nat /\ quote \in Nat /\ t \in Nat /\ vb \in Nat /\ vq \in Nat
      /\ BaseReserves(p) = vb + base /\ q \in Nat /\ base \in U64 /\ t \in U64
  BY <1>1, <1>2, PoolSides, U64Facts DEF PoolState
<1>6. fill.base <= base
  <2>1. fill.quote <= Headroom(p)
    <3> HIDE DEF fill, p
    <3> QED BY <1>4, <1>5 DEF Headroom
  <2> HIDE DEF fill
  <2> QED BY <1>4, <2>1, PaymentIsCovered DEF RoomInv
<1>7. /\ after = [p EXCEPT !.real_base_reserves = base - fill.base,
                           !.real_quote_reserves = quote + fill.quote,
                           !.complete = quote + fill.quote >= t]
  BY DEF AfterBuy
<1>8. ReservesFit(p)
  BY <1>1 DEF Priced
<1> HIDE DEF fill, p, base, quote, t, vb, vq, fee
<1>9. /\ quote + NetOfFee(fee, q) \in Nat /\ quote + NetOfFee(fee, q) <= t + q
      /\ base - fill.base \in Nat /\ base - fill.base <= base
      /\ quote + fill.quote \in Nat /\ quote + fill.quote <= t
      /\ vb + (base - fill.base) \in Nat /\ vb + (base - fill.base) <= vb + base
      /\ vq + (quote + fill.quote) \in Nat /\ vq + (quote + fill.quote) <= vq + t
      /\ fill.fee + fill.quote \in Nat /\ fill.fee + fill.quote <= q
  <2>1. NetOfFee(fee, q) \in Nat
    BY <1>3, U64Facts
  <2> QED BY <2>1, <1>1, <1>3, <1>4, <1>5, <1>6
<1>10. vb + base \in U64
  BY <1>5, <1>8 DEF ReservesFit
<1>11. /\ quote + NetOfFee(fee, q) \in U64
       /\ base - fill.base \in U64 /\ quote + fill.quote \in U64
       /\ vb + (base - fill.base) \in U64 /\ vq + (quote + fill.quote) \in U64
       /\ fill.fee + fill.quote \in U64
  BY <1>1, <1>2, <1>5, <1>9, <1>10, U64Facts
<1>12. after \in PoolState
  <2>1. (quote + fill.quote >= t) \in BOOLEAN
    OBVIOUS
  <2> HIDE DEF after
  <2> QED BY <1>1, <1>7, <1>11, <2>1 DEF PoolState
<1>13. /\ after.real_base_reserves = base - fill.base
       /\ after.real_quote_reserves = quote + fill.quote
       /\ after.virt_base_reserves = vb /\ after.virt_quote_reserves = vq
  <2> HIDE DEF after
  <2> QED BY <1>1, <1>7 DEF PoolState, vb, vq
<1> HIDE DEF after
<1>14. ReservesFit(after)
  BY <1>11, <1>13 DEF ReservesFit, BaseReserves, QuoteReserves
<1> QED BY <1>11, <1>12, <1>14 DEF after, fill, p, fee, quote

(* Nor does one of a sale of what the seller has.                            *)
LEMMA SellDoesNotOverflow ==
    ASSUME IsFiniteSet(Holders), RoomInv, NEW m \in BaseMints, Trading(m),
           NEW u \in Users, NEW b \in SellAmounts, Covers(balance, m, u, b)
    PROVE  LET fill == SellFill(pool[m], mainState.trading_fee, b)
           IN  /\ AfterSell(pool[m], fill) \in PoolState
               /\ ReservesFit(AfterSell(pool[m], fill))
<1> DEFINE p    == pool[m]
           fill == SellFill(p, mainState.trading_fee, b)
           after == AfterSell(p, fill)
           base == p.real_base_reserves
           quote == p.real_quote_reserves
           vb   == p.virt_base_reserves
           vq   == p.virt_quote_reserves
           s    == mint[m].supply
           v    == Vault(m, m)
<1>1. /\ p \in PoolState /\ Priced(p)
      /\ s \in Nat /\ v \in Nat /\ base <= v /\ v <= s /\ vb + s \in U64
  BY RoomOfTrading
<1>2. mainState.trading_fee \in Fees /\ b \in U64 /\ LedgerTypeOK
  BY IInvParts, MainFacts, InputAssumption DEF RoomInv, FillInv
<1>3. /\ fill.total \in Nat /\ fill.base = b /\ b \in Nat
      /\ fill.total = compute_receivable_amount_on_sell(p, b)
  BY <1>1, <1>2, SellFillFacts DEF SellFill
<1>4. v + b <= s
  <2>1. u \in Holders /\ pool_pda(m) \in Holders /\ u # pool_pda(m) /\ m \in Mints
    BY PdaFacts
  <2>2. balance[m][pool_pda(m)] + balance[m][u] <= mint[m].supply
    BY <2>1, TwoHoldersWithinTheSupply DEF RoomInv
  <2>3. balance[m][u] \in Nat /\ balance[m][u] >= b /\ balance[m][pool_pda(m)] \in Nat
        /\ v = balance[m][pool_pda(m)]
    BY <1>2, <2>1 DEF LedgerTypeOK, Vault, Covers
  <2> HIDE DEF v
  <2> QED BY <1>1, <1>3, <2>2, <2>3
<1>5. fill.total <= quote
  <2>1. b \in 0 .. (s - v)
    <3> HIDE DEF s, v
    <3> QED BY <1>1, <1>3, <1>4
  <2>2. CirculatingTokensCanBeSoldBack
    BY SupplyCanBeSoldBack DEF RoomInv
  <2>3. compute_receivable_amount_on_sell(p, b) <= quote
    BY <2>1, <2>2 DEF CirculatingTokensCanBeSoldBack
  <2> QED BY <1>3, <2>3
<1>6. base \in Nat /\ quote \in Nat /\ vb \in Nat /\ vq \in Nat
      /\ QuoteReserves(p) = vq + quote /\ quote \in U64
  BY <1>1, PoolSides DEF PoolState
<1>7. after = [p EXCEPT !.real_base_reserves = base + fill.base,
                        !.real_quote_reserves = quote - fill.total]
  BY DEF AfterSell
<1>8. vq + quote \in U64
  BY <1>1, <1>6 DEF Priced, ReservesFit
<1> HIDE DEF fill, p, base, quote, vb, vq, s, v
<1>9. /\ base + fill.base \in Nat /\ vb + (base + fill.base) \in Nat
      /\ base + fill.base <= vb + s /\ vb + (base + fill.base) <= vb + s
      /\ quote - fill.total \in Nat /\ quote - fill.total <= quote
      /\ vq + (quote - fill.total) \in Nat /\ vq + (quote - fill.total) <= vq + quote
  BY <1>1, <1>3, <1>4, <1>5, <1>6
<1>10. /\ base + fill.base \in U64 /\ vb + (base + fill.base) \in U64
       /\ quote - fill.total \in U64 /\ vq + (quote - fill.total) \in U64
  BY <1>1, <1>6, <1>8, <1>9, U64Facts
<1>11. after \in PoolState
  <2> HIDE DEF after
  <2> QED BY <1>1, <1>7, <1>10 DEF PoolState
<1>12. /\ after.real_base_reserves = base + fill.base
       /\ after.real_quote_reserves = quote - fill.total
       /\ after.virt_base_reserves = vb /\ after.virt_quote_reserves = vq
  <2> HIDE DEF after
  <2> QED BY <1>1, <1>7 DEF PoolState, vb, vq
<1> HIDE DEF after
<1>13. ReservesFit(after)
  BY <1>10, <1>12 DEF ReservesFit, BaseReserves, QuoteReserves
<1> QED BY <1>11, <1>13 DEF after, fill, p
=============================================================================
