-------------------------- MODULE CurveSafetyProofs --------------------------
(* For every value of the constants: a pool's reserves are in its vaults, a  *)
(* buyer by exact quote pays and gets what was agreed, a listed token's      *)
(* supply never grows, tokens are held by accounts that exist, every pool    *)
(* goes through its life as AbstractCurve says, and no step of anybody makes *)
(* a token or loses one.                                                     *)
EXTENDS PumpFunProofs, FiniteSetTheorems

Backed(m) ==
    /\ Vault(m, m) >= pool[m].real_base_reserves
    /\ Vault(QuoteMint, m) >= pool[m].real_quote_reserves

BackedInv == IInv /\ VaultsBacked

(* Vaults and reserves are numbers.                                          *)
LEMMA VaultFacts ==
    ASSUME LedgerTypeOK, PoolsOK, NEW m \in BaseMints
    PROVE  /\ Vault(m, m) \in Nat /\ Vault(QuoteMint, m) \in Nat
           /\ pool[m].real_base_reserves \in Nat /\ pool[m].real_quote_reserves \in Nat
           /\ pool[m].real_quote_threshold \in Nat
<1>1. m \in Mints /\ QuoteMint \in Mints /\ pool_pda(m) \in Holders
  BY PdaFacts
<1>2. pool[m] \in PoolState
  BY DEF PoolsOK
<1> QED BY <1>1, <1>2, U64Facts DEF LedgerTypeOK, Vault, PoolState

-----------------------------------------------------------------------------
(* What VaultsMoveAsBooked says of one pool.                                 *)
MovesAsBooked(m) ==
    /\ UnbookedBase(m)' >= UnbookedBase(m)
    /\ UnbookedQuote(m)' >= UnbookedQuote(m)
    /\ pool'[m] # pool[m] =>
         /\ UnbookedBase(m)' = UnbookedBase(m)
         /\ mainState.fee_recipient # pool_pda(m) =>
                UnbookedQuote(m)' = UnbookedQuote(m)

(* Tokens that come into the vaults of a pool nothing was booked for.        *)
LEMMA GiftsAreUnbooked ==
    ASSUME LedgerTypeOK, PoolsOK, LedgerTypeOK', NEW n \in BaseMints,
           pool'[n] = pool[n],
           Vault(n, n)' >= Vault(n, n), Vault(QuoteMint, n)' >= Vault(QuoteMint, n)
    PROVE  MovesAsBooked(n)
<1>1. Vault(n, n)' \in Nat /\ Vault(QuoteMint, n)' \in Nat
  BY PdaFacts DEF Vault, LedgerTypeOK
<1>2. /\ UnbookedBase(n)' = Vault(n, n)' - pool[n].real_base_reserves
      /\ UnbookedQuote(n)' = Vault(QuoteMint, n)' - pool[n].real_quote_reserves
  BY DEF UnbookedBase, UnbookedQuote
<1> QED BY <1>1, <1>2, VaultFacts DEF MovesAsBooked, UnbookedBase, UnbookedQuote

(* A pool whose vaults gain what is booked, and beyond it a fee that is its  *)
(* only as the fee recipient.                                                *)
LEMMA FeesAreUnbooked ==
    ASSUME LedgerTypeOK, PoolsOK, NEW n \in BaseMints,
           NEW base \in Int, NEW quote \in Int, NEW fee \in Nat,
           mainState.fee_recipient # pool_pda(n) => fee = 0,
           Vault(n, n)' = Vault(n, n) + base,
           Vault(QuoteMint, n)' = Vault(QuoteMint, n) + quote + fee,
           pool'[n].real_base_reserves = pool[n].real_base_reserves + base,
           pool'[n].real_quote_reserves = pool[n].real_quote_reserves + quote
    PROVE  MovesAsBooked(n)
<1>1. /\ UnbookedBase(n)' = Vault(n, n)' - pool'[n].real_base_reserves
      /\ UnbookedQuote(n)' = Vault(QuoteMint, n)' - pool'[n].real_quote_reserves
  BY DEF UnbookedBase, UnbookedQuote
<1>2. UnbookedBase(n)' = UnbookedBase(n) /\ UnbookedQuote(n)' = UnbookedQuote(n) + fee
  BY <1>1, VaultFacts DEF UnbookedBase, UnbookedQuote
<1>3. UnbookedBase(n) \in Int /\ UnbookedQuote(n) \in Int
  BY VaultFacts DEF UnbookedBase, UnbookedQuote
<1> QED BY <1>2, <1>3 DEF MovesAsBooked

(* A buy books what its three transfers move.                                *)
LEMMA BuyMovesAsBooked ==
    ASSUME LedgerTypeOK, PoolsOK, LedgerTypeOK', mainState \in MainStateAccount,
           NEW buyer \in Users, NEW m \in BaseMints, NEW fill,
           fill.fee \in Nat, fill.quote \in Nat, fill.base \in Nat,
           buy_finalize(buyer, m, fill), NEW n \in BaseMints
    PROVE  MovesAsBooked(n)
<1> DEFINE rec == mainState.fee_recipient
           fee == IF rec = pool_pda(n) THEN fill.fee ELSE 0
<1>1. pool' = [pool EXCEPT ![m] = AfterBuy(pool[m], fill)] /\ rec \in Holders
  BY MainFacts DEF buy_finalize
<1>2. \A t \in Mints, h \in Holders :
        balance'[t][h] = balance[t][h] + Flow(QuoteMint, buyer, rec, fill.fee, t, h)
                                       + Flow(QuoteMint, buyer, pool_pda(m), fill.quote, t, h)
                                       + Flow(m, pool_pda(m), buyer, fill.base, t, h)
  BY <1>1, BuyMoves
<1>3. /\ pool_pda(n) \in Holders /\ pool_pda(n) # buyer
      /\ m # QuoteMint /\ n # QuoteMint /\ n \in Mints /\ QuoteMint \in Mints
      /\ pool_pda(n) = pool_pda(m) => n = m
  BY PdaFacts
<1>4. Vault(n, n) \in Nat /\ Vault(QuoteMint, n) \in Nat /\ fee \in Nat
  BY VaultFacts
<1> HIDE DEF rec
<1>5. /\ Vault(n, n)' = Vault(n, n) - (IF n = m THEN fill.base ELSE 0)
      /\ Vault(QuoteMint, n)' =
           Vault(QuoteMint, n) + (IF n = m THEN fill.quote ELSE 0) + fee
  BY <1>2, <1>3, <1>4 DEF Flow, Vault
<1>6. CASE n = m
  <2>1. /\ pool'[m].real_base_reserves = pool[m].real_base_reserves + (0 - fill.base)
        /\ pool'[m].real_quote_reserves = pool[m].real_quote_reserves + fill.quote
    BY <1>1, VaultFacts DEF AfterBuy, PoolsOK, PoolState
  <2>2. rec # pool_pda(n) => fee = 0
    OBVIOUS
  <2>3. Vault(n, n)' = Vault(n, n) + (0 - fill.base)
        /\ Vault(QuoteMint, n)' = Vault(QuoteMint, n) + fill.quote + fee
    BY <1>4, <1>5, <1>6
  <2> HIDE DEF fee
  <2> QED BY <1>4, <1>6, <2>1, <2>2, <2>3, FeesAreUnbooked DEF rec
<1>7. CASE n # m
  <2>1. pool'[n] = pool[n]
    BY <1>1, <1>7 DEF PoolsOK
  <2>2. Vault(n, n)' >= Vault(n, n) /\ Vault(QuoteMint, n)' >= Vault(QuoteMint, n)
    BY <1>4, <1>5, <1>7
  <2> QED BY <2>1, <2>2, GiftsAreUnbooked
<1> QED BY <1>6, <1>7

(* So does a sale, the fee included.                                         *)
LEMMA SellMovesAsBooked ==
    ASSUME LedgerTypeOK, PoolsOK, LedgerTypeOK', mainState \in MainStateAccount,
           NEW u \in Users, NEW m \in BaseMints, NEW b \in SellAmounts,
           NEW min \in MinOutputs, Sell(u, m, b, min), NEW n \in BaseMints
    PROVE  MovesAsBooked(n)
<1> DEFINE rec == mainState.fee_recipient
           fill == SellFill(pool[m], mainState.trading_fee, b)
           fee == IF rec = pool_pda(n) THEN fill.fee ELSE 0
<1>1. /\ pool[m].exists /\ ReservesFit(pool[m]) /\ rec \in Holders
      /\ pool' = [pool EXCEPT ![m] = AfterSell(pool[m], fill)]
  BY MainFacts DEF Sell, ASell
<1>2. Priced(pool[m]) /\ mainState.trading_fee \in Fees /\ b \in U64
  BY <1>1, ListedIsPriced, MainFacts, InputAssumption DEF PoolsOK
<1>3. fill.fee \in Nat /\ fill.quote \in Nat /\ fill.total \in Nat
      /\ fill.fee + fill.quote = fill.total /\ fill.base = b /\ b \in Nat
  BY <1>2, SellFillFacts
<1>4. fill = SellFill(pool[m], mainState.trading_fee, b)
  OBVIOUS
<1> HIDE DEF fill
<1>5. \A t \in Mints, h \in Holders :
        balance'[t][h] = balance[t][h] + Flow(m, u, pool_pda(m), fill.base, t, h)
                                       + Flow(QuoteMint, pool_pda(m), rec, fill.fee, t, h)
                                       + Flow(QuoteMint, pool_pda(m), u, fill.quote, t, h)
  BY <1>1, <1>3, <1>4, SellMoves
<1>6. /\ pool_pda(n) \in Holders /\ pool_pda(n) # u
      /\ m # QuoteMint /\ n # QuoteMint /\ n \in Mints /\ QuoteMint \in Mints
      /\ pool_pda(n) = pool_pda(m) => n = m
  BY PdaFacts
<1>7. Vault(n, n) \in Nat /\ Vault(QuoteMint, n) \in Nat /\ fee \in Nat
  BY <1>3, VaultFacts
<1> HIDE DEF rec
<1>8. CASE n = m
  <2>1. /\ Vault(n, n)' = Vault(n, n) + fill.base
        /\ Vault(QuoteMint, n)' = Vault(QuoteMint, n) + (0 - fill.total) + fee
    BY <1>3, <1>5, <1>6, <1>7, <1>8 DEF Flow, Vault
  <2>2. /\ pool'[m].real_base_reserves = pool[m].real_base_reserves + fill.base
        /\ pool'[m].real_quote_reserves = pool[m].real_quote_reserves + (0 - fill.total)
    BY <1>1, <1>3, VaultFacts DEF AfterSell, PoolsOK, PoolState
  <2>3. rec # pool_pda(n) => fee = 0
    OBVIOUS
  <2> HIDE DEF fee
  <2> QED BY <1>3, <1>7, <1>8, <2>1, <2>2, <2>3, FeesAreUnbooked DEF rec
<1>9. CASE n # m
  <2>1. pool'[n] = pool[n]
    BY <1>1, <1>9 DEF PoolsOK
  <2>2. Vault(n, n)' >= Vault(n, n) /\ Vault(QuoteMint, n)' >= Vault(QuoteMint, n)
    BY <1>3, <1>5, <1>6, <1>7, <1>9 DEF Flow, Vault
  <2> QED BY <2>1, <2>2, GiftsAreUnbooked
<1> QED BY <1>8, <1>9

(* A withdrawal takes what is booked and leaves nothing booked.              *)
LEMMA WithdrawMovesAsBooked ==
    ASSUME LedgerTypeOK, PoolsOK, LedgerTypeOK',
           NEW u \in Users, NEW m \in BaseMints, Withdraw(u, m), NEW n \in BaseMints
    PROVE  MovesAsBooked(n)
<1> DEFINE base == pool[m].real_base_reserves
           quote == pool[m].real_quote_reserves
<1>1. pool' = [pool EXCEPT ![m] = AfterWithdraw(pool[m])]
  BY DEF Withdraw
<1>2. \A t \in Mints, h \in Holders :
        balance'[t][h] = balance[t][h] + Flow(m, pool_pda(m), u, base, t, h)
                                       + Flow(QuoteMint, pool_pda(m), u, quote, t, h)
  BY WithdrawMoves DEF PoolsOK
<1>3. /\ pool_pda(n) \in Holders /\ pool_pda(n) # u
      /\ m # QuoteMint /\ n # QuoteMint /\ n \in Mints /\ QuoteMint \in Mints
      /\ pool_pda(n) = pool_pda(m) => n = m
  BY PdaFacts
<1>4. Vault(n, n) \in Nat /\ Vault(QuoteMint, n) \in Nat /\ base \in Nat /\ quote \in Nat
  BY VaultFacts
<1>5. CASE n = m
  <2>1. /\ pool'[m].real_base_reserves = base + (0 - base)
        /\ pool'[m].real_quote_reserves = quote + (0 - quote)
    BY <1>1, <1>4 DEF AfterWithdraw, PoolsOK, PoolState
  <2> HIDE DEF base, quote
  <2>2. /\ Vault(n, n)' = Vault(n, n) + (0 - base)
        /\ Vault(QuoteMint, n)' = Vault(QuoteMint, n) + (0 - quote) + 0
    BY <1>2, <1>3, <1>4, <1>5 DEF Flow, Vault
  <2> QED BY <1>4, <1>5, <2>1, <2>2, FeesAreUnbooked DEF base, quote
<1>6. CASE n # m
  <2>1. pool'[n] = pool[n]
    BY <1>1, <1>6 DEF PoolsOK
  <2> HIDE DEF base, quote
  <2>2. Vault(n, n)' >= Vault(n, n) /\ Vault(QuoteMint, n)' >= Vault(QuoteMint, n)
    BY <1>2, <1>3, <1>4, <1>6 DEF Flow, Vault
  <2> QED BY <2>1, <2>2, GiftsAreUnbooked
<1> QED BY <1>5, <1>6

(* A new pool's vaults get what its books say; the others get nothing.       *)
LEMMA CreatePoolBooks ==
    ASSUME LedgerTypeOK, PoolsOK, LedgerTypeOK',
           NEW creator \in Users, NEW m \in BaseMints, CreatePool(creator, m),
           NEW n \in BaseMints
    PROVE  IF n = m THEN ~pool[n].exists /\ Backed(n)'
           ELSE pool'[n] = pool[n] /\ MovesAsBooked(n)
<1> DEFINE amount == balance[m][creator]
<1>1. \A t \in Mints, h \in Holders :
        balance'[t][h] = balance[t][h] + Flow(m, creator, pool_pda(m), amount, t, h)
  BY CreateMoves
<1>2. /\ pool_pda(n) \in Holders /\ pool_pda(n) # creator /\ creator \in Holders
      /\ m # QuoteMint /\ n # QuoteMint /\ m \in Mints /\ n \in Mints /\ QuoteMint \in Mints
      /\ pool_pda(n) = pool_pda(m) => n = m
  BY PdaFacts
<1>3. Vault(n, n) \in Nat /\ Vault(QuoteMint, n) \in Nat /\ amount \in Nat
  BY <1>2, VaultFacts DEF LedgerTypeOK
<1>4. /\ ~pool[m].exists /\ amount = mainState.total_supply
      /\ pool' = [pool EXCEPT ![m] = NewPool(creator)]
  BY DEF CreatePool, ACreatePool
<1>5. CASE n = m
  <2>1. pool'[m].real_base_reserves = amount /\ pool'[m].real_quote_reserves = 0
    BY <1>4 DEF NewPool, PoolsOK
  <2> HIDE DEF amount
  <2>2. /\ Vault(n, n)' = Vault(n, n) + amount
        /\ Vault(QuoteMint, n)' = Vault(QuoteMint, n)
    BY <1>1, <1>2, <1>3, <1>5 DEF Flow, Vault
  <2> QED BY <1>3, <1>4, <1>5, <2>1, <2>2 DEF Backed
<1>6. CASE n # m
  <2>1. pool'[n] = pool[n]
    BY <1>4, <1>6 DEF PoolsOK
  <2> HIDE DEF amount
  <2>2. Vault(n, n)' >= Vault(n, n) /\ Vault(QuoteMint, n)' >= Vault(QuoteMint, n)
    BY <1>1, <1>2, <1>3, <1>6 DEF Flow, Vault
  <2> QED BY <1>6, <2>1, <2>2, GiftsAreUnbooked
<1> QED BY <1>5, <1>6

(* Every step moves in the vaults what it books, or lists a pool with what   *)
(* its vaults were given.                                                    *)
LEMMA NextMovesAsBooked ==
    ASSUME IInv, [Next]_vars, NEW n \in BaseMints
    PROVE  /\ pool[n].exists => MovesAsBooked(n)
           /\ pool'[n].exists => pool[n].exists \/ Backed(n)'
<1> DEFINE Goal == /\ pool[n].exists => MovesAsBooked(n)
                   /\ pool'[n].exists => pool[n].exists \/ Backed(n)'
<1>1. /\ LedgerTypeOK /\ PoolsOK /\ mainState \in MainStateAccount
      /\ LedgerTypeOK' /\ PoolsOK'
  BY NextIInv, IInvParts, IInvPartsPrimed
<1>2. ASSUME pool' = pool, VaultsKept
      PROVE  Goal
  <2>1. Vault(n, n)' >= Vault(n, n) /\ Vault(QuoteMint, n)' >= Vault(QuoteMint, n)
    BY <1>2, PdaFacts DEF VaultsKept, Vault
  <2> QED BY <1>1, <1>2, <2>1, GiftsAreUnbooked
<1>3. balance' = balance => VaultsKept
  BY <1>1, PdaFacts DEF VaultsKept, LedgerTypeOK
<1>4. CASE LedgerNext /\ UNCHANGED <<mainState, pool>>
  BY <1>1, <1>2, <1>4, LedgerNextFacts
<1>5. CASE MainNext /\ UNCHANGED pool
  BY <1>1, <1>2, <1>3, <1>5, MainNextStep
<1>6. CASE PoolNext
  <2>1. ASSUME NEW u \in Users, NEW m \in BaseMints, CreatePool(u, m) PROVE Goal
    BY <1>1, <2>1, CreatePoolBooks
  <2>2. ASSUME NEW u \in Users, NEW m \in BaseMints, NEW fill, pool[m].exists,
               fill.fee \in Nat, fill.quote \in Nat, fill.base \in Nat,
               buy_finalize(u, m, fill)
        PROVE  Goal
    <3>1. MovesAsBooked(n)
      BY <1>1, <2>2, BuyMovesAsBooked
    <3>2. pool'[n].exists => pool[n].exists
      BY <1>1, <2>2 DEF buy_finalize, PoolsOK
    <3> QED BY <3>1, <3>2
  <2>3. ASSUME NEW u \in Users, NEW m \in BaseMints, NEW q \in QuoteAmounts,
               NEW min \in MinOutputs, BuyTokensFromExactQuote(u, m, q, min)
        PROVE  Goal
    <3> DEFINE fill == ExactQuoteFill(pool[m], mainState.trading_fee, q)
    <3>1. /\ pool[m].exists /\ Headroom(pool[m]) \in U64 /\ ReservesFit(pool[m])
          /\ buy_finalize(u, m, fill)
      BY <2>3 DEF BuyTokensFromExactQuote, ABuy
    <3>2. Priced(pool[m]) /\ mainState.trading_fee \in Fees /\ q \in U64
      BY <1>1, <3>1, ListedIsPriced, MainFacts, InputAssumption DEF PoolsOK
    <3>3. fill.fee \in Nat /\ fill.quote \in Nat /\ fill.base \in Nat
      BY <3>1, <3>2, ExactQuoteFillFacts
    <3> HIDE DEF fill
    <3> QED BY <3>1, <3>3, <2>2
  <2>4. ASSUME NEW u \in Users, NEW m \in BaseMints, NEW b \in BaseAmounts,
               NEW max \in MaxInputs, BuyExactTokensFromQuote(u, m, b, max)
        PROVE  Goal
    <3> DEFINE fill == ExactBaseFill(pool[m], mainState.trading_fee, b)
    <3>1. /\ pool[m].exists /\ Headroom(pool[m]) \in U64 /\ ReservesFit(pool[m])
          /\ b <= pool[m].real_base_reserves
          /\ buy_finalize(u, m, fill)
      BY <2>4 DEF BuyExactTokensFromQuote, ABuy
    <3>2. Priced(pool[m]) /\ mainState.trading_fee \in Fees /\ b \in U64
      BY <1>1, <3>1, ListedIsPriced, MainFacts, InputAssumption DEF PoolsOK
    <3>3. fill.fee \in Nat /\ fill.quote \in Nat /\ fill.base \in Nat
      BY <3>1, <3>2, ExactBaseFillFacts
    <3> HIDE DEF fill
    <3> QED BY <3>1, <3>3, <2>2
  <2>5. ASSUME NEW u \in Users, NEW m \in BaseMints, NEW b \in SellAmounts,
               NEW min \in MinOutputs, Sell(u, m, b, min)
        PROVE  Goal
    <3>1. MovesAsBooked(n)
      BY <1>1, <2>5, SellMovesAsBooked
    <3>2. pool'[n].exists => pool[n].exists
      BY <1>1, <2>5 DEF Sell, ASell, PoolsOK
    <3> QED BY <3>1, <3>2
  <2>6. ASSUME NEW u \in Users, NEW m \in BaseMints, Withdraw(u, m) PROVE Goal
    <3>1. MovesAsBooked(n)
      BY <1>1, <2>6, WithdrawMovesAsBooked
    <3>2. pool'[n].exists => pool[n].exists
      BY <1>1, <2>6 DEF Withdraw, AWithdraw, PoolsOK
    <3> QED BY <3>1, <3>2
  <2> HIDE DEF Goal
  <2>7. Goal
    BY <1>6, <2>1, <2>3, <2>4, <2>5, <2>6 DEF PoolNext
  <2> QED BY <2>7 DEF Goal
<1>7. CASE UNCHANGED vars
  BY <1>2, <1>3, <1>7 DEF vars
<1> QED BY <1>4, <1>5, <1>6, <1>7 DEF Next

(* A trade or a withdrawal moves in its pool's vaults exactly what it books, *)
(* fees paid to the pool itself apart, and no step of anybody takes out of   *)
(* any vault what was not booked (buy.rs:122, sell.rs:41, withdraw.rs:71).   *)
THEOREM BooksAndVaultsMoveTogether == Spec => VaultsMoveAsBooked
<1>1. IInv /\ [Next]_vars =>
        \A m \in BaseMints : pool[m].exists =>
          /\ UnbookedBase(m)' >= UnbookedBase(m)
          /\ UnbookedQuote(m)' >= UnbookedQuote(m)
          /\ pool'[m] # pool[m] =>
               /\ UnbookedBase(m)' = UnbookedBase(m)
               /\ mainState.fee_recipient # pool_pda(m) =>
                      UnbookedQuote(m)' = UnbookedQuote(m)
  BY NextMovesAsBooked DEF MovesAsBooked
<1> QED BY <1>1, InductiveInvariant, PTL DEF Spec, VaultsMoveAsBooked

(* So reserves that were in the vaults stay in the vaults.                   *)
LEMMA NextBacked == BackedInv /\ [Next]_vars => BackedInv'
<1> SUFFICES ASSUME BackedInv, [Next]_vars PROVE BackedInv'
  OBVIOUS
<1>1. IInv /\ IInv' /\ VaultsBacked
  BY NextIInv DEF BackedInv
<1>2. LedgerTypeOK /\ PoolsOK /\ LedgerTypeOK' /\ PoolsOK'
  BY <1>1, IInvParts, IInvPartsPrimed
<1>3. ASSUME NEW n \in BaseMints, pool'[n].exists, pool[n].exists
      PROVE  Backed(n)'
  <2>1. MovesAsBooked(n) /\ Backed(n)
    BY <1>1, <1>3, NextMovesAsBooked DEF VaultsBacked, Backed
  <2>2. /\ UnbookedBase(n) >= 0 /\ UnbookedQuote(n) >= 0
        /\ UnbookedBase(n) \in Int /\ UnbookedQuote(n) \in Int
    BY <1>2, <2>1, VaultFacts DEF Backed, UnbookedBase, UnbookedQuote
  <2>3. /\ Vault(n, n)' \in Nat /\ Vault(QuoteMint, n)' \in Nat
        /\ pool'[n].real_base_reserves \in Nat /\ pool'[n].real_quote_reserves \in Nat
    <3>1. Vault(n, n)' \in Nat /\ Vault(QuoteMint, n)' \in Nat
      BY <1>2, PdaFacts DEF Vault, LedgerTypeOK
    <3>2. pool'[n] \in PoolState
      BY <1>2 DEF PoolsOK
    <3> QED BY <3>1, <3>2, U64Facts DEF PoolState
  <2>4. /\ UnbookedBase(n)' = Vault(n, n)' - pool'[n].real_base_reserves
        /\ UnbookedQuote(n)' = Vault(QuoteMint, n)' - pool'[n].real_quote_reserves
    BY DEF UnbookedBase, UnbookedQuote
  <2>5. UnbookedBase(n)' >= UnbookedBase(n) /\ UnbookedQuote(n)' >= UnbookedQuote(n)
    BY <2>1 DEF MovesAsBooked
  <2>6. UnbookedBase(n)' >= 0 /\ UnbookedQuote(n)' >= 0
    BY <2>2, <2>3, <2>4, <2>5
  <2> QED BY <2>3, <2>4, <2>6 DEF Backed
<1>4. ASSUME NEW n \in BaseMints, pool'[n].exists
      PROVE  Backed(n)'
  BY <1>1, <1>3, <1>4, NextMovesAsBooked
<1> QED BY <1>1, <1>4 DEF BackedInv, VaultsBacked, Backed

(* What a pool books as its reserves is in its vaults, also when fees are    *)
(* paid to a pool's account and whoever else sends tokens there: withdraw    *)
(* and every sell can be paid (buy.rs:122, sell.rs:41, withdraw.rs:32-56).   *)
THEOREM ReservesAreInTheVaults == Spec => []VaultsBacked
<1>1. Init => BackedInv
  <2>1. Init => VaultsBacked
    BY DEF Init, VaultsBacked, NoPool
  <2> QED BY <2>1, InitIInv DEF BackedInv
<1>2. BackedInv => VaultsBacked
  BY DEF BackedInv
<1> QED BY <1>1, <1>2, NextBacked, PTL DEF Spec

-----------------------------------------------------------------------------
(* Who pays what in a buy: the vault and the fee recipient share a payment   *)
(* of at most quote_amount, and the buyer is not the pool.                   *)
LEMMA ExactQuoteBuyMoves ==
    ASSUME IInv, NEW u \in Users, NEW m \in BaseMints, NEW q \in QuoteAmounts,
           NEW min \in MinOutputs, BuyTokensFromExactQuote(u, m, q, min)
    PROVE  Paid(QuoteMint, u) <= q /\ Received(m, u) >= min
<1> DEFINE fill == ExactQuoteFill(pool[m], mainState.trading_fee, q)
           rec  == mainState.fee_recipient
<1>1. LedgerTypeOK /\ mainState \in MainStateAccount /\ PoolsOK
      /\ rec \in Holders
  BY IInvParts, MainFacts
<1>2. /\ pool[m].exists /\ Headroom(pool[m]) \in U64 /\ ReservesFit(pool[m])
      /\ fill.base >= min /\ buy_finalize(u, m, fill)
  BY DEF BuyTokensFromExactQuote, ABuy
<1>3. Priced(pool[m]) /\ mainState.trading_fee \in Fees /\ q \in U64 /\ q \in Nat
      /\ min \in Nat
  BY <1>1, <1>2, ListedIsPriced, MainFacts, InputAssumption, U64Facts DEF PoolsOK
<1>4. fill.fee \in Nat /\ fill.quote \in Nat /\ fill.base \in Nat
      /\ fill.fee + fill.quote = fill.total /\ fill.total <= q
  BY <1>2, <1>3, ExactQuoteFillFacts
<1> HIDE DEF fill
<1>5. \A t \in Mints, h \in Holders :
        balance'[t][h] = balance[t][h] + Flow(QuoteMint, u, rec, fill.fee, t, h)
                                       + Flow(QuoteMint, u, pool_pda(m), fill.quote, t, h)
                                       + Flow(m, pool_pda(m), u, fill.base, t, h)
  BY <1>1, <1>2, <1>4, BuyMoves
<1> HIDE DEF rec
<1>6. u \in Holders /\ u # pool_pda(m) /\ m # QuoteMint /\ m \in Mints /\ QuoteMint \in Mints
  BY PdaFacts
<1>7. balance[m][u] \in Nat /\ balance[QuoteMint][u] \in Nat
  BY <1>1, <1>6 DEF LedgerTypeOK
<1>8. /\ balance'[QuoteMint][u] >= balance[QuoteMint][u] - (fill.fee + fill.quote)
      /\ balance'[QuoteMint][u] \in Int
      /\ balance'[m][u] = balance[m][u] + fill.base
  BY <1>4, <1>5, <1>6, <1>7 DEF Flow
<1> QED BY <1>2, <1>3, <1>4, <1>7, <1>8 DEF Paid, Received

(* A buyer by exact quote never pays more than quote_amount, fee included,   *)
(* also when the buy is cut to what the curve still takes and the payment    *)
(* recomputed, and gets min_base_amount or more (buy.rs:97-130).             *)
THEOREM ExactQuoteBuyIsWithinItsLimits == Spec => ExactQuoteBuyKeepsItsLimits
<1>1. IInv => \A u \in Users, m \in BaseMints, q \in QuoteAmounts, min \in MinOutputs :
                BuyTokensFromExactQuote(u, m, q, min) =>
                    Paid(QuoteMint, u) <= q /\ Received(m, u) >= min
  BY ExactQuoteBuyMoves
<1> QED BY <1>1, InductiveInvariant, PTL DEF ExactQuoteBuyKeepsItsLimits

-----------------------------------------------------------------------------
(* No mint with an authority is listed; authorities are never given back.    *)
ListedAreFinal == \A m \in BaseMints : pool[m].exists => ~mint[m].mint_authority

(* What the token program does to a mint without a mint authority.           *)
MintKept(m) ==
    ~mint[m].mint_authority =>
        ~mint'[m].mint_authority /\ mint'[m].supply <= mint[m].supply

(* Without a mint authority, the token program can only burn.                *)
LEMMA LedgerNextKeepsMints ==
    ASSUME LedgerTypeOK, LedgerNext, NEW m \in BaseMints
    PROVE  MintKept(m)
<1>1. mint \in [BaseMints -> MintAccount] /\ mint[m].supply \in Nat
  BY DEF LedgerTypeOK, MintAccount
<1>2. ASSUME NEW n \in BaseMints, NEW to \in Creators, NEW amount \in MintAmounts,
             MintTo(n, to, amount)
      PROVE  MintKept(m)
  BY <1>1, <1>2 DEF MintTo, MintKept, MintAccount
<1>3. ASSUME NEW n \in BaseMints, RevokeMintAuthority(n) \/ RevokeFreezeAuthority(n)
      PROVE  MintKept(m)
  BY <1>1, <1>3 DEF RevokeMintAuthority, RevokeFreezeAuthority, MintKept, MintAccount
<1>4. ASSUME NEW n \in BaseMints, NEW from \in Users, NEW amount \in BurnAmounts,
             BurnToken(n, from, amount)
      PROVE  MintKept(m)
  <2>1. amount \in Nat
    BY LedgerAssumption
  <2> QED BY <1>1, <1>4, <2>1 DEF BurnToken, MintKept, MintAccount
<1>5. mint' = mint => MintKept(m)
  BY <1>1 DEF MintKept
<1> QED BY <1>2, <1>3, <1>4, <1>5 DEF LedgerNext, TransferToken, CloseAccount

(* The program touches no mint.                                              *)
LEMMA NextKeepsMints ==
    ASSUME IInv, [Next]_vars, NEW m \in BaseMints
    PROVE  MintKept(m)
<1>1. LedgerTypeOK /\ mainState \in MainStateAccount /\ mint[m].supply \in Nat
  BY IInvParts DEF LedgerTypeOK, MintAccount
<1>2. CASE LedgerNext
  BY <1>1, <1>2, LedgerNextKeepsMints
<1>3. CASE mint' = mint
  BY <1>1, <1>3 DEF MintKept
<1>4. MainNext => mint' = mint
  BY <1>1, MainNextStep
<1>5. PoolNext => mint' = mint
  BY DEF PoolNext, CreatePool, BuyTokensFromExactQuote, BuyExactTokensFromQuote,
         buy_finalize, Sell, Withdraw
<1> QED BY <1>2, <1>3, <1>4, <1>5 DEF Next, vars

(* A pool is only listed on a mint without a mint authority.                 *)
LEMMA NextListedAreFinal == IInv /\ ListedAreFinal /\ [Next]_vars => ListedAreFinal'
<1> SUFFICES ASSUME IInv, ListedAreFinal, [Next]_vars, NEW m \in BaseMints, pool'[m].exists
             PROVE  ~mint'[m].mint_authority
  BY DEF ListedAreFinal
<1>1. PoolsOK /\ MintKept(m)
  BY IInvParts, NextKeepsMints
<1>2. CASE pool[m].exists
  BY <1>1, <1>2 DEF ListedAreFinal, MintKept
<1>3. CASE ~pool[m].exists
  <2>1. ASSUME NEW u \in Users, NEW n \in BaseMints, CreatePool(u, n)
        PROVE  ~mint[m].mint_authority
    <3>1. n = m
      BY <1>1, <1>3, <2>1 DEF CreatePool, PoolsOK
    <3> QED BY <2>1, <3>1 DEF CreatePool, MintIsFinal
  <2>2. ASSUME NEW n \in BaseMints, NEW q, pool[n].exists, pool' = [pool EXCEPT ![n] = q]
        PROVE  FALSE
    BY <1>1, <1>3, <2>2 DEF PoolsOK
  <2>3. CASE PoolNext
    <3>1. ASSUME NEW u \in Users, NEW n \in BaseMints, NEW fill,
                 pool[n].exists, buy_finalize(u, n, fill)
          PROVE  FALSE
      BY <2>2, <3>1 DEF buy_finalize
    <3>2. ASSUME NEW u \in Users, NEW n \in BaseMints, NEW q \in QuoteAmounts,
                 NEW min \in MinOutputs, BuyTokensFromExactQuote(u, n, q, min)
          PROVE  FALSE
      BY <3>1, <3>2 DEF BuyTokensFromExactQuote, ABuy
    <3>3. ASSUME NEW u \in Users, NEW n \in BaseMints, NEW b \in BaseAmounts,
                 NEW max \in MaxInputs, BuyExactTokensFromQuote(u, n, b, max)
          PROVE  FALSE
      BY <3>1, <3>3 DEF BuyExactTokensFromQuote, ABuy
    <3>4. ASSUME NEW u \in Users, NEW n \in BaseMints, NEW b \in SellAmounts,
                 NEW min \in MinOutputs, Sell(u, n, b, min)
          PROVE  FALSE
      BY <2>2, <3>4 DEF Sell, ASell
    <3>5. ASSUME NEW u \in Users, NEW n \in BaseMints, Withdraw(u, n)
          PROVE  FALSE
      BY <2>2, <3>5 DEF Withdraw, AWithdraw
    <3>6. ~mint[m].mint_authority
      BY <2>3, <2>1, <3>2, <3>3, <3>4, <3>5 DEF PoolNext
    <3> QED BY <3>6, <1>1 DEF MintKept
  <2>4. ~PoolNext => pool' = pool
    BY DEF Next, vars
  <2> QED BY <1>3, <2>3, <2>4
<1> QED BY <1>2, <1>3

(* Once a token is listed its supply can only be burned: what create_pool    *)
(* checks about the mint holds ever after (create_pool.rs:28-31).            *)
THEOREM ListedSupplyIsFinal == Spec => ListedSupplyNeverGrows
<1>1. Init => ListedAreFinal
  BY DEF Init, NoPool, ListedAreFinal
<1>2. IInv /\ ListedAreFinal /\ [Next]_vars
        => \A m \in BaseMints : pool[m].exists => mint'[m].supply <= mint[m].supply
  BY NextKeepsMints DEF ListedAreFinal, MintKept
<1> QED BY <1>1, <1>2, NextListedAreFinal, InductiveInvariant, PTL
       DEF Spec, ListedSupplyNeverGrows

(* Open accounts: tokens are only ever held by accounts that exist, although *)
(* users may close their empty accounts at any time.                         *)

(* FundsAreInOpenAccounts, for any balances and any set of accounts.         *)
OpenFunds(bal, open) ==
    \A token \in Mints, h \in Holders : bal[token][h] > 0 => <<token, h>> \in open

(* A transfer into an account that exists.                                   *)
LEMMA TransferToOpen ==
    ASSUME NEW bal \in Balances, NEW token \in Mints, NEW from \in Holders,
           NEW to \in Holders, NEW amount \in Nat, NEW open,
           Covers(bal, token, from, amount),
           OpenFunds(bal, open), <<token, to>> \in open
    PROVE  /\ Transfer(bal, token, from, to, amount) \in Balances
           /\ OpenFunds(Transfer(bal, token, from, to, amount), open)
<1> DEFINE new == Transfer(bal, token, from, to, amount)
<1>1. new \in Balances
      /\ \A t \in Mints, h \in Holders :
           new[t][h] = bal[t][h] + Flow(token, from, to, amount, t, h)
  BY TransferFacts
<1> HIDE DEF new
<1>2. ASSUME NEW t \in Mints, NEW h \in Holders, new[t][h] > 0, ~(t = token /\ h = to)
      PROVE  <<t, h>> \in open
  <2>1. bal[t][h] \in Nat /\ new[t][h] = bal[t][h] + Flow(token, from, to, amount, t, h)
    BY <1>1 DEF Balances
  <2>2. bal[t][h] > 0
    BY <1>2, <2>1 DEF Flow
  <2> QED BY <2>2 DEF OpenFunds
<1>3. OpenFunds(new, open)
  BY <1>2 DEF OpenFunds
<1> QED BY <1>1, <1>3 DEF new

(* A pool's own accounts are there as long as the pool is.                   *)
VaultsOpen ==
    \A m \in BaseMints : pool[m].exists =>
        <<m, pool_pda(m)>> \in atas /\ <<QuoteMint, pool_pda(m)>> \in atas

FundsInv == IInv /\ FundsAreInOpenAccounts /\ VaultsOpen

(* Accounts opened on the way take no funds from anybody.                    *)
LEMMA OpenedMore ==
    ASSUME OpenFunds(balance, atas), atas \subseteq atas'
    PROVE  OpenFunds(balance, atas')
  BY DEF OpenFunds

(* The property in the form the steps use.                                   *)
LEMMA FundsIsOpenFunds ==
    /\ FundsAreInOpenAccounts <=> OpenFunds(balance, atas)
    /\ FundsAreInOpenAccounts' <=> OpenFunds(balance', atas')
  BY DEF FundsAreInOpenAccounts, OpenFunds

(* The token program credits accounts that exist and closes empty ones.      *)
LEMMA LedgerNextFunds ==
    ASSUME LedgerTypeOK, OpenFunds(balance, atas), LedgerNext
    PROVE  /\ OpenFunds(balance', atas')
           /\ \A t \in Mints, m \in BaseMints :
                <<t, pool_pda(m)>> \in atas => <<t, pool_pda(m)>> \in atas'
<1>1. balance \in Balances
  BY DEF LedgerTypeOK, Balances
<1>2. ASSUME NEW m \in BaseMints, NEW to \in Creators, NEW amount \in MintAmounts,
             MintTo(m, to, amount)
      PROVE  OpenFunds(balance', atas') /\ atas \subseteq atas'
  <2>1. to \in Holders /\ m \in Mints /\ amount \in Nat
    BY LedgerAssumption, PdaFacts
  <2>2. \A t \in Mints, h \in Holders : ~(t = m /\ h = to) => balance'[t][h] = balance[t][h]
    BY <1>1, <1>2, <2>1 DEF MintTo, Balances
  <2> QED BY <1>2, <2>2 DEF MintTo, OpenFunds
<1>3. ASSUME NEW m \in BaseMints, RevokeMintAuthority(m) \/ RevokeFreezeAuthority(m)
      PROVE  OpenFunds(balance', atas') /\ atas \subseteq atas'
  BY <1>3 DEF RevokeMintAuthority, RevokeFreezeAuthority
<1>4. ASSUME NEW token \in Mints, NEW from \in Users, NEW to \in Holders,
             NEW amount \in TransferAmounts, TransferToken(token, from, to, amount)
      PROVE  OpenFunds(balance', atas') /\ atas \subseteq atas'
  <2>1. from \in Holders /\ amount \in Nat
    BY LedgerAssumption, PdaFacts
  <2>2. OpenFunds(balance, atas') /\ atas \subseteq atas' /\ <<token, to>> \in atas'
        /\ Covers(balance, token, from, amount)
        /\ balance' = Transfer(balance, token, from, to, amount)
    BY <1>4, OpenedMore DEF TransferToken
  <2> QED BY <1>1, <2>1, <2>2, TransferToOpen
<1>5. ASSUME NEW m \in BaseMints, NEW from \in Users, NEW amount \in BurnAmounts,
             BurnToken(m, from, amount)
      PROVE  OpenFunds(balance', atas') /\ atas \subseteq atas'
  <2>1. from \in Holders /\ m \in Mints /\ amount \in Nat
    BY LedgerAssumption, PdaFacts
  <2>2. \A t \in Mints, h \in Holders :
          balance[t][h] \in Nat /\ (balance'[t][h] > 0 => balance[t][h] > 0)
    BY <1>1, <1>5, <2>1 DEF BurnToken, Balances, Covers
  <2> QED BY <1>5, <2>2 DEF BurnToken, OpenFunds
<1>6. ASSUME NEW token \in Mints, NEW holder \in Closers, CloseAccount(token, holder)
      PROVE  /\ OpenFunds(balance', atas')
             /\ \A t \in Mints, m \in BaseMints :
                  <<t, pool_pda(m)>> \in atas => <<t, pool_pda(m)>> \in atas'
  <2>1. \A m \in BaseMints : pool_pda(m) # holder
    BY LedgerAssumption
  <2> QED BY <1>6, <2>1 DEF CloseAccount, OpenFunds
<1> QED BY <1>2, <1>3, <1>4, <1>5, <1>6 DEF LedgerNext

(* ABuy has created the three accounts a buy credits.                        *)
LEMMA BuyFunds ==
    ASSUME FundsInv, NEW buyer \in Users, NEW m \in BaseMints, NEW fill,
           fill.fee \in Nat, fill.quote \in Nat, fill.base \in Nat,
           ABuy(buyer, m), buy_finalize(buyer, m, fill)
    PROVE  OpenFunds(balance', atas') /\ atas \subseteq atas'
<1> DEFINE vault   == pool_pda(m)
           rec     == mainState.fee_recipient
           feePaid == Transfer(balance, QuoteMint, buyer, rec, fill.fee)
           paid    == Transfer(feePaid, QuoteMint, buyer, vault, fill.quote)
<1>1. /\ Covers(balance, QuoteMint, buyer, fill.fee)
      /\ Covers(feePaid, QuoteMint, buyer, fill.quote)
      /\ Covers(paid, m, vault, fill.base)
      /\ balance' = Transfer(paid, m, vault, buyer, fill.base)
  BY DEF buy_finalize
<1>2. buyer \in Holders /\ vault \in Holders /\ rec \in Holders
      /\ QuoteMint \in Mints /\ m \in Mints /\ balance \in Balances
  BY IInvParts, MainFacts, PdaFacts DEF FundsInv, LedgerTypeOK, Balances
<1>3. /\ <<QuoteMint, rec>> \in atas' /\ <<QuoteMint, vault>> \in atas'
      /\ <<m, buyer>> \in atas' /\ atas \subseteq atas'
      /\ OpenFunds(balance, atas')
  BY FundsIsOpenFunds, OpenedMore DEF ABuy, FundsInv, VaultsOpen
<1>4. feePaid \in Balances /\ OpenFunds(feePaid, atas')
  BY <1>1, <1>2, <1>3, TransferToOpen
<1> HIDE DEF feePaid
<1>5. paid \in Balances /\ OpenFunds(paid, atas')
  BY <1>1, <1>2, <1>3, <1>4, TransferToOpen
<1> HIDE DEF paid
<1> QED BY <1>1, <1>2, <1>3, <1>5, TransferToOpen

(* ASell has created the two accounts a sale credits.                        *)
LEMMA SellFunds ==
    ASSUME FundsInv, NEW u \in Users, NEW m \in BaseMints, NEW b \in SellAmounts,
           NEW min \in MinOutputs, Sell(u, m, b, min)
    PROVE  OpenFunds(balance', atas') /\ atas \subseteq atas'
<1> DEFINE vault   == pool_pda(m)
           rec     == mainState.fee_recipient
           fill    == SellFill(pool[m], mainState.trading_fee, b)
           given   == Transfer(balance, m, u, vault, fill.base)
           feePaid == Transfer(given, QuoteMint, vault, rec, fill.fee)
<1>1. /\ pool[m].exists /\ ReservesFit(pool[m]) /\ ASell(u, m, b)
      /\ Covers(balance, m, u, fill.base)
      /\ Covers(given, QuoteMint, vault, fill.fee)
      /\ Covers(feePaid, QuoteMint, vault, fill.quote)
      /\ balance' = Transfer(feePaid, QuoteMint, vault, u, fill.quote)
  BY DEF Sell, ASell, SellFill
<1>2. u \in Holders /\ vault \in Holders /\ rec \in Holders
      /\ QuoteMint \in Mints /\ m \in Mints /\ balance \in Balances
  BY IInvParts, MainFacts, PdaFacts DEF FundsInv, LedgerTypeOK, Balances
<1>3. Priced(pool[m]) /\ mainState.trading_fee \in Fees /\ b \in U64
  BY <1>1, IInvParts, ListedIsPriced, MainFacts, InputAssumption DEF FundsInv, PoolsOK
<1>4. fill.fee \in Nat /\ fill.quote \in Nat /\ fill.base \in Nat
  BY <1>3, SellFillFacts
<1> HIDE DEF fill
<1>5. /\ <<QuoteMint, rec>> \in atas' /\ <<m, vault>> \in atas'
      /\ <<QuoteMint, u>> \in atas' /\ atas \subseteq atas'
      /\ OpenFunds(balance, atas')
  BY <1>1, FundsIsOpenFunds, OpenedMore DEF ASell, FundsInv, VaultsOpen
<1>6. given \in Balances /\ OpenFunds(given, atas')
  BY <1>1, <1>2, <1>4, <1>5, TransferToOpen
<1> HIDE DEF given
<1>7. feePaid \in Balances /\ OpenFunds(feePaid, atas')
  BY <1>1, <1>2, <1>4, <1>5, <1>6, TransferToOpen
<1> HIDE DEF feePaid
<1> QED BY <1>1, <1>2, <1>4, <1>5, <1>7, TransferToOpen

(* AWithdraw has created the withdrawer's accounts.                          *)
LEMMA WithdrawFunds ==
    ASSUME FundsInv, NEW u \in Users, NEW m \in BaseMints, Withdraw(u, m)
    PROVE  OpenFunds(balance', atas') /\ atas \subseteq atas'
<1> DEFINE vault   == pool_pda(m)
           base    == pool[m].real_base_reserves
           quote   == pool[m].real_quote_reserves
           baseOut == Transfer(balance, m, vault, u, base)
<1>1. /\ Covers(balance, m, vault, base)
      /\ Covers(baseOut, QuoteMint, vault, quote)
      /\ balance' = Transfer(baseOut, QuoteMint, vault, u, quote)
      /\ AWithdraw(u, m)
  BY DEF Withdraw
<1>2. LedgerTypeOK /\ pool[m] \in PoolState
  BY IInvParts DEF FundsInv, PoolsOK
<1>3. u \in Holders /\ vault \in Holders
      /\ QuoteMint \in Mints /\ m \in Mints /\ balance \in Balances
      /\ base \in Nat /\ quote \in Nat
  BY <1>2, PdaFacts, U64Facts DEF LedgerTypeOK, Balances, PoolState
<1>4. /\ <<m, u>> \in atas' /\ <<QuoteMint, u>> \in atas' /\ atas \subseteq atas'
      /\ OpenFunds(balance, atas')
  BY <1>1, FundsIsOpenFunds, OpenedMore DEF AWithdraw, FundsInv
<1>5. baseOut \in Balances /\ OpenFunds(baseOut, atas')
  BY <1>1, <1>3, <1>4, TransferToOpen
<1> HIDE DEF baseOut
<1> QED BY <1>1, <1>3, <1>4, <1>5, TransferToOpen

(* The vaults are created before they are filled.                            *)
LEMMA CreatePoolFunds ==
    ASSUME FundsInv, NEW u \in Users, NEW m \in BaseMints, CreatePool(u, m)
    PROVE  /\ OpenFunds(balance', atas') /\ atas \subseteq atas'
           /\ <<m, pool_pda(m)>> \in atas' /\ <<QuoteMint, pool_pda(m)>> \in atas'
<1>1. u \in Holders /\ pool_pda(m) \in Holders /\ m \in Mints
      /\ balance \in Balances /\ balance[m][u] \in Nat
  BY IInvParts, PdaFacts DEF FundsInv, LedgerTypeOK, Balances
<1>2. /\ <<m, pool_pda(m)>> \in atas' /\ <<QuoteMint, pool_pda(m)>> \in atas'
      /\ atas \subseteq atas' /\ OpenFunds(balance, atas')
      /\ balance' = Transfer(balance, m, u, pool_pda(m), balance[m][u])
  BY FundsIsOpenFunds, OpenedMore DEF CreatePool, ACreatePool, FundsInv
<1>3. Covers(balance, m, u, balance[m][u])
  BY <1>1 DEF Covers
<1> QED BY <1>1, <1>2, <1>3, TransferToOpen

(* A step that only adds accounts and lists no pool keeps the vaults open.   *)
LEMMA OpenStep ==
    ASSUME FundsInv, IInv', OpenFunds(balance', atas'), atas \subseteq atas',
           \A n \in BaseMints : pool'[n].exists => pool[n].exists
    PROVE  FundsInv'
<1>1. VaultsOpen'
  BY DEF FundsInv, VaultsOpen
<1> QED BY <1>1, FundsIsOpenFunds DEF FundsInv

(* A step on a listed pool lists no other.                                   *)
LEMMA UpdateListsNothing ==
    ASSUME PoolsOK, NEW m \in BaseMints, pool[m].exists, NEW p,
           pool' = [pool EXCEPT ![m] = p]
    PROVE  \A n \in BaseMints : pool'[n].exists => pool[n].exists
  BY DEF PoolsOK

(* Every step credits accounts that exist.                                   *)
LEMMA NextFunds == FundsInv /\ [Next]_vars => FundsInv'
<1> SUFFICES ASSUME FundsInv, [Next]_vars PROVE FundsInv'
  OBVIOUS
<1>1. /\ IInv /\ IInv' /\ LedgerTypeOK /\ PoolsOK /\ mainState \in MainStateAccount
      /\ OpenFunds(balance, atas) /\ VaultsOpen
  BY NextIInv, IInvParts, FundsIsOpenFunds DEF FundsInv
<1>2. CASE LedgerNext /\ UNCHANGED <<mainState, pool>>
  <2>1. /\ OpenFunds(balance', atas')
        /\ \A t \in Mints, m \in BaseMints :
             <<t, pool_pda(m)>> \in atas => <<t, pool_pda(m)>> \in atas'
    BY <1>1, <1>2, LedgerNextFunds
  <2>2. VaultsOpen'
    BY <1>1, <1>2, <2>1, PdaFacts DEF VaultsOpen
  <2> QED BY <1>1, <2>1, <2>2, FundsIsOpenFunds DEF FundsInv
<1>3. CASE MainNext /\ UNCHANGED pool
  <2>1. balance' = balance /\ atas \subseteq atas'
    BY <1>1, <1>3, MainNextStep
  <2> QED BY <1>1, <1>3, <2>1, OpenedMore, OpenStep
<1>4. CASE PoolNext
  <2>1. ASSUME NEW u \in Users, NEW m \in BaseMints, CreatePool(u, m)
        PROVE  FundsInv'
    <3>1. /\ OpenFunds(balance', atas') /\ atas \subseteq atas'
          /\ <<m, pool_pda(m)>> \in atas' /\ <<QuoteMint, pool_pda(m)>> \in atas'
      BY <2>1, CreatePoolFunds
    <3>2. \A n \in BaseMints : n # m => pool'[n] = pool[n]
      BY <1>1, <2>1 DEF CreatePool, PoolsOK
    <3>3. VaultsOpen'
      BY <1>1, <3>1, <3>2 DEF VaultsOpen
    <3> QED BY <1>1, <3>1, <3>3, FundsIsOpenFunds DEF FundsInv
  <2>2. ASSUME NEW u \in Users, NEW m \in BaseMints, NEW q \in QuoteAmounts,
               NEW min \in MinOutputs, BuyTokensFromExactQuote(u, m, q, min)
        PROVE  FundsInv'
    <3> DEFINE fill == ExactQuoteFill(pool[m], mainState.trading_fee, q)
    <3>1. /\ ABuy(u, m) /\ pool[m].exists
          /\ Headroom(pool[m]) \in U64 /\ ReservesFit(pool[m])
          /\ buy_finalize(u, m, fill)
      BY <2>2 DEF BuyTokensFromExactQuote, ABuy
    <3>2. Priced(pool[m]) /\ mainState.trading_fee \in Fees /\ q \in U64
      BY <1>1, <3>1, ListedIsPriced, MainFacts, InputAssumption DEF PoolsOK
    <3>3. fill.fee \in Nat /\ fill.quote \in Nat /\ fill.base \in Nat
      BY <3>1, <3>2, ExactQuoteFillFacts
    <3> HIDE DEF fill
    <3>4. OpenFunds(balance', atas') /\ atas \subseteq atas'
      BY <3>1, <3>3, BuyFunds
    <3>5. \A n \in BaseMints : pool'[n].exists => pool[n].exists
      BY <1>1, <3>1, UpdateListsNothing DEF buy_finalize
    <3> QED BY <1>1, <3>4, <3>5, OpenStep
  <2>3. ASSUME NEW u \in Users, NEW m \in BaseMints, NEW b \in BaseAmounts,
               NEW max \in MaxInputs, BuyExactTokensFromQuote(u, m, b, max)
        PROVE  FundsInv'
    <3> DEFINE fill == ExactBaseFill(pool[m], mainState.trading_fee, b)
    <3>1. /\ ABuy(u, m) /\ pool[m].exists /\ b <= pool[m].real_base_reserves
          /\ Headroom(pool[m]) \in U64 /\ ReservesFit(pool[m])
          /\ buy_finalize(u, m, fill)
      BY <2>3 DEF BuyExactTokensFromQuote, ABuy
    <3>2. Priced(pool[m]) /\ mainState.trading_fee \in Fees /\ b \in U64
      BY <1>1, <3>1, ListedIsPriced, MainFacts, InputAssumption DEF PoolsOK
    <3>3. fill.fee \in Nat /\ fill.quote \in Nat /\ fill.base \in Nat
      BY <3>1, <3>2, ExactBaseFillFacts
    <3> HIDE DEF fill
    <3>4. OpenFunds(balance', atas') /\ atas \subseteq atas'
      BY <3>1, <3>3, BuyFunds
    <3>5. \A n \in BaseMints : pool'[n].exists => pool[n].exists
      BY <1>1, <3>1, UpdateListsNothing DEF buy_finalize
    <3> QED BY <1>1, <3>4, <3>5, OpenStep
  <2>4. ASSUME NEW u \in Users, NEW m \in BaseMints, NEW b \in SellAmounts,
               NEW min \in MinOutputs, Sell(u, m, b, min)
        PROVE  FundsInv'
    <3>1. \A n \in BaseMints : pool'[n].exists => pool[n].exists
      BY <1>1, <2>4, UpdateListsNothing DEF Sell, ASell
    <3> QED BY <1>1, <2>4, <3>1, SellFunds, OpenStep
  <2>5. ASSUME NEW u \in Users, NEW m \in BaseMints, Withdraw(u, m)
        PROVE  FundsInv'
    <3>1. \A n \in BaseMints : pool'[n].exists => pool[n].exists
      BY <1>1, <2>5, UpdateListsNothing DEF Withdraw, AWithdraw
    <3> QED BY <1>1, <2>5, <3>1, WithdrawFunds, OpenStep
  <2> QED BY <1>4, <2>1, <2>2, <2>3, <2>4, <2>5 DEF PoolNext
<1>5. CASE UNCHANGED vars
  BY <1>1, <1>5, OpenStep DEF vars
<1> QED BY <1>2, <1>3, <1>4, <1>5 DEF Next

(* Nobody is ever paid into an account that does not exist: every receiver's *)
(* account is there when a transfer runs, although users close empty ones at *)
(* any time (init_if_needed in buy.rs, sell.rs, withdraw.rs).                *)
THEOREM FundsStayInOpenAccounts == Spec => []FundsAreInOpenAccounts
<1>1. Init => FundsInv
  <2>1. ASSUME Init PROVE FundsAreInOpenAccounts /\ VaultsOpen
    <3>1. VaultsOpen
      BY <2>1 DEF Init, NoPool, VaultsOpen
    <3>2. ASSUME NEW t \in Mints, NEW h \in Holders, balance[t][h] > 0
          PROVE  <<t, h>> \in atas
      <4>1. balance[t][h] = IF t = QuoteMint /\ h \in Users THEN QuoteFunds[h] ELSE 0
        BY <2>1 DEF Init, LedgerInit
      <4>2. t = QuoteMint /\ h \in Users /\ QuoteFunds[h] > 0
        BY <3>2, <4>1
      <4> QED BY <2>1, <4>2 DEF Init, LedgerInit
    <3> QED BY <3>1, <3>2 DEF FundsAreInOpenAccounts
  <2> QED BY <2>1, InitIInv DEF FundsInv
<1>2. FundsInv => FundsAreInOpenAccounts
  BY DEF FundsInv
<1> QED BY <1>1, <1>2, NextFunds, PTL DEF Spec

-----------------------------------------------------------------------------
(* Every pool goes through its life as AbstractCurve says, whatever happens  *)
(* to the configuration, to other pools and to the ledger.                   *)
LEMMA PhaseFacts ==
    ASSUME NEW p
    PROVE  /\ ~p.exists => Phase(p) = "unlisted"
           /\ Listed(p) /\ ~p.complete => Phase(p) = "trading"
           /\ Listed(p) /\ Withdrawn(p) => Phase(p) = "withdrawn"
           /\ Listed(p) /\ p.complete /\ ~Withdrawn(p) => Phase(p) = "complete"
  BY DEF Phase, Withdrawn, Listed

(* At first a pool is in the first phase.                                    *)
LEMMA InitRefines == ASSUME NEW m \in BaseMints PROVE Init => Curve(m)!Init
  BY DEF Init, NoPool, Curve!Init, Phase, Withdrawn

(* A step that leaves the pool alone is a stutter.                           *)
LEMMA StutterRefines ==
    ASSUME NEW m \in BaseMints, pool'[m] = pool[m]
    PROVE  UNCHANGED Curve(m)!curveVars
  BY DEF Curve!curveVars, Phase, Withdrawn

(* What the abstract curve sees of a buy: it goes on, or completes at the    *)
(* goal.                                                                     *)
LEMMA BuyRefines ==
    ASSUME IInv, NEW m \in BaseMints, NEW fill, fill.quote \in Nat,
           pool[m].exists, ~pool[m].complete,
           pool[m].real_quote_reserves + fill.quote <= pool[m].real_quote_threshold,
           AfterBuy(pool[m], fill) \in PoolState,
           pool'[m] = AfterBuy(pool[m], fill)
    PROVE  Curve(m)!Next
<1> DEFINE p == pool[m]
           q == AfterBuy(p, fill)
<1>1. Listed(p) /\ Listed(q) /\ ~Withdrawn(q)
  BY IInvParts, AfterBuyIsListed DEF PoolsOK
<1>2. q.real_quote_threshold = p.real_quote_threshold
  BY <1>1 DEF AfterBuy, Listed, PoolState
<1>3. Phase(p) = "trading" /\ q.real_quote_reserves \in Nat /\ q.real_quote_threshold \in Nat
  BY <1>1, PhaseFacts, U64Facts DEF Listed, PoolState
<1>4. CASE q.complete
  <2>1. q.real_quote_reserves = q.real_quote_threshold
    BY <1>1, <1>4 DEF Listed
  <2>2. Phase(q) = "complete"
    BY <1>1, <1>4, <2>1, PhaseFacts
  <2> QED BY <1>2, <1>3, <2>1, <2>2 DEF Curve!Next, Curve!Complete
<1>5. CASE ~q.complete
  <2>1. q.real_quote_reserves < q.real_quote_threshold /\ Phase(q) = "trading"
    BY <1>1, <1>5, PhaseFacts DEF Listed
  <2> QED BY <1>2, <1>3, <2>1 DEF Curve!Next, Curve!Trade
<1> QED BY <1>4, <1>5

(* A sale keeps the curve trading, below its goal.                           *)
LEMMA SellRefines ==
    ASSUME IInv, NEW u \in Users, NEW m \in BaseMints, NEW b \in SellAmounts,
           NEW min \in MinOutputs, Sell(u, m, b, min)
    PROVE  Curve(m)!Next
<1> DEFINE p    == pool[m]
           fill == SellFill(p, mainState.trading_fee, b)
           q    == AfterSell(p, fill)
<1>1. PoolsOK /\ mainState \in MainStateAccount
  BY IInvParts
<1>2. /\ p.exists /\ ~p.complete /\ ReservesFit(p)
      /\ q \in PoolState /\ pool' = [pool EXCEPT ![m] = q]
  BY DEF Sell, ASell
<1>3. Listed(p) /\ Priced(p) /\ mainState.trading_fee \in Fees /\ b \in U64
  BY <1>1, <1>2, ListedIsPriced, MainFacts, InputAssumption DEF PoolsOK
<1>4. fill.total \in Nat
  BY <1>3, SellFillFacts
<1> HIDE DEF fill
<1>5. Listed(q) /\ pool'[m] = q
  BY <1>1, <1>2, <1>3, <1>4, AfterSellIsListed DEF PoolsOK
<1>6. ~q.complete /\ q.real_quote_threshold = p.real_quote_threshold
  BY <1>2, <1>3 DEF AfterSell, Listed, PoolState
<1>7. Phase(p) = "trading" /\ Phase(q) = "trading"
  BY <1>2, <1>3, <1>5, <1>6, PhaseFacts
<1>8. q.real_quote_reserves \in Nat /\ q.real_quote_reserves < q.real_quote_threshold
  BY <1>5, <1>6, U64Facts DEF Listed, PoolState
<1> QED BY <1>5, <1>6, <1>7, <1>8 DEF Curve!Next, Curve!Trade

(* A listing opens the curve with nothing raised.                            *)
LEMMA CreatePoolRefines ==
    ASSUME IInv, NEW u \in Users, NEW m \in BaseMints, CreatePool(u, m)
    PROVE  Curve(m)!Next
<1> DEFINE q == NewPool(u)
<1>1. IInv' /\ PoolsOK /\ PoolsOK' /\ mainState \in MainStateAccount
  BY CreatePoolStep, IInvParts, IInvPartsPrimed
<1>2. ~pool[m].exists /\ pool'[m] = q
  BY <1>1 DEF CreatePool, ACreatePool, PoolsOK
<1>3. q.exists /\ ~q.complete /\ q.real_quote_reserves = 0
      /\ q.real_quote_threshold = mainState.real_quote_threshold
  BY DEF NewPool
<1>4. Listed(q)
  BY <1>1, <1>2, <1>3 DEF PoolsOK
<1>5. Phase(pool[m]) = "unlisted" /\ Phase(q) = "trading"
  BY <1>2, <1>3, <1>4, PhaseFacts
<1>6. q.real_quote_threshold \in Nat \ {0}
  BY <1>1, <1>3, MainFacts, U64Facts
<1> QED BY <1>2, <1>3, <1>5, <1>6 DEF Curve!Next, Curve!List

(* A withdrawal ends the life of a complete curve.                           *)
LEMMA WithdrawRefines ==
    ASSUME IInv, NEW u \in Users, NEW m \in BaseMints, Withdraw(u, m)
    PROVE  Curve(m)!Next
<1> DEFINE p == pool[m]
           q == AfterWithdraw(p)
<1>1. PoolsOK
  BY IInvParts
<1>2. p.exists /\ p.complete /\ NotWithdrawn(p) /\ pool'[m] = q
  BY <1>1 DEF Withdraw, AWithdraw, PoolsOK
<1>3. Listed(p) /\ Listed(q)
  BY <1>1, <1>2, AfterWithdrawIsListed DEF PoolsOK
<1>4. ~Withdrawn(p) /\ p.real_quote_reserves = p.real_quote_threshold
  BY <1>2, <1>3 DEF NotWithdrawn, Withdrawn, Listed
<1>5. Withdrawn(q) /\ q.real_quote_reserves = 0
      /\ q.real_quote_threshold = p.real_quote_threshold
  BY <1>2, <1>3 DEF AfterWithdraw, Withdrawn, Listed, PoolState
<1>6. Phase(p) = "complete" /\ Phase(q) = "withdrawn"
  BY <1>2, <1>3, <1>4, <1>5, PhaseFacts
<1> QED BY <1>2, <1>4, <1>5, <1>6 DEF Curve!Next, Curve!Withdraw

-----------------------------------------------------------------------------
(* Every step is one of AbstractCurve's or a stutter.                        *)
LEMMA StepRefines ==
    ASSUME NEW m \in BaseMints, IInv, [Next]_vars
    PROVE  [Curve(m)!Next]_(Curve(m)!curveVars)
<1>1. PoolsOK /\ mainState \in MainStateAccount
  BY IInvParts
<1>2. ASSUME NEW n \in BaseMints, NEW q, pool' = [pool EXCEPT ![n] = q], n # m
      PROVE  pool'[m] = pool[m]
  BY <1>1, <1>2 DEF PoolsOK
<1>3. ASSUME NEW u \in Users, NEW n \in BaseMints, CreatePool(u, n)
      PROVE  pool'[m] = pool[m] \/ Curve(m)!Next
  <2>1. CASE n = m BY <1>3, <2>1, CreatePoolRefines
  <2>2. CASE n # m BY <1>2, <1>3, <2>2 DEF CreatePool
  <2> QED BY <2>1, <2>2
<1>4. ASSUME NEW u \in Users, NEW n \in BaseMints, NEW q \in QuoteAmounts,
             NEW min \in MinOutputs, BuyTokensFromExactQuote(u, n, q, min)
      PROVE  pool'[m] = pool[m] \/ Curve(m)!Next
  <2> DEFINE fill == ExactQuoteFill(pool[n], mainState.trading_fee, q)
  <2>1. /\ pool[n].exists /\ ~pool[n].complete
        /\ Headroom(pool[n]) \in U64 /\ ReservesFit(pool[n])
        /\ AfterBuy(pool[n], fill) \in PoolState
        /\ pool' = [pool EXCEPT ![n] = AfterBuy(pool[n], fill)]
    BY <1>4 DEF BuyTokensFromExactQuote, ABuy, buy_finalize
  <2>2. Priced(pool[n]) /\ mainState.trading_fee \in Fees /\ q \in U64
    BY <1>1, <2>1, ListedIsPriced, MainFacts, InputAssumption DEF PoolsOK
  <2>3. fill.quote \in Nat
        /\ pool[n].real_quote_reserves + fill.quote <= pool[n].real_quote_threshold
    BY <2>1, <2>2, ExactQuoteFillFacts
  <2> HIDE DEF fill
  <2>4. pool'[n] = AfterBuy(pool[n], fill)
    BY <1>1, <2>1 DEF PoolsOK
  <2>5. CASE n = m BY <2>1, <2>3, <2>4, <2>5, BuyRefines
  <2>6. CASE n # m BY <1>2, <2>1, <2>6
  <2> QED BY <2>5, <2>6
<1>5. ASSUME NEW u \in Users, NEW n \in BaseMints, NEW b \in BaseAmounts,
             NEW max \in MaxInputs, BuyExactTokensFromQuote(u, n, b, max)
      PROVE  pool'[m] = pool[m] \/ Curve(m)!Next
  <2> DEFINE fill == ExactBaseFill(pool[n], mainState.trading_fee, b)
  <2>1. /\ pool[n].exists /\ ~pool[n].complete
        /\ Headroom(pool[n]) \in U64 /\ ReservesFit(pool[n])
        /\ b <= pool[n].real_base_reserves
        /\ AfterBuy(pool[n], fill) \in PoolState
        /\ pool' = [pool EXCEPT ![n] = AfterBuy(pool[n], fill)]
    BY <1>5 DEF BuyExactTokensFromQuote, ABuy, buy_finalize
  <2>2. Priced(pool[n]) /\ mainState.trading_fee \in Fees /\ b \in U64
    BY <1>1, <2>1, ListedIsPriced, MainFacts, InputAssumption DEF PoolsOK
  <2>3. fill.quote \in Nat
        /\ pool[n].real_quote_reserves + fill.quote <= pool[n].real_quote_threshold
    BY <2>1, <2>2, ExactBaseFillFacts
  <2> HIDE DEF fill
  <2>4. pool'[n] = AfterBuy(pool[n], fill)
    BY <1>1, <2>1 DEF PoolsOK
  <2>5. CASE n = m BY <2>1, <2>3, <2>4, <2>5, BuyRefines
  <2>6. CASE n # m BY <1>2, <2>1, <2>6
  <2> QED BY <2>5, <2>6
<1>6. ASSUME NEW u \in Users, NEW n \in BaseMints, NEW b \in SellAmounts,
             NEW min \in MinOutputs, Sell(u, n, b, min)
      PROVE  pool'[m] = pool[m] \/ Curve(m)!Next
  <2>1. CASE n = m BY <1>6, <2>1, SellRefines
  <2>2. CASE n # m BY <1>2, <1>6, <2>2 DEF Sell
  <2> QED BY <2>1, <2>2
<1>7. ASSUME NEW u \in Users, NEW n \in BaseMints, Withdraw(u, n)
      PROVE  pool'[m] = pool[m] \/ Curve(m)!Next
  <2>1. CASE n = m BY <1>7, <2>1, WithdrawRefines
  <2>2. CASE n # m BY <1>2, <1>7, <2>2 DEF Withdraw
  <2> QED BY <2>1, <2>2
<1>8. pool'[m] = pool[m] \/ Curve(m)!Next
  BY <1>3, <1>4, <1>5, <1>6, <1>7 DEF Next, PoolNext, vars
<1> QED BY <1>8, StutterRefines

(* The life of a pool: one goal, fixed at listing; no trade once complete;   *)
(* one withdrawal of exactly the goal (pool/state.rs:14-16, withdraw.rs:25). *)
THEOREM EveryPoolFollowsItsLifeCycle ==
    ASSUME NEW m \in BaseMints
    PROVE  Spec => Curve(m)!Spec
<1>1. Init => Curve(m)!Init
  BY InitRefines
<1>2. IInv /\ [Next]_vars => [Curve(m)!Next]_(Curve(m)!curveVars)
  BY StepRefines
<1> QED BY <1>1, <1>2, InductiveInvariant, PTL DEF Spec, Curve!Spec

-----------------------------------------------------------------------------
(* Sums over finite sets.  A sum is the function total that is 0 where       *)
(* everything is, and changes with each summand by as much as it does.       *)
IsSum(S, total) ==
    /\ total \in [[S -> Nat] -> Nat]
    /\ total[[x \in S |-> 0]] = 0
    /\ \A f \in [S -> Nat], a \in S, v \in Nat :
           total[[f EXCEPT ![a] = v]] = total[f] - f[a] + v

(* A set of finite sets has one that contains no other.                      *)
LEMMA MinimalSet ==
    ASSUME NEW S, NEW Sets, Sets \subseteq SUBSET S, IsFiniteSet(S), Sets # {}
    PROVE  \E T \in Sets : \A U \in Sets : U \subseteq T => U = T
<1>1. IsWellFoundedOn(StrictSubsetOrdering(S), FiniteSubsetsOf(S))
  BY FS_StrictSubsetOrderingWellFounded
<1>2. Sets \subseteq FiniteSubsetsOf(S)
  BY FS_FiniteSubsetsOfFinite
<1>3. PICK T \in Sets : \A U \in Sets : ~(<<U, T>> \in StrictSubsetOrdering(S))
  BY <1>1, <1>2, WFMin, Zenon
<1>4. ASSUME NEW U \in Sets, U \subseteq T
      PROVE  U = T
  BY <1>3, <1>4 DEF StrictSubsetOrdering
<1> QED BY <1>4

(* One more summand.                                                         *)
LEMMA SumExtends ==
    ASSUME NEW T, NEW x \in T, NEW less, IsSum(T \ {x}, less)
    PROVE  \E total : IsSum(T, total)
<1> DEFINE U == T \ {x}
           rest(f) == [y \in U |-> f[y]]
           total == [f \in [T -> Nat] |-> less[rest(f)] + f[x]]
<1>1. \A f \in [T -> Nat] : rest(f) \in [U -> Nat] /\ less[rest(f)] \in Nat
  BY DEF IsSum
<1>2. total \in [[T -> Nat] -> Nat]
  BY <1>1
<1>3. total[[y \in T |-> 0]] = 0
  <2> DEFINE z == [y \in T |-> 0]
  <2>1. z \in [T -> Nat] /\ rest(z) = [y \in U |-> 0] /\ z[x] = 0
    OBVIOUS
  <2>2. less[rest(z)] = 0
    BY <2>1 DEF IsSum
  <2> QED BY <2>1, <2>2
<1>4. ASSUME NEW f \in [T -> Nat], NEW a \in T, NEW v \in Nat
      PROVE  total[[f EXCEPT ![a] = v]] = total[f] - f[a] + v
  <2> DEFINE g == [f EXCEPT ![a] = v]
  <2>1. g \in [T -> Nat] /\ total[g] = less[rest(g)] + g[x] /\ total[f] = less[rest(f)] + f[x]
    OBVIOUS
  <2>2. f[x] \in Nat /\ f[a] \in Nat /\ less[rest(f)] \in Nat
    BY <1>1
  <2>3. CASE a = x
    <3>1. rest(g) = rest(f) /\ g[x] = v
      BY <2>3
    <3> QED BY <2>1, <2>2, <2>3, <3>1
  <2>4. CASE a # x
    <3>1. rest(g) = [rest(f) EXCEPT ![a] = v] /\ g[x] = f[x] /\ rest(f)[a] = f[a] /\ a \in U
      BY <2>4
    <3>2. \A r \in [U -> Nat], b \in U : less[[r EXCEPT ![b] = v]] = less[r] - r[b] + v
      BY DEF IsSum
    <3>3. rest(f) \in [U -> Nat]
      OBVIOUS
    <3> DEFINE r == rest(f)
               tf == total[f]
               tg == total[g]
    <3>4. less[[r EXCEPT ![a] = v]] = less[r] - r[a] + v
      <4> HIDE DEF rest, r, U
      <4> QED BY <3>1, <3>2, <3>3 DEF r
    <3>5. tg = less[[r EXCEPT ![a] = v]] + f[x] /\ tf = less[r] + f[x] /\ r[a] = f[a]
      BY <2>1, <3>1
    <3>6. tg = tf - f[a] + v
      <4> HIDE DEF tg, tf, r, g, rest, total
      <4> QED BY <2>2, <3>4, <3>5 DEF r
    <3> QED BY <3>6
  <2> QED BY <2>3, <2>4
<1>5. IsSum(T, total)
  <2> HIDE DEF total
  <2> QED BY <1>2, <1>3, <1>4 DEF IsSum
<1> QED BY <1>5

(* Every finite set has a sum: a smallest subset without one would have an   *)
(* element, and the rest of it a sum that extends.                           *)
LEMMA SumExists ==
    ASSUME NEW S, IsFiniteSet(S)
    PROVE  \E total : IsSum(S, total)
<1> DEFINE Bad == {T \in SUBSET S : ~ \E total : IsSum(T, total)}
<1> SUFFICES ASSUME Bad # {} PROVE FALSE
  OBVIOUS
<1>1. PICK T \in Bad : \A U \in Bad : U \subseteq T => U = T
  <2>1. Bad \subseteq SUBSET S
    OBVIOUS
  <2> HIDE DEF Bad
  <2> QED BY <2>1, MinimalSet
<1>2. T # {}
  <2> SUFFICES ASSUME T = {} PROVE IsSum({}, [f \in [{} -> Nat] |-> 0])
    OBVIOUS
  <2> QED BY DEF IsSum
<1>3. PICK x \in T : TRUE
  BY <1>2
<1>4. T \ {x} \in SUBSET S /\ T \ {x} \subseteq T /\ T \ {x} # T
  BY <1>1
<1>5. PICK less : IsSum(T \ {x}, less)
  BY <1>1, <1>4
<1> QED BY <1>1, <1>5, SumExtends

(* Two of the summands are at most the sum.                                  *)
LEMMA SummandsAreWithinTheSum ==
    ASSUME NEW S, NEW total, IsSum(S, total), NEW f \in [S -> Nat],
           NEW a \in S, NEW b \in S, a # b
    PROVE  f[a] + f[b] <= total[f]
<1> DEFINE g == [f EXCEPT ![a] = 0]
           h == [g EXCEPT ![b] = 0]
<1>1. g \in [S -> Nat] /\ h \in [S -> Nat] /\ g[b] = f[b] /\ f[a] \in Nat /\ f[b] \in Nat
  OBVIOUS
<1>2. \A r \in [S -> Nat] : total[r] \in Nat
  BY DEF IsSum
<1>3. \A r \in [S -> Nat], c \in S : total[[r EXCEPT ![c] = 0]] = total[r] - r[c] + 0
  BY DEF IsSum
<1>4. total[g] = total[f] - f[a] + 0
  BY <1>3
<1>5. total[h] = total[g] - g[b] + 0
  <2> HIDE DEF g
  <2> QED BY <1>1, <1>3
<1>6. total[f] \in Nat /\ total[g] \in Nat /\ total[h] \in Nat
  <2> HIDE DEF g, h
  <2> QED BY <1>1, <1>2
<1> DEFINE tf == total[f]
           tg == total[g]
           th == total[h]
<1>7. tg = tf - f[a] + 0 /\ th = tg - f[b] + 0 /\ tf \in Nat /\ tg \in Nat /\ th \in Nat
  BY <1>1, <1>4, <1>5, <1>6
<1> HIDE DEF tf, tg, th, g, h
<1>8. f[a] + f[b] <= tf
  BY <1>1, <1>7
<1> QED BY <1>8 DEF tf

-----------------------------------------------------------------------------
(* Conservation: the tokens of a mint are with somebody.                     *)
Total == CHOOSE total : IsSum(Holders, total)

TokensAreConserved == \A m \in BaseMints : Total[balance[m]] = mint[m].supply

(* Total is a sum when there are finitely many holders.                      *)
LEMMA TotalIsSum == IsFiniteSet(Holders) => IsSum(Holders, Total)
  BY SumExists DEF Total

(* A transfer moves tokens and makes none, also one to oneself.              *)
LEMMA TransferConserves ==
    ASSUME IsFiniteSet(Holders), NEW bal \in Balances, NEW token \in Mints,
           NEW from \in Holders, NEW to \in Holders, NEW amount \in Nat,
           Covers(bal, token, from, amount)
    PROVE  LET new == Transfer(bal, token, from, to, amount)
           IN  new \in Balances /\ \A t \in Mints : Total[new[t]] = Total[bal[t]]
<1> DEFINE f == bal[token]
           debited == [f EXCEPT ![from] = @ - amount]
           row == [debited EXCEPT ![to] = @ + amount]
           new == Transfer(bal, token, from, to, amount)
<1>1. new \in Balances /\ new = [bal EXCEPT ![token] = row] /\ f \in [Holders -> Nat]
      /\ f[from] >= amount /\ f[from] \in Nat
  BY TransferFacts DEF Transfer, Balances, Covers
<1>2. /\ f[from] - amount \in Nat /\ debited \in [Holders -> Nat]
      /\ debited[to] \in Nat /\ debited[to] + amount \in Nat
  BY <1>1
<1>3. /\ \A g \in [Holders -> Nat], a \in Holders, v \in Nat :
           Total[[g EXCEPT ![a] = v]] = Total[g] - g[a] + v
      /\ \A g \in [Holders -> Nat] : Total[g] \in Nat
  BY TotalIsSum DEF IsSum
<1>4. debited = [f EXCEPT ![from] = f[from] - amount]
      /\ row = [debited EXCEPT ![to] = debited[to] + amount]
  OBVIOUS
<1> HIDE DEF f, debited, row, new
<1>5. Total[debited] = Total[f] - f[from] + (f[from] - amount)
  BY <1>1, <1>2, <1>3, <1>4
<1>6. Total[row] = Total[debited] - debited[to] + (debited[to] + amount)
  BY <1>1, <1>2, <1>3, <1>4
<1>7. Total[f] \in Nat /\ Total[debited] \in Nat
  BY <1>1, <1>2, <1>3
<1>8. Total[row] = Total[f]
  BY <1>1, <1>2, <1>5, <1>6, <1>7
<1>9. ASSUME NEW t \in Mints
      PROVE  Total[new[t]] = Total[bal[t]]
  <2>1. CASE t = token
    <3>1. new[t] = row
      BY <1>1, <2>1 DEF Balances
    <3> QED BY <1>8, <2>1, <3>1 DEF f
  <2>2. CASE t # token
    <3>1. new[t] = bal[t]
      BY <1>1, <2>2 DEF Balances
    <3> QED BY <3>1
  <2> QED BY <2>1, <2>2
<1> QED BY <1>1, <1>9 DEF new

(* What the token program does for anybody: minting and burning change the  *)
(* supply by as much as a balance.                                           *)
LEMMA LedgerNextConserves ==
    ASSUME IsFiniteSet(Holders), LedgerTypeOK, TokensAreConserved, LedgerNext
    PROVE  TokensAreConserved'
<1>1. balance \in Balances /\ mint \in [BaseMints -> MintAccount]
  BY DEF LedgerTypeOK, Balances
<1>2. \A g \in [Holders -> Nat], a \in Holders, v \in Nat :
           Total[[g EXCEPT ![a] = v]] = Total[g] - g[a] + v
  BY TotalIsSum DEF IsSum
<1>3. ASSUME NEW m \in BaseMints, NEW h \in Holders, NEW v \in Nat, NEW supply,
             balance' = [balance EXCEPT ![m][h] = v],
             mint' = [mint EXCEPT ![m].supply = supply],
             supply = mint[m].supply - balance[m][h] + v
      PROVE  TokensAreConserved'
  <2>1. m \in Mints /\ balance[m] \in [Holders -> Nat]
    BY <1>1, PdaFacts DEF Balances
  <2>2. balance'[m] = [balance[m] EXCEPT ![h] = v] /\ mint'[m].supply = supply
        /\ \A n \in BaseMints \ {m} : balance'[n] = balance[n] /\ mint'[n] = mint[n]
    BY <1>1, <1>3, <2>1, PdaFacts DEF Balances, MintAccount
  <2>3. Total[balance'[m]] = Total[balance[m]] - balance[m][h] + v
    BY <1>2, <2>1, <2>2
  <2>4. Total[balance'[m]] = mint'[m].supply
    BY <1>3, <2>2, <2>3 DEF TokensAreConserved
  <2> QED BY <2>2, <2>4 DEF TokensAreConserved
<1>4. ASSUME NEW m \in BaseMints, NEW to \in Creators, NEW amount \in MintAmounts,
             MintTo(m, to, amount)
      PROVE  TokensAreConserved'
  <2>1. to \in Holders /\ m \in Mints /\ amount \in Nat
        /\ balance[m][to] \in Nat /\ mint[m].supply \in Nat
    BY <1>1, LedgerAssumption, PdaFacts DEF Balances, MintAccount
  <2> DEFINE v == balance[m][to] + amount
             supply == mint[m].supply + amount
  <2>2. v \in Nat /\ supply = mint[m].supply - balance[m][to] + v
    BY <2>1
  <2>3. balance' = [balance EXCEPT ![m][to] = v] /\ mint' = [mint EXCEPT ![m].supply = supply]
    BY <1>1, <1>4, <2>1 DEF MintTo, Balances, MintAccount
  <2> HIDE DEF v, supply
  <2> QED BY <1>3, <2>1, <2>2, <2>3
<1>5. ASSUME NEW m \in BaseMints, RevokeMintAuthority(m) \/ RevokeFreezeAuthority(m)
      PROVE  TokensAreConserved'
  <2>1. balance' = balance /\ \A n \in BaseMints : mint'[n].supply = mint[n].supply
    BY <1>1, <1>5 DEF RevokeMintAuthority, RevokeFreezeAuthority, MintAccount
  <2> QED BY <2>1 DEF TokensAreConserved
<1>6. ASSUME NEW token \in Mints, NEW from \in Users, NEW to \in Holders,
             NEW amount \in TransferAmounts, TransferToken(token, from, to, amount)
      PROVE  TokensAreConserved'
  <2>1. from \in Holders /\ amount \in Nat
    BY LedgerAssumption, PdaFacts
  <2>2. Covers(balance, token, from, amount) /\ mint' = mint
        /\ balance' = Transfer(balance, token, from, to, amount)
    BY <1>6 DEF TransferToken
  <2>3. \A t \in Mints : Total[balance'[t]] = Total[balance[t]]
    BY <1>1, <2>1, <2>2, TransferConserves
  <2> QED BY <2>2, <2>3, PdaFacts DEF TokensAreConserved
<1>7. ASSUME NEW m \in BaseMints, NEW from \in Users, NEW amount \in BurnAmounts,
             BurnToken(m, from, amount)
      PROVE  TokensAreConserved'
  <2>1. from \in Holders /\ m \in Mints /\ amount \in Nat
        /\ balance[m][from] \in Nat /\ mint[m].supply \in Nat
    BY <1>1, LedgerAssumption, PdaFacts DEF Balances, MintAccount
  <2> DEFINE v == balance[m][from] - amount
             supply == mint[m].supply - amount
  <2>2. v \in Nat /\ supply = mint[m].supply - balance[m][from] + v
    BY <1>7, <2>1 DEF BurnToken, Covers
  <2>3. balance' = [balance EXCEPT ![m][from] = v] /\ mint' = [mint EXCEPT ![m].supply = supply]
    BY <1>1, <1>7, <2>1 DEF BurnToken, Balances, MintAccount
  <2> HIDE DEF v, supply
  <2> QED BY <1>3, <2>1, <2>2, <2>3
<1>8. ASSUME NEW token \in Mints, NEW holder \in Closers, CloseAccount(token, holder)
      PROVE  TokensAreConserved'
  BY <1>8 DEF CloseAccount, TokensAreConserved
<1> QED BY <1>4, <1>5, <1>6, <1>7, <1>8 DEF LedgerNext

(* The three transfers of a trade, each as it finds the balances.            *)
LEMMA BuyConserves ==
    ASSUME IsFiniteSet(Holders), IInv, NEW buyer \in Users, NEW m \in BaseMints, NEW fill,
           fill.fee \in Nat, fill.quote \in Nat, fill.base \in Nat,
           buy_finalize(buyer, m, fill)
    PROVE  mint' = mint /\ \A t \in Mints : Total[balance'[t]] = Total[balance[t]]
<1> DEFINE vault   == pool_pda(m)
           rec     == mainState.fee_recipient
           feePaid == Transfer(balance, QuoteMint, buyer, rec, fill.fee)
           paid    == Transfer(feePaid, QuoteMint, buyer, vault, fill.quote)
<1>1. /\ Covers(balance, QuoteMint, buyer, fill.fee)
      /\ Covers(feePaid, QuoteMint, buyer, fill.quote)
      /\ Covers(paid, m, vault, fill.base)
      /\ balance' = Transfer(paid, m, vault, buyer, fill.base)
      /\ mint' = mint
  BY DEF buy_finalize
<1>2. buyer \in Holders /\ vault \in Holders /\ rec \in Holders
      /\ QuoteMint \in Mints /\ m \in Mints /\ balance \in Balances
  BY IInvParts, MainFacts, PdaFacts DEF LedgerTypeOK, Balances
<1>3. feePaid \in Balances /\ \A t \in Mints : Total[feePaid[t]] = Total[balance[t]]
  BY <1>1, <1>2, TransferConserves
<1> HIDE DEF feePaid
<1>4. paid \in Balances /\ \A t \in Mints : Total[paid[t]] = Total[feePaid[t]]
  BY <1>1, <1>2, <1>3, TransferConserves
<1> HIDE DEF paid
<1>5. \A t \in Mints : Total[balance'[t]] = Total[paid[t]]
  BY <1>1, <1>2, <1>4, TransferConserves
<1> QED BY <1>1, <1>3, <1>4, <1>5

(* A sale pays from the vault what it has just been given.                   *)
LEMMA SellConserves ==
    ASSUME IsFiniteSet(Holders), IInv, NEW u \in Users, NEW m \in BaseMints,
           NEW b \in SellAmounts, NEW min \in MinOutputs, Sell(u, m, b, min)
    PROVE  mint' = mint /\ \A t \in Mints : Total[balance'[t]] = Total[balance[t]]
<1> DEFINE vault   == pool_pda(m)
           rec     == mainState.fee_recipient
           fill    == SellFill(pool[m], mainState.trading_fee, b)
           given   == Transfer(balance, m, u, vault, fill.base)
           feePaid == Transfer(given, QuoteMint, vault, rec, fill.fee)
<1>1. /\ pool[m].exists /\ ReservesFit(pool[m])
      /\ Covers(balance, m, u, fill.base)
      /\ Covers(given, QuoteMint, vault, fill.fee)
      /\ Covers(feePaid, QuoteMint, vault, fill.quote)
      /\ balance' = Transfer(feePaid, QuoteMint, vault, u, fill.quote)
      /\ mint' = mint
  BY DEF Sell, ASell, SellFill
<1>2. u \in Holders /\ vault \in Holders /\ rec \in Holders
      /\ QuoteMint \in Mints /\ m \in Mints /\ balance \in Balances
  BY IInvParts, MainFacts, PdaFacts DEF LedgerTypeOK, Balances
<1>3. Priced(pool[m]) /\ mainState.trading_fee \in Fees /\ b \in U64
  BY <1>1, IInvParts, ListedIsPriced, MainFacts, InputAssumption DEF PoolsOK
<1>4. fill.fee \in Nat /\ fill.quote \in Nat /\ fill.base \in Nat
  BY <1>3, SellFillFacts
<1> HIDE DEF fill
<1>5. given \in Balances /\ \A t \in Mints : Total[given[t]] = Total[balance[t]]
  BY <1>1, <1>2, <1>4, TransferConserves
<1> HIDE DEF given
<1>6. feePaid \in Balances /\ \A t \in Mints : Total[feePaid[t]] = Total[given[t]]
  BY <1>1, <1>2, <1>4, <1>5, TransferConserves
<1> HIDE DEF feePaid
<1>7. \A t \in Mints : Total[balance'[t]] = Total[feePaid[t]]
  BY <1>1, <1>2, <1>4, <1>6, TransferConserves
<1> QED BY <1>1, <1>5, <1>6, <1>7

(* A withdrawal empties the vaults into the withdrawer's accounts.           *)
LEMMA WithdrawConserves ==
    ASSUME IsFiniteSet(Holders), IInv, NEW u \in Users, NEW m \in BaseMints, Withdraw(u, m)
    PROVE  mint' = mint /\ \A t \in Mints : Total[balance'[t]] = Total[balance[t]]
<1> DEFINE vault   == pool_pda(m)
           base    == pool[m].real_base_reserves
           quote   == pool[m].real_quote_reserves
           baseOut == Transfer(balance, m, vault, u, base)
<1>1. /\ Covers(balance, m, vault, base)
      /\ Covers(baseOut, QuoteMint, vault, quote)
      /\ balance' = Transfer(baseOut, QuoteMint, vault, u, quote)
      /\ mint' = mint
  BY DEF Withdraw
<1>2. LedgerTypeOK /\ pool[m] \in PoolState
  BY IInvParts DEF PoolsOK
<1>3. u \in Holders /\ vault \in Holders
      /\ QuoteMint \in Mints /\ m \in Mints /\ balance \in Balances
      /\ base \in Nat /\ quote \in Nat
  BY <1>2, PdaFacts, U64Facts DEF LedgerTypeOK, Balances, PoolState
<1>4. baseOut \in Balances /\ \A t \in Mints : Total[baseOut[t]] = Total[balance[t]]
  BY <1>1, <1>3, TransferConserves
<1> HIDE DEF baseOut
<1>5. \A t \in Mints : Total[balance'[t]] = Total[baseOut[t]]
  BY <1>1, <1>3, <1>4, TransferConserves
<1> QED BY <1>1, <1>4, <1>5

(* A new pool takes everything its creator holds.                            *)
LEMMA CreatePoolConserves ==
    ASSUME IsFiniteSet(Holders), IInv, NEW u \in Users, NEW m \in BaseMints, CreatePool(u, m)
    PROVE  mint' = mint /\ \A t \in Mints : Total[balance'[t]] = Total[balance[t]]
<1>1. u \in Holders /\ pool_pda(m) \in Holders /\ m \in Mints
      /\ balance \in Balances /\ balance[m][u] \in Nat
  BY IInvParts, PdaFacts DEF LedgerTypeOK, Balances
<1>2. balance' = Transfer(balance, m, u, pool_pda(m), balance[m][u]) /\ mint' = mint
  BY DEF CreatePool
<1>3. Covers(balance, m, u, balance[m][u])
  BY <1>1 DEF Covers
<1> QED BY <1>1, <1>2, <1>3, TransferConserves

ConservedInv == IInv /\ TokensAreConserved

(* Nobody holds more or less in all, of any token.                           *)
OnlyMoved == mint' = mint /\ \A t \in Mints : Total[balance'[t]] = Total[balance[t]]

(* The program only moves tokens; only the token program changes supplies.   *)
LEMMA ProgramOnlyMoves ==
    ASSUME IsFiniteSet(Holders), IInv, [Next]_vars
    PROVE  LedgerNext \/ OnlyMoved
<1>1. IInv /\ LedgerTypeOK /\ PoolsOK /\ mainState.trading_fee \in Fees
  BY IInvParts, MainFacts
<1>2. ASSUME mint' = mint, \A t \in Mints : Total[balance'[t]] = Total[balance[t]]
      PROVE  OnlyMoved
  BY <1>2 DEF OnlyMoved
<1>3. CASE LedgerNext
  BY <1>3
<1>4. CASE MainNext
  <2>1. mint' = mint /\ balance' = balance
    BY <1>4 DEF MainNext, InitMainState, TransferOwnership, UpdateMainState, ledgerVars
  <2> QED BY <1>2, <2>1
<1>5. ASSUME NEW u \in Users, NEW m \in BaseMints, CreatePool(u, m)
      PROVE  OnlyMoved
  BY <1>1, <1>2, <1>5, CreatePoolConserves
<1>6. ASSUME NEW u \in Users, NEW m \in BaseMints, NEW q \in QuoteAmounts,
             NEW min \in MinOutputs, BuyTokensFromExactQuote(u, m, q, min)
      PROVE  OnlyMoved
  <2> DEFINE fill == ExactQuoteFill(pool[m], mainState.trading_fee, q)
  <2>1. /\ pool[m].exists /\ Headroom(pool[m]) \in U64 /\ ReservesFit(pool[m])
        /\ buy_finalize(u, m, fill)
    BY <1>6 DEF BuyTokensFromExactQuote, ABuy
  <2>2. Priced(pool[m]) /\ q \in U64
    BY <1>1, <2>1, ListedIsPriced, InputAssumption DEF PoolsOK
  <2>3. fill.fee \in Nat /\ fill.quote \in Nat /\ fill.base \in Nat
    BY <1>1, <2>1, <2>2, ExactQuoteFillFacts
  <2> HIDE DEF fill
  <2> QED BY <1>1, <1>2, <2>1, <2>3, BuyConserves
<1>7. ASSUME NEW u \in Users, NEW m \in BaseMints, NEW b \in BaseAmounts,
             NEW max \in MaxInputs, BuyExactTokensFromQuote(u, m, b, max)
      PROVE  OnlyMoved
  <2> DEFINE fill == ExactBaseFill(pool[m], mainState.trading_fee, b)
  <2>1. /\ pool[m].exists /\ Headroom(pool[m]) \in U64 /\ ReservesFit(pool[m])
        /\ b <= pool[m].real_base_reserves
        /\ buy_finalize(u, m, fill)
    BY <1>7 DEF BuyExactTokensFromQuote, ABuy
  <2>2. Priced(pool[m]) /\ b \in U64
    BY <1>1, <2>1, ListedIsPriced, InputAssumption DEF PoolsOK
  <2>3. fill.fee \in Nat /\ fill.quote \in Nat /\ fill.base \in Nat
    BY <1>1, <2>1, <2>2, ExactBaseFillFacts
  <2> HIDE DEF fill
  <2> QED BY <1>1, <1>2, <2>1, <2>3, BuyConserves
<1>8. ASSUME NEW u \in Users, NEW m \in BaseMints, NEW b \in SellAmounts,
             NEW min \in MinOutputs, Sell(u, m, b, min)
      PROVE  OnlyMoved
  BY <1>1, <1>2, <1>8, SellConserves
<1>9. ASSUME NEW u \in Users, NEW m \in BaseMints, Withdraw(u, m)
      PROVE  OnlyMoved
  BY <1>1, <1>2, <1>9, WithdrawConserves
<1>10. CASE UNCHANGED vars
  BY <1>2, <1>10 DEF vars
<1>11. CASE PoolNext
  BY <1>5, <1>6, <1>7, <1>8, <1>9, <1>11 DEF PoolNext
<1> QED BY <1>3, <1>4, <1>10, <1>11 DEF Next

(* Every step of the program and of the ledger conserves tokens.             *)
LEMMA NextConserved ==
    ASSUME IsFiniteSet(Holders), ConservedInv, [Next]_vars
    PROVE  ConservedInv'
<1>1. IInv /\ IInv' /\ LedgerTypeOK
  BY NextIInv, IInvParts DEF ConservedInv
<1>2. CASE LedgerNext
  BY <1>1, <1>2, LedgerNextConserves DEF ConservedInv
<1>3. CASE OnlyMoved
  <2>1. TokensAreConserved'
    BY <1>3, PdaFacts DEF OnlyMoved, ConservedInv, TokensAreConserved
  <2> QED BY <1>1, <2>1 DEF ConservedInv
<1> QED BY <1>1, <1>2, <1>3, ProgramOnlyMoves

(* At first nobody holds anything and there is nothing to hold.              *)
LEMMA InitConserved ==
    ASSUME IsFiniteSet(Holders) PROVE Init => ConservedInv
<1> SUFFICES ASSUME Init PROVE TokensAreConserved
  BY InitIInv DEF ConservedInv
<1>1. Total[[h \in Holders |-> 0]] = 0
  BY TotalIsSum DEF IsSum
<1>2. ASSUME NEW m \in BaseMints
      PROVE  balance[m] = [h \in Holders |-> 0] /\ mint[m].supply = 0
  BY PdaFacts DEF Init, LedgerInit
<1> QED BY <1>1, <1>2 DEF TokensAreConserved

(* With finitely many holders, what they all hold of a base token is its     *)
(* supply: no order of chained transfers, a holder paying himself included,  *)
(* makes a token or loses one (buy.rs:33-72, sell.rs:44-76).                 *)
THEOREM NoTokenIsMadeOrLost ==
    ASSUME IsFiniteSet(Holders) PROVE Spec => []TokensAreConserved
<1>1. ConservedInv => TokensAreConserved
  BY DEF ConservedInv
<1> QED BY <1>1, InitConserved, NextConserved, PTL DEF Spec

(* Of the quote token, which the model neither mints nor burns, everybody    *)
(* together always holds the same: what a fee, a payment, a payout or a      *)
(* withdrawal takes from one account is all another gets.                    *)
QuoteIsConserved == [][Total[balance'[QuoteMint]] = Total[balance[QuoteMint]]]_vars

(* The token program only moves quote tokens.                                *)
LEMMA LedgerKeepsQuote ==
    ASSUME IsFiniteSet(Holders), LedgerTypeOK, LedgerNext
    PROVE  Total[balance'[QuoteMint]] = Total[balance[QuoteMint]]
<1>1. balance \in Balances /\ QuoteMint \in Mints
  BY PdaFacts DEF LedgerTypeOK, Balances
<1>2. ASSUME NEW token \in Mints, NEW from \in Users, NEW to \in Holders,
             NEW amount \in TransferAmounts, TransferToken(token, from, to, amount)
      PROVE  Total[balance'[QuoteMint]] = Total[balance[QuoteMint]]
  <2>1. from \in Holders /\ amount \in Nat
    BY LedgerAssumption, PdaFacts
  <2>2. Covers(balance, token, from, amount)
        /\ balance' = Transfer(balance, token, from, to, amount)
    BY <1>2 DEF TransferToken
  <2> QED BY <1>1, <2>1, <2>2, TransferConserves
<1>3. ASSUME NEW m \in BaseMints, NEW row, balance' = [balance EXCEPT ![m] = row]
      PROVE  Total[balance'[QuoteMint]] = Total[balance[QuoteMint]]
  <2>1. balance'[QuoteMint] = balance[QuoteMint]
    BY <1>1, <1>3, PdaFacts DEF Balances
  <2> QED BY <2>1
<1>4. ASSUME NEW m \in BaseMints, NEW h, NEW v, balance' = [balance EXCEPT ![m][h] = v]
      PROVE  Total[balance'[QuoteMint]] = Total[balance[QuoteMint]]
  BY <1>3, <1>4
<1>5. CASE balance' = balance
  BY <1>5
<1>6. LedgerNext => \/ balance' = balance
                    \/ \E m \in BaseMints : \E h, v : balance' = [balance EXCEPT ![m][h] = v]
                    \/ \E token \in Mints, from \in Users, to \in Holders,
                          amount \in TransferAmounts : TransferToken(token, from, to, amount)
  BY DEF LedgerNext, MintTo, RevokeMintAuthority, RevokeFreezeAuthority, BurnToken, CloseAccount
<1> QED BY <1>2, <1>4, <1>5, <1>6

(* With finitely many holders, no step of anybody makes quote or loses any   *)
(* (buy.rs:33-60, sell.rs:52-76, withdraw.rs:38-56).                         *)
THEOREM NoQuoteIsMadeOrLost ==
    ASSUME IsFiniteSet(Holders) PROVE Spec => QuoteIsConserved
<1>1. IInv /\ [Next]_vars => Total[balance'[QuoteMint]] = Total[balance[QuoteMint]]
  BY ProgramOnlyMoves, LedgerKeepsQuote, IInvParts, PdaFacts DEF OnlyMoved
<1> QED BY <1>1, InductiveInvariant, PTL DEF Spec, QuoteIsConserved

(* Two holders together have no more than the supply.                        *)
LEMMA TwoHoldersWithinTheSupply ==
    ASSUME IsFiniteSet(Holders), ConservedInv, NEW m \in BaseMints,
           NEW h \in Holders, NEW g \in Holders, h # g
    PROVE  balance[m][h] + balance[m][g] <= mint[m].supply
<1>1. balance[m] \in [Holders -> Nat] /\ Total[balance[m]] = mint[m].supply
  BY IInvParts, PdaFacts DEF ConservedInv, TokensAreConserved, LedgerTypeOK
<1>2. IsSum(Holders, Total)
  BY TotalIsSum
<1> HIDE DEF Total
<1>3. balance[m][h] + balance[m][g] <= Total[balance[m]]
  BY <1>1, <1>2, SummandsAreWithinTheSum
<1> QED BY <1>1, <1>3
=============================================================================
