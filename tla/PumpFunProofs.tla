---------------------------- MODULE PumpFunProofs ----------------------------
(* For every width of the integers, every configuration and every set of     *)
(* users, tokens and amounts: the accounts keep their types, and a curve     *)
(* completes exactly at its own threshold.                                   *)
EXTENDS PumpFunProperties, CurveMathProofs

-----------------------------------------------------------------------------
(* What a transfer does to the ledger, and that nobody but the program ever  *)
(* takes tokens out of a pool's vault.                                       *)
Balances == [Mints -> [Holders -> Nat]]

LEMMA PdaFacts ==
    /\ \A m \in BaseMints : pool_pda(m) \in Holders /\ pool_pda(m) \notin Users
    /\ \A m, n \in BaseMints : pool_pda(m) = pool_pda(n) => m = n
    /\ Users \subseteq Holders
    /\ QuoteMint \in Mints /\ BaseMints \subseteq Mints
    /\ \A m \in BaseMints : m # QuoteMint
<1>1. \A m, n \in BaseMints : pool_pda(m) = pool_pda(n) => m = n
  BY DEF pool_pda
<1>2. \A m \in BaseMints : pool_pda(m) \in Holders /\ pool_pda(m) \notin Users
  BY LedgerAssumption DEF Holders
<1> QED BY <1>1, <1>2, LedgerAssumption DEF Holders, Mints

(* What a transfer changes in the balance of holder h of token t.            *)
Flow(token, from, to, amount, t, h) ==
    (IF t = token /\ h = to THEN amount ELSE 0)
      - (IF t = token /\ h = from THEN amount ELSE 0)

(* The balances after a transfer, holder by holder; a transfer to oneself    *)
(* changes nothing.                                                          *)
LEMMA TransferFacts ==
    ASSUME NEW bal \in Balances, NEW token \in Mints, NEW from \in Holders,
           NEW to \in Holders, NEW amount \in Nat,
           Covers(bal, token, from, amount)
    PROVE  LET new == Transfer(bal, token, from, to, amount)
           IN  /\ new \in Balances
               /\ \A t \in Mints, h \in Holders :
                    new[t][h] = bal[t][h] + Flow(token, from, to, amount, t, h)
<1> DEFINE debited == [bal[token] EXCEPT ![from] = @ - amount]
           row == [debited EXCEPT ![to] = @ + amount]
           new == [bal EXCEPT ![token] = row]
<1>1. bal[token] \in [Holders -> Nat] /\ bal[token][from] >= amount
  BY DEF Balances, Covers
<1>2. debited \in [Holders -> Nat]
      /\ \A h \in Holders : debited[h] = bal[token][h] - (IF h = from THEN amount ELSE 0)
  BY <1>1
<1> HIDE DEF debited
<1>3. row \in [Holders -> Nat]
      /\ \A h \in Holders : row[h] = debited[h] + (IF h = to THEN amount ELSE 0)
  BY <1>2
<1> HIDE DEF row
<1>4. new \in Balances
      /\ \A t \in Mints : new[t] = IF t = token THEN row ELSE bal[t]
  BY <1>3 DEF Balances
<1>5. Transfer(bal, token, from, to, amount) = new
  BY DEF Transfer, debited, row
<1> HIDE DEF new
<1>6. ASSUME NEW t \in Mints, NEW h \in Holders
      PROVE  new[t][h] = bal[t][h] + Flow(token, from, to, amount, t, h)
  <2>1. bal[t][h] \in Nat
    BY DEF Balances
  <2>2. CASE t = token
    <3>1. new[t][h] = debited[h] + (IF h = to THEN amount ELSE 0)
      BY <2>2, <1>3, <1>4
    <3> QED BY <3>1, <2>1, <2>2, <1>2 DEF Flow
  <2>3. CASE t # token
    BY <2>1, <2>3, <1>4 DEF Flow
  <2> QED BY <2>2, <2>3
<1> QED BY <1>4, <1>5, <1>6

(* The steps of LedgerNext, seen from a vault.                               *)
VaultsKept ==
    \A token \in Mints, m \in BaseMints :
        balance'[token][pool_pda(m)] >= balance[token][pool_pda(m)]

(* Whatever others do with the token program keeps the ledger well formed    *)
(* and only ever adds to a vault.                                            *)
LEMMA LedgerNextFacts ==
    ASSUME LedgerTypeOK, LedgerNext
    PROVE  LedgerTypeOK' /\ VaultsKept
<1> USE DEF LedgerTypeOK, VaultsKept
<1>0. balance \in Balances
  BY DEF Balances
<1>1. ASSUME NEW m \in BaseMints, NEW to \in Creators, NEW amount \in MintAmounts,
             MintTo(m, to, amount)
      PROVE  LedgerTypeOK' /\ VaultsKept
  <2>1. to \in Holders /\ m \in Mints /\ amount \in Nat
    BY LedgerAssumption, PdaFacts
  <2>2. mint' \in [BaseMints -> MintAccount]
    BY <1>1, <2>1 DEF MintTo, MintAccount
  <2>3. balance' \in Balances
        /\ \A t \in Mints, h \in Holders : balance'[t][h] >= balance[t][h]
    BY <1>0, <1>1, <2>1 DEF MintTo, Balances
  <2>4. atas' \subseteq Mints \X Holders
    BY <1>1, <2>1 DEF MintTo
  <2> QED BY <2>2, <2>3, <2>4, PdaFacts DEF Balances
<1>2. ASSUME NEW m \in BaseMints, RevokeMintAuthority(m)
      PROVE  LedgerTypeOK' /\ VaultsKept
  <2>1. mint' \in [BaseMints -> MintAccount]
    BY <1>2 DEF RevokeMintAuthority, MintAccount
  <2>2. balance' = balance /\ atas' = atas
    BY <1>2 DEF RevokeMintAuthority
  <2>3. \A t \in Mints, n \in BaseMints : balance[t][pool_pda(n)] \in Nat
    BY PdaFacts
  <2> QED BY <2>1, <2>2, <2>3
<1>3. ASSUME NEW m \in BaseMints, RevokeFreezeAuthority(m)
      PROVE  LedgerTypeOK' /\ VaultsKept
  <2>1. mint' \in [BaseMints -> MintAccount]
    BY <1>3 DEF RevokeFreezeAuthority, MintAccount
  <2>2. balance' = balance /\ atas' = atas
    BY <1>3 DEF RevokeFreezeAuthority
  <2>3. \A t \in Mints, n \in BaseMints : balance[t][pool_pda(n)] \in Nat
    BY PdaFacts
  <2> QED BY <2>1, <2>2, <2>3
<1>4. ASSUME NEW token \in Mints, NEW from \in Users, NEW to \in Holders,
             NEW amount \in TransferAmounts, TransferToken(token, from, to, amount)
      PROVE  LedgerTypeOK' /\ VaultsKept
  <2>1. from \in Holders /\ amount \in Nat
    BY LedgerAssumption, PdaFacts
  <2>2. balance' = Transfer(balance, token, from, to, amount)
        /\ Covers(balance, token, from, amount)
        /\ mint' = mint /\ atas' = atas \cup {<<token, to>>}
    BY <1>4 DEF TransferToken
  <2>3. balance' \in Balances
        /\ \A t \in Mints, h \in Holders :
             balance'[t][h] = balance[t][h] + Flow(token, from, to, amount, t, h)
    BY <1>0, <2>1, <2>2, TransferFacts
  <2>4. ASSUME NEW t \in Mints, NEW n \in BaseMints
        PROVE  balance'[t][pool_pda(n)] >= balance[t][pool_pda(n)]
    <3>1. pool_pda(n) \in Holders /\ pool_pda(n) # from
      BY PdaFacts
    <3>2. balance[t][pool_pda(n)] \in Nat
      BY <3>1
    <3> QED BY <2>1, <2>3, <3>1, <3>2 DEF Flow
  <2> QED BY <2>2, <2>3, <2>4 DEF Balances
<1>5. ASSUME NEW m \in BaseMints, NEW from \in Users, NEW amount \in BurnAmounts,
             BurnToken(m, from, amount)
      PROVE  LedgerTypeOK' /\ VaultsKept
  <2>1. from \in Holders /\ m \in Mints /\ amount \in Nat
    BY LedgerAssumption, PdaFacts
  <2>2. mint' \in [BaseMints -> MintAccount]
    BY <1>5, <2>1 DEF BurnToken, MintAccount
  <2>3. balance' \in Balances
        /\ \A t \in Mints, h \in Holders :
             h # from => balance'[t][h] = balance[t][h]
    BY <1>0, <1>5, <2>1 DEF BurnToken, Balances, Covers
  <2>4. atas' = atas
    BY <1>5 DEF BurnToken
  <2>5. \A t \in Mints, n \in BaseMints :
          pool_pda(n) \in Holders /\ pool_pda(n) # from /\ balance[t][pool_pda(n)] \in Nat
    BY PdaFacts
  <2> QED BY <2>2, <2>3, <2>4, <2>5 DEF Balances
<1>6. ASSUME NEW token \in Mints, NEW holder \in Closers, CloseAccount(token, holder)
      PROVE  LedgerTypeOK' /\ VaultsKept
  <2>1. \A t \in Mints, n \in BaseMints : balance[t][pool_pda(n)] \in Nat
    BY PdaFacts
  <2> QED BY <1>6, <2>1 DEF CloseAccount
<1> QED BY <1>1, <1>2, <1>3, <1>4, <1>5, <1>6 DEF LedgerNext

-----------------------------------------------------------------------------
(* A listed pool has a price and a goal: neither virtual reserve and not the *)
(* threshold is zero, so no formula divides by zero.                         *)
PoolsPriced ==
    \A m \in BaseMints : pool[m].exists =>
        /\ pool[m].virt_base_reserves > 0
        /\ pool[m].virt_quote_reserves > 0
        /\ pool[m].real_quote_threshold > 0

IInv == TypeOK /\ PoolsPriced /\ CompletesAtThreshold

-----------------------------------------------------------------------------
(* A pool the formulas of pool/state.rs can be used on.                      *)
Priced(p) ==
    /\ p \in PoolState
    /\ p.virt_base_reserves > 0
    /\ p.virt_quote_reserves > 0
    /\ ReservesFit(p)

LEMMA U64Facts == U64 \subseteq Nat /\ \A n \in U64, k \in Nat : k <= n => k \in U64
  BY WidthAssumption, SMT DEF U64

LEMMA ReserveFacts ==
    ASSUME NEW p, Priced(p)
    PROVE  /\ BaseReserves(p) \in U64 /\ BaseReserves(p) \in Nat \ {0}
           /\ QuoteReserves(p) \in U64 /\ QuoteReserves(p) \in Nat \ {0}
           /\ p.real_base_reserves \in Nat /\ p.real_base_reserves < BaseReserves(p)
           /\ p.real_quote_reserves \in Nat /\ p.real_quote_threshold \in Nat
<1>1. /\ p.virt_base_reserves \in Nat /\ p.real_base_reserves \in Nat
      /\ p.virt_quote_reserves \in Nat /\ p.real_quote_reserves \in Nat
      /\ p.real_quote_threshold \in Nat
  BY U64Facts DEF Priced, PoolState
<1> QED BY <1>1 DEF Priced, ReservesFit, BaseReserves, QuoteReserves

(* The fill of a buy_tokens_from_exact_quote: its parts add up to a payment  *)
(* within quote_amount, and the pool does not pass its threshold.            *)
LEMMA ExactQuoteFillFacts ==
    ASSUME NEW p, Priced(p), NEW fee \in Fees, NEW quote_amount \in U64,
           Headroom(p) \in U64
    PROVE  LET fill == ExactQuoteFill(p, fee, quote_amount)
           IN  /\ fill.fee \in Nat /\ fill.quote \in Nat /\ fill.base \in Nat
               /\ fill.fee + fill.quote = fill.total
               /\ fill.total <= quote_amount
               /\ p.real_quote_reserves + fill.quote <= p.real_quote_threshold
<1> DEFINE asked == NetOfFee(fee, quote_amount)
           cut   == p.real_quote_reserves + asked > p.real_quote_threshold
           total == IF cut THEN calculate_total_amount(fee, Headroom(p)) ELSE quote_amount
           net   == NetOfFee(fee, total)
           fill  == ExactQuoteFill(p, fee, quote_amount)
<1>1. /\ fill.total = total
      /\ fill.fee = calculate_trading_fee(fee, total)
      /\ fill.quote = net
      /\ fill.base = calculate_output_amount(net, QuoteReserves(p), BaseReserves(p))
  BY DEF ExactQuoteFill, compute_receivable_amount_on_buy
<1>2. asked \in Nat /\ quote_amount \in Nat
  BY NetFacts, U64Facts
<1>3. total \in U64
  BY TotalBounds
<1>4. net \in Nat /\ total \in Nat /\ calculate_trading_fee(fee, total) \in Nat
  BY <1>3, NetFacts, FeeBounds, U64Facts
<1>5. total <= quote_amount /\ net <= p.real_quote_threshold - p.real_quote_reserves
  <2>1. CASE cut
    <3>1. Headroom(p) < asked
      BY <2>1, <1>2, ReserveFacts DEF Headroom
    <3>2. calculate_total_amount(fee, Headroom(p)) <= quote_amount
      BY <3>1, CutPaymentIsWithinBudget
    <3>3. NetOfFee(fee, calculate_total_amount(fee, Headroom(p))) <= Headroom(p)
      BY CutPaymentFitsTheHeadroom
    <3>4. total = calculate_total_amount(fee, Headroom(p))
      BY <2>1
    <3> QED BY <3>2, <3>3, <3>4 DEF Headroom
  <2>2. CASE ~cut
    <3>1. total = quote_amount
      BY <2>2
    <3> QED BY <3>1, <2>2, <1>2, ReserveFacts
  <2> QED BY <2>1, <2>2
<1>6. calculate_output_amount(net, QuoteReserves(p), BaseReserves(p)) \in Nat
  BY <1>4, ReserveFacts, OutputBounds, U64Facts
<1>7. net = total - calculate_trading_fee(fee, total)
  BY DEF NetOfFee
<1> HIDE DEF asked, total, net, fill
<1>8. p.real_quote_reserves + net <= p.real_quote_threshold
  BY <1>4, <1>5, ReserveFacts
<1>9. calculate_trading_fee(fee, total) + net = total
  BY <1>4, <1>7
<1> QED BY <1>1, <1>4, <1>5, <1>6, <1>8, <1>9 DEF fill

(* The fill of a buy_exact_tokens_from_quote does not pass the threshold.    *)
LEMMA ExactBaseFillFacts ==
    ASSUME NEW p, Priced(p), NEW fee \in Fees, NEW base_amount \in U64,
           base_amount <= p.real_base_reserves, Headroom(p) \in U64
    PROVE  LET fill == ExactBaseFill(p, fee, base_amount)
           IN  /\ fill.fee \in Nat /\ fill.quote \in Nat /\ fill.base \in Nat
               /\ fill.base <= base_amount
               /\ p.real_quote_reserves + fill.quote <= p.real_quote_threshold
<1> DEFINE required == calculate_input_amount(base_amount, QuoteReserves(p), BaseReserves(p))
           cut   == p.real_quote_reserves + required > p.real_quote_threshold
           net   == IF cut THEN Headroom(p) ELSE required
           total == calculate_total_amount(fee, net)
           base  == IF cut THEN calculate_output_amount(net, QuoteReserves(p), BaseReserves(p))
                    ELSE base_amount
           fill  == ExactBaseFill(p, fee, base_amount)
<1>1. /\ fill.fee = calculate_trading_fee(fee, total)
      /\ fill.quote = net
      /\ fill.base = base
  BY DEF ExactBaseFill, compute_receivable_amount_on_buy, compute_required_amount_on_buy
<1>2. base_amount \in Nat /\ base_amount < BaseReserves(p) /\ Headroom(p) \in Nat
  <2>1. base_amount \in Nat /\ Headroom(p) \in Nat
    BY U64Facts
  <2> QED BY <2>1, ReserveFacts
<1>3. required \in U64
  <2> DEFINE n == base_amount * QuoteReserves(p)
             d == BaseReserves(p) - base_amount
  <2>1. n \in Nat /\ d \in Nat \ {0}
    BY <1>2, ReserveFacts, SMT
  <2> HIDE DEF n, d
  <2>2. AsU64(n \div d) \in U64
    BY <2>1, DivBounds, CastFacts
  <2> QED BY <2>2 DEF calculate_input_amount, n, d
<1>4. net \in U64
  BY <1>3
<1>5. calculate_trading_fee(fee, total) \in Nat
  BY <1>4, TotalBounds, FeeBounds, U64Facts
<1>6. p.real_quote_reserves + net <= p.real_quote_threshold
  <2>1. required \in Nat
    BY <1>3, U64Facts
  <2> HIDE DEF required
  <2> QED BY <2>1, ReserveFacts DEF Headroom
<1>7. base \in Nat /\ base <= base_amount
  <2>1. CASE cut
    <3>1. net = Headroom(p) /\ Headroom(p) < required
      <4>1. required \in Nat
        BY <1>3, U64Facts
      <4>2. net = Headroom(p)
        BY <2>1
      <4> HIDE DEF required, net
      <4> QED BY <2>1, <4>1, <4>2, ReserveFacts DEF Headroom
    <3>2. calculate_output_amount(net, QuoteReserves(p), BaseReserves(p)) <= base_amount
      BY <3>1, <1>2, ReserveFacts, CutOrderIsNotEnlargedByTheCut
    <3>3. calculate_output_amount(net, QuoteReserves(p), BaseReserves(p)) \in Nat
      BY <3>1, <1>2, ReserveFacts, OutputBounds, U64Facts
    <3> QED BY <2>1, <3>2, <3>3
  <2>2. CASE ~cut
    BY <2>2, <1>2
  <2> QED BY <2>1, <2>2
<1>8. net \in Nat
  BY <1>4, U64Facts
<1> HIDE DEF net, total, base, fill
<1> QED BY <1>1, <1>5, <1>6, <1>7, <1>8 DEF fill

(* The fill of a sell: the fee and the seller's part are the whole payout.   *)
LEMMA SellFillFacts ==
    ASSUME NEW p, Priced(p), NEW fee \in Fees, NEW base_amount \in U64
    PROVE  LET fill == SellFill(p, fee, base_amount)
           IN  /\ fill.fee \in Nat /\ fill.quote \in Nat /\ fill.total \in Nat
               /\ fill.fee + fill.quote = fill.total
               /\ fill.base = base_amount /\ base_amount \in Nat
<1> DEFINE payout == calculate_output_amount(base_amount, BaseReserves(p), QuoteReserves(p))
           fill == SellFill(p, fee, base_amount)
<1>1. /\ fill.total = payout /\ fill.base = base_amount
      /\ fill.fee = calculate_trading_fee(fee, payout)
      /\ fill.quote = NetOfFee(fee, payout)
  BY DEF SellFill, compute_receivable_amount_on_sell
<1>2. base_amount \in Nat
  BY U64Facts
<1>3. payout \in U64
  BY <1>2, ReserveFacts, OutputBounds
<1>4. payout \in Nat /\ calculate_trading_fee(fee, payout) \in Nat /\ NetOfFee(fee, payout) \in Nat
  BY <1>3, FeeBounds, NetFacts, U64Facts
<1>5. calculate_trading_fee(fee, payout) + NetOfFee(fee, payout) = payout
  <2> HIDE DEF payout
  <2> QED BY <1>4 DEF NetOfFee
<1> HIDE DEF payout, fill
<1> QED BY <1>1, <1>2, <1>4, <1>5 DEF fill

-----------------------------------------------------------------------------
(* The transfers of each instruction, holder by holder.                      *)
LEMMA BuyMoves ==
    ASSUME NEW buyer \in Users, NEW m \in BaseMints, NEW fill,
           LedgerTypeOK, mainState.fee_recipient \in Holders,
           fill.fee \in Nat, fill.quote \in Nat, fill.base \in Nat,
           buy_finalize(buyer, m, fill)
    PROVE  /\ balance' \in Balances
           /\ \A t \in Mints, h \in Holders :
                balance'[t][h] = balance[t][h]
                    + Flow(QuoteMint, buyer, mainState.fee_recipient, fill.fee, t, h)
                    + Flow(QuoteMint, buyer, pool_pda(m), fill.quote, t, h)
                    + Flow(m, pool_pda(m), buyer, fill.base, t, h)
<1> DEFINE vault   == pool_pda(m)
           rec     == mainState.fee_recipient
           feePaid == Transfer(balance, QuoteMint, buyer, rec, fill.fee)
           paid    == Transfer(feePaid, QuoteMint, buyer, vault, fill.quote)
<1>1. /\ Covers(balance, QuoteMint, buyer, fill.fee)
      /\ Covers(feePaid, QuoteMint, buyer, fill.quote)
      /\ Covers(paid, m, vault, fill.base)
      /\ balance' = Transfer(paid, m, vault, buyer, fill.base)
  BY DEF buy_finalize
<1>2. buyer \in Holders /\ vault \in Holders /\ rec \in Holders
      /\ QuoteMint \in Mints /\ m \in Mints /\ balance \in Balances
  BY PdaFacts DEF LedgerTypeOK, Balances
<1>3. feePaid \in Balances
      /\ \A t \in Mints, h \in Holders :
           feePaid[t][h] = balance[t][h] + Flow(QuoteMint, buyer, rec, fill.fee, t, h)
  BY <1>1, <1>2, TransferFacts
<1> HIDE DEF feePaid
<1>4. paid \in Balances
      /\ \A t \in Mints, h \in Holders :
           paid[t][h] = feePaid[t][h] + Flow(QuoteMint, buyer, vault, fill.quote, t, h)
  BY <1>1, <1>2, <1>3, TransferFacts
<1> HIDE DEF paid
<1>5. balance' \in Balances
      /\ \A t \in Mints, h \in Holders :
           balance'[t][h] = paid[t][h] + Flow(m, vault, buyer, fill.base, t, h)
  BY <1>1, <1>2, <1>4, TransferFacts
<1> QED BY <1>3, <1>4, <1>5

LEMMA SellMoves ==
    ASSUME NEW seller \in Users, NEW m \in BaseMints,
           NEW base_amount, NEW min_quote_amount,
           LedgerTypeOK, mainState.fee_recipient \in Holders,
           NEW fill, fill = SellFill(pool[m], mainState.trading_fee, base_amount),
           fill.fee \in Nat, fill.quote \in Nat, fill.base \in Nat,
           fill.base = base_amount,
           Sell(seller, m, base_amount, min_quote_amount)
    PROVE  /\ balance' \in Balances
           /\ \A t \in Mints, h \in Holders :
                balance'[t][h] = balance[t][h]
                    + Flow(m, seller, pool_pda(m), fill.base, t, h)
                    + Flow(QuoteMint, pool_pda(m), mainState.fee_recipient, fill.fee, t, h)
                    + Flow(QuoteMint, pool_pda(m), seller, fill.quote, t, h)
<1> DEFINE vault   == pool_pda(m)
           rec     == mainState.fee_recipient
           given   == Transfer(balance, m, seller, vault, fill.base)
           feePaid == Transfer(given, QuoteMint, vault, rec, fill.fee)
<1>1. /\ Covers(balance, m, seller, fill.base)
      /\ Covers(given, QuoteMint, vault, fill.fee)
      /\ Covers(feePaid, QuoteMint, vault, fill.quote)
      /\ balance' = Transfer(feePaid, QuoteMint, vault, seller, fill.quote)
  BY DEF Sell, ASell
<1>2. seller \in Holders /\ vault \in Holders /\ rec \in Holders
      /\ QuoteMint \in Mints /\ m \in Mints /\ balance \in Balances
  BY PdaFacts DEF LedgerTypeOK, Balances
<1>3. given \in Balances
      /\ \A t \in Mints, h \in Holders :
           given[t][h] = balance[t][h] + Flow(m, seller, vault, fill.base, t, h)
  BY <1>1, <1>2, TransferFacts
<1> HIDE DEF given
<1>4. feePaid \in Balances
      /\ \A t \in Mints, h \in Holders :
           feePaid[t][h] = given[t][h] + Flow(QuoteMint, vault, rec, fill.fee, t, h)
  BY <1>1, <1>2, <1>3, TransferFacts
<1> HIDE DEF feePaid
<1>5. balance' \in Balances
      /\ \A t \in Mints, h \in Holders :
           balance'[t][h] = feePaid[t][h] + Flow(QuoteMint, vault, seller, fill.quote, t, h)
  BY <1>1, <1>2, <1>4, TransferFacts
<1> QED BY <1>3, <1>4, <1>5

LEMMA WithdrawMoves ==
    ASSUME NEW withdrawer \in Users, NEW m \in BaseMints,
           LedgerTypeOK, pool[m] \in PoolState, Withdraw(withdrawer, m)
    PROVE  /\ balance' \in Balances
           /\ \A t \in Mints, h \in Holders :
                balance'[t][h] = balance[t][h]
                    + Flow(m, pool_pda(m), withdrawer, pool[m].real_base_reserves, t, h)
                    + Flow(QuoteMint, pool_pda(m), withdrawer,
                           pool[m].real_quote_reserves, t, h)
<1> DEFINE vault   == pool_pda(m)
           base    == pool[m].real_base_reserves
           quote   == pool[m].real_quote_reserves
           baseOut == Transfer(balance, m, vault, withdrawer, base)
<1>1. /\ Covers(balance, m, vault, base)
      /\ Covers(baseOut, QuoteMint, vault, quote)
      /\ balance' = Transfer(baseOut, QuoteMint, vault, withdrawer, quote)
  BY DEF Withdraw
<1>2. withdrawer \in Holders /\ vault \in Holders
      /\ QuoteMint \in Mints /\ m \in Mints /\ balance \in Balances
      /\ base \in Nat /\ quote \in Nat
  BY PdaFacts, U64Facts DEF LedgerTypeOK, Balances, PoolState
<1> HIDE DEF base, quote
<1>3. baseOut \in Balances
      /\ \A t \in Mints, h \in Holders :
           baseOut[t][h] = balance[t][h] + Flow(m, vault, withdrawer, base, t, h)
  BY <1>1, <1>2, TransferFacts
<1> HIDE DEF baseOut
<1>4. balance' \in Balances
      /\ \A t \in Mints, h \in Holders :
           balance'[t][h] = baseOut[t][h] + Flow(QuoteMint, vault, withdrawer, quote, t, h)
  BY <1>1, <1>2, <1>3, TransferFacts
<1> QED BY <1>3, <1>4 DEF base, quote

LEMMA CreateMoves ==
    ASSUME NEW creator \in Users, NEW m \in BaseMints,
           LedgerTypeOK, CreatePool(creator, m)
    PROVE  /\ balance' \in Balances
           /\ \A t \in Mints, h \in Holders :
                balance'[t][h] = balance[t][h]
                    + Flow(m, creator, pool_pda(m), balance[m][creator], t, h)
<1>1. creator \in Holders /\ pool_pda(m) \in Holders /\ m \in Mints
      /\ balance \in Balances /\ balance[m][creator] \in Nat
  BY PdaFacts DEF LedgerTypeOK, Balances
<1>2. Covers(balance, m, creator, balance[m][creator])
  BY <1>1 DEF Covers
<1>3. balance' = Transfer(balance, m, creator, pool_pda(m), balance[m][creator])
  BY DEF CreatePool
<1> QED BY <1>1, <1>2, <1>3, TransferFacts

-----------------------------------------------------------------------------
(* What IInv says of one listed pool.                                        *)
Listed(p) ==
    /\ p \in PoolState
    /\ p.exists
    /\ p.virt_base_reserves > 0
    /\ p.virt_quote_reserves > 0
    /\ p.real_quote_threshold > 0
    /\ IF p.complete
       THEN Withdrawn(p) \/ p.real_quote_reserves = p.real_quote_threshold
       ELSE p.real_quote_reserves < p.real_quote_threshold

PoolsOK ==
    /\ pool \in [BaseMints -> PoolState]
    /\ \A m \in BaseMints : pool[m].exists => Listed(pool[m])

LEMMA IInvParts == IInv <=> LedgerTypeOK /\ mainState \in MainStateAccount /\ PoolsOK
  BY DEF IInv, TypeOK, PoolsPriced, CompletesAtThreshold, PoolsOK, Listed

LEMMA IInvPartsPrimed ==
    IInv' <=> LedgerTypeOK' /\ mainState' \in MainStateAccount /\ PoolsOK'
  BY DEF IInv, TypeOK, PoolsPriced, CompletesAtThreshold, PoolsOK, Listed

LEMMA PoolUpdate ==
    ASSUME PoolsOK, NEW m \in BaseMints, NEW p, Listed(p),
           pool' = [pool EXCEPT ![m] = p]
    PROVE  PoolsOK'
<1>1. p \in PoolState
  BY DEF Listed
<1>2. pool' \in [BaseMints -> PoolState]
  BY <1>1 DEF PoolsOK
<1>3. ASSUME NEW n \in BaseMints, pool'[n].exists
      PROVE  Listed(pool'[n])
  <2>1. CASE n = m
    BY <2>1 DEF PoolsOK
  <2>2. CASE n # m
    <3>1. pool'[n] = pool[n]
      BY <2>2 DEF PoolsOK
    <3> QED BY <3>1, <1>3 DEF PoolsOK
  <2> QED BY <2>1, <2>2
<1> QED BY <1>2, <1>3 DEF PoolsOK

LEMMA MainFacts ==
    ASSUME mainState \in MainStateAccount
    PROVE  /\ mainState.trading_fee \in Fees
           /\ mainState.fee_recipient \in Holders /\ mainState.withdrawer \in Holders
           /\ mainState.total_supply \in U64 \ {0}
           /\ mainState.init_virt_base_reserves \in U64 \ {0}
           /\ mainState.init_virt_quote_reserves \in U64 \ {0}
           /\ mainState.real_quote_threshold \in U64 \ {0}
  BY WidthAssumption DEF MainStateAccount, Fees, U64

-----------------------------------------------------------------------------
(* A buy that stays within the headroom leaves a listed, unwithdrawn pool.   *)
LEMMA AfterBuyIsListed ==
    ASSUME NEW p, Listed(p), NEW fill, fill.quote \in Nat,
           ~p.complete,
           p.real_quote_reserves + fill.quote <= p.real_quote_threshold,
           AfterBuy(p, fill) \in PoolState
    PROVE  Listed(AfterBuy(p, fill)) /\ ~Withdrawn(AfterBuy(p, fill))
<1> DEFINE q == AfterBuy(p, fill)
<1>1. /\ q.exists = p.exists
      /\ q.virt_base_reserves = p.virt_base_reserves
      /\ q.virt_quote_reserves = p.virt_quote_reserves
      /\ q.real_quote_threshold = p.real_quote_threshold
      /\ q.real_quote_reserves = p.real_quote_reserves + fill.quote
      /\ q.complete = (p.real_quote_reserves + fill.quote >= p.real_quote_threshold)
  BY DEF AfterBuy, Listed, PoolState
<1>2. p.real_quote_reserves \in Nat /\ p.real_quote_threshold \in Nat
  BY U64Facts DEF Listed, PoolState
<1> HIDE DEF q
<1>3. q.complete <=> p.real_quote_reserves + fill.quote >= p.real_quote_threshold
  BY <1>1, Zenon
<1>4. /\ p.real_quote_reserves + fill.quote >= p.real_quote_threshold
           => q.real_quote_reserves = q.real_quote_threshold
      /\ ~(p.real_quote_reserves + fill.quote >= p.real_quote_threshold)
           => q.real_quote_reserves < q.real_quote_threshold
  BY <1>1, <1>2
<1>5. IF q.complete THEN Withdrawn(q) \/ q.real_quote_reserves = q.real_quote_threshold
      ELSE q.real_quote_reserves < q.real_quote_threshold
  BY <1>3, <1>4, Zenon
<1>6. ~Withdrawn(q)
  <2>1. p.real_quote_threshold > 0
    BY DEF Listed
  <2>2. q.complete => q.real_quote_reserves = q.real_quote_threshold
    BY <1>3, <1>4, Zenon
  <2> QED BY <1>1, <1>2, <2>1, <2>2 DEF Withdrawn
<1> QED BY <1>1, <1>5, <1>6 DEF Listed, q

(* A sell leaves a listed pool, further from its threshold.                  *)
LEMMA AfterSellIsListed ==
    ASSUME NEW p, Listed(p), NEW fill, fill.total \in Nat, ~p.complete,
           AfterSell(p, fill) \in PoolState
    PROVE  Listed(AfterSell(p, fill))
<1> DEFINE q == AfterSell(p, fill)
<1>1. /\ q.exists = p.exists
      /\ q.virt_base_reserves = p.virt_base_reserves
      /\ q.virt_quote_reserves = p.virt_quote_reserves
      /\ q.real_quote_threshold = p.real_quote_threshold
      /\ q.real_quote_reserves = p.real_quote_reserves - fill.total
      /\ q.complete = p.complete
  BY DEF AfterSell, Listed, PoolState
<1>2. p.real_quote_reserves \in Nat /\ p.real_quote_threshold \in Nat
  BY U64Facts DEF Listed, PoolState
<1>3. p.real_quote_reserves < p.real_quote_threshold
  BY DEF Listed
<1> HIDE DEF q
<1>4. q.real_quote_reserves < q.real_quote_threshold
  BY <1>1, <1>2, <1>3
<1> QED BY <1>1, <1>4 DEF Listed, q

(* Withdrawing leaves a listed pool without reserves.                        *)
LEMMA AfterWithdrawIsListed ==
    ASSUME NEW p, Listed(p), p.complete
    PROVE  Listed(AfterWithdraw(p))
<1> DEFINE q == AfterWithdraw(p)
<1>1. 0 \in U64
  BY WidthAssumption DEF U64
<1>2. q \in PoolState
  BY <1>1 DEF AfterWithdraw, Listed, PoolState
<1>3. /\ q.exists /\ q.complete
      /\ q.virt_base_reserves = p.virt_base_reserves
      /\ q.virt_quote_reserves = p.virt_quote_reserves
      /\ q.real_quote_threshold = p.real_quote_threshold
      /\ q.real_base_reserves = 0 /\ q.real_quote_reserves = 0
  BY DEF AfterWithdraw, Listed, PoolState
<1> HIDE DEF q
<1> QED BY <1>2, <1>3 DEF Listed, Withdrawn, q

-----------------------------------------------------------------------------
(* The trades, one by one.                                                   *)
LEMMA CreatePoolStep ==
    ASSUME IInv, NEW creator \in Users, NEW m \in BaseMints, CreatePool(creator, m)
    PROVE  IInv'
<1>1. LedgerTypeOK /\ mainState \in MainStateAccount /\ PoolsOK
  BY IInvParts
<1>2. balance' \in Balances
  BY <1>1, CreateMoves
<1>3. creator \in Holders /\ pool_pda(m) \in Holders /\ m \in Mints /\ QuoteMint \in Mints
  BY PdaFacts
<1>4. atas' \subseteq Mints \X Holders /\ mint' = mint
  BY <1>1, <1>3 DEF CreatePool, ACreatePool, LedgerTypeOK
<1>5. Listed(NewPool(creator))
  BY <1>1, MainFacts, U64Facts, WidthAssumption DEF NewPool, Listed, PoolState, U64
<1>6. PoolsOK' /\ mainState' = mainState
  BY <1>1, <1>5, PoolUpdate DEF CreatePool
<1> QED BY <1>1, <1>2, <1>4, <1>6, IInvPartsPrimed DEF LedgerTypeOK, Balances

LEMMA BuyFinalizeStep ==
    ASSUME IInv, NEW buyer \in Users, NEW m \in BaseMints, NEW fill,
           pool[m].exists, ~pool[m].complete,
           fill.fee \in Nat, fill.quote \in Nat, fill.base \in Nat,
           pool[m].real_quote_reserves + fill.quote <= pool[m].real_quote_threshold,
           ABuy(buyer, m), buy_finalize(buyer, m, fill)
    PROVE  IInv'
<1>1. LedgerTypeOK /\ mainState \in MainStateAccount /\ PoolsOK
  BY IInvParts
<1>2. balance' \in Balances
  BY <1>1, MainFacts, BuyMoves
<1>3. buyer \in Holders /\ m \in Mints /\ QuoteMint \in Mints
      /\ mainState.fee_recipient \in Holders
  BY <1>1, PdaFacts, MainFacts
<1>4. atas' \subseteq Mints \X Holders
  BY <1>1, <1>3 DEF ABuy, LedgerTypeOK
<1>5. mint' = mint /\ mainState' = mainState
  BY DEF buy_finalize
<1>6. Listed(AfterBuy(pool[m], fill))
  BY <1>1, AfterBuyIsListed DEF PoolsOK, buy_finalize
<1>7. PoolsOK'
  BY <1>1, <1>6, PoolUpdate DEF buy_finalize
<1> QED BY <1>1, <1>2, <1>4, <1>5, <1>7, IInvPartsPrimed DEF LedgerTypeOK, Balances

LEMMA ListedIsPriced ==
    ASSUME NEW p, Listed(p), ReservesFit(p)
    PROVE  Priced(p)
  BY DEF Listed, Priced

LEMMA ExactQuoteStep ==
    ASSUME IInv, NEW u \in Users, NEW m \in BaseMints, NEW q \in U64,
           NEW min, BuyTokensFromExactQuote(u, m, q, min)
    PROVE  IInv'
<1> DEFINE fill == ExactQuoteFill(pool[m], mainState.trading_fee, q)
<1>1. /\ ABuy(u, m) /\ pool[m].exists /\ ~pool[m].complete
      /\ Headroom(pool[m]) \in U64 /\ ReservesFit(pool[m])
      /\ buy_finalize(u, m, fill)
  BY DEF BuyTokensFromExactQuote, ABuy
<1>2. Priced(pool[m]) /\ mainState.trading_fee \in Fees /\ q \in U64
  BY <1>1, IInvParts, ListedIsPriced, MainFacts DEF PoolsOK
<1>3. fill.fee \in Nat /\ fill.quote \in Nat /\ fill.base \in Nat
      /\ pool[m].real_quote_reserves + fill.quote <= pool[m].real_quote_threshold
  BY <1>1, <1>2, ExactQuoteFillFacts
<1> HIDE DEF fill
<1> QED BY <1>1, <1>3, BuyFinalizeStep

LEMMA ExactBaseStep ==
    ASSUME IInv, NEW u \in Users, NEW m \in BaseMints, NEW b \in U64,
           NEW max, BuyExactTokensFromQuote(u, m, b, max)
    PROVE  IInv'
<1> DEFINE fill == ExactBaseFill(pool[m], mainState.trading_fee, b)
<1>1. /\ ABuy(u, m) /\ pool[m].exists /\ ~pool[m].complete
      /\ b <= pool[m].real_base_reserves
      /\ Headroom(pool[m]) \in U64 /\ ReservesFit(pool[m])
      /\ buy_finalize(u, m, fill)
  BY DEF BuyExactTokensFromQuote, ABuy
<1>2. Priced(pool[m]) /\ mainState.trading_fee \in Fees /\ b \in U64
  BY <1>1, IInvParts, ListedIsPriced, MainFacts DEF PoolsOK
<1>3. fill.fee \in Nat /\ fill.quote \in Nat /\ fill.base \in Nat
      /\ pool[m].real_quote_reserves + fill.quote <= pool[m].real_quote_threshold
  BY <1>1, <1>2, ExactBaseFillFacts
<1> HIDE DEF fill
<1> QED BY <1>1, <1>3, BuyFinalizeStep

LEMMA SellStep ==
    ASSUME IInv, NEW u \in Users, NEW m \in BaseMints, NEW b \in U64,
           NEW min, Sell(u, m, b, min)
    PROVE  IInv'
<1> DEFINE fill == SellFill(pool[m], mainState.trading_fee, b)
<1>1. LedgerTypeOK /\ mainState \in MainStateAccount /\ PoolsOK
  BY IInvParts
<1>2. /\ ASell(u, m, b) /\ pool[m].exists /\ ~pool[m].complete
      /\ ReservesFit(pool[m])
      /\ AfterSell(pool[m], fill) \in PoolState
      /\ pool' = [pool EXCEPT ![m] = AfterSell(pool[m], fill)]
      /\ mint' = mint /\ mainState' = mainState
  BY DEF Sell, ASell
<1>3. Priced(pool[m]) /\ mainState.trading_fee \in Fees /\ b \in U64
  BY <1>1, <1>2, ListedIsPriced, MainFacts DEF PoolsOK
<1>4. fill.fee \in Nat /\ fill.quote \in Nat /\ fill.total \in Nat
      /\ fill.base = b /\ b \in Nat
  BY <1>3, SellFillFacts
<1>5. fill = SellFill(pool[m], mainState.trading_fee, b)
  OBVIOUS
<1> HIDE DEF fill
<1>6. balance' \in Balances
  BY <1>1, <1>4, <1>5, MainFacts, SellMoves
<1>7. u \in Holders /\ QuoteMint \in Mints /\ mainState.fee_recipient \in Holders
  BY <1>1, PdaFacts, MainFacts
<1>8. atas' \subseteq Mints \X Holders
  BY <1>1, <1>2, <1>7 DEF ASell, LedgerTypeOK
<1>9. PoolsOK'
  <2>1. Listed(AfterSell(pool[m], fill))
    BY <1>1, <1>2, <1>4, AfterSellIsListed DEF PoolsOK
  <2> QED BY <2>1, <1>1, <1>2, PoolUpdate
<1> QED BY <1>1, <1>2, <1>6, <1>8, <1>9, IInvPartsPrimed DEF LedgerTypeOK, Balances

LEMMA WithdrawStep ==
    ASSUME IInv, NEW u \in Users, NEW m \in BaseMints, Withdraw(u, m)
    PROVE  IInv'
<1>1. LedgerTypeOK /\ mainState \in MainStateAccount /\ PoolsOK
  BY IInvParts
<1>2. /\ AWithdraw(u, m) /\ pool[m].exists /\ pool[m].complete
      /\ pool' = [pool EXCEPT ![m] = AfterWithdraw(pool[m])]
      /\ mint' = mint /\ mainState' = mainState
  BY DEF Withdraw, AWithdraw
<1>3. balance' \in Balances
  BY <1>1, WithdrawMoves DEF PoolsOK
<1>4. u \in Holders /\ QuoteMint \in Mints /\ m \in Mints
  BY PdaFacts
<1>5. atas' \subseteq Mints \X Holders
  BY <1>1, <1>2, <1>4 DEF AWithdraw, LedgerTypeOK
<1>6. PoolsOK'
  <2>1. Listed(AfterWithdraw(pool[m]))
    BY <1>1, <1>2, AfterWithdrawIsListed DEF PoolsOK
  <2> QED BY <2>1, <1>1, <1>2, PoolUpdate
<1> QED BY <1>1, <1>2, <1>3, <1>5, <1>6, IInvPartsPrimed DEF LedgerTypeOK, Balances

-----------------------------------------------------------------------------
(* The defaults are within the limits update_main_state enforces.            *)
LEMMA DefaultIsTyped == DefaultMainState \in MainStateAccount
  BY ConfigAssumption, FeeAssumption, PdaFacts
     DEF DefaultMainState, MainStateAccount, MAX_TRADING_FEE

(* What an instruction on the configuration keeps: its type, the balances,   *)
(* the mints, and every account that is open.                                *)
MainStateKept ==
    /\ mainState' \in MainStateAccount
    /\ balance' = balance /\ mint' = mint
    /\ atas \subseteq atas' /\ atas' \subseteq Mints \X Holders

LEMMA InitMainStateKeeps ==
    ASSUME LedgerTypeOK, mainState \in MainStateAccount,
           NEW owner \in Users, InitMainState(owner)
    PROVE  MainStateKept
  BY DefaultIsTyped, PdaFacts
     DEF InitMainState, AInitMainState, LedgerTypeOK, MainStateKept

LEMMA TransferOwnershipKeeps ==
    ASSUME LedgerTypeOK, mainState \in MainStateAccount,
           NEW owner \in Users, NEW new_owner \in Holders,
           TransferOwnership(owner, new_owner)
    PROVE  MainStateKept
  BY DEF TransferOwnership, MainStateAccount, ledgerVars, LedgerTypeOK, MainStateKept

(* Every accepted input keeps the account's type.                            *)
LEMMA UpdateMainStateKeeps ==
    ASSUME LedgerTypeOK, mainState \in MainStateAccount,
           NEW owner \in Users, NEW input \in UpdateMainStateInput,
           UpdateMainState(owner, input)
    PROVE  MainStateKept
<1>1. ASSUME NEW option \in Option(U64), NEW current \in 1 .. U64_MAX,
             Acceptable(option)
      PROVE  OrElse(option, current) \in 1 .. U64_MAX
  BY <1>1, WidthAssumption DEF Option, Acceptable, OrElse, U64
<1>2. /\ input.withdrawer \in Holders /\ input.fee_recipient \in Holders
      /\ input.trading_fee \in 0 .. MAX_TRADING_FEE
  BY FeeAssumption, WidthAssumption
     DEF UpdateMainState, UpdateMainStateInput, U64, MAX_TRADING_FEE
<1>3. /\ OrElse(input.total_supply, mainState.total_supply) \in 1 .. U64_MAX
      /\ OrElse(input.init_virt_base_reserves, mainState.init_virt_base_reserves)
           \in 1 .. U64_MAX
      /\ OrElse(input.init_virt_quote_reserves, mainState.init_virt_quote_reserves)
           \in 1 .. U64_MAX
      /\ OrElse(input.real_quote_threshold, mainState.real_quote_threshold)
           \in 1 .. U64_MAX
  BY <1>1 DEF UpdateMainState, UpdateMainStateInput, MainStateAccount
<1>4. mainState' \in MainStateAccount
  BY <1>2, <1>3 DEF UpdateMainState, MainStateAccount
<1> QED BY <1>2, <1>4, PdaFacts
       DEF UpdateMainState, AUpdateMainState, LedgerTypeOK, MainStateKept

(* The three together.                                                       *)
LEMMA MainNextStep ==
    ASSUME LedgerTypeOK, mainState \in MainStateAccount, MainNext
    PROVE  /\ mainState' \in MainStateAccount
           /\ balance' = balance /\ mint' = mint /\ atas \subseteq atas'
           /\ LedgerTypeOK'
<1>1. MainStateKept
  BY InitMainStateKeeps, TransferOwnershipKeeps, UpdateMainStateKeeps, ConfigAssumption
     DEF MainNext
<1> QED BY <1>1 DEF MainStateKept, LedgerTypeOK

-----------------------------------------------------------------------------
LEMMA InitIInv == Init => IInv
<1> SUFFICES ASSUME Init PROVE IInv
  OBVIOUS
<1>1. LedgerTypeOK
  <2>1. balance \in [Mints -> [Holders -> Nat]]
    BY LedgerAssumption DEF Init, LedgerInit
  <2>2. atas \subseteq Mints \X Holders
    BY PdaFacts DEF Init, LedgerInit
  <2>3. mint \in [BaseMints -> MintAccount]
    BY DEF Init, LedgerInit, MintAccount
  <2> QED BY <2>1, <2>2, <2>3 DEF LedgerTypeOK
<1>2. mainState \in MainStateAccount
  BY DefaultIsTyped DEF Init, MainInit, MainStateAccount
<1>3. PoolsOK
  BY ConfigAssumption, WidthAssumption DEF Init, NoPool, PoolsOK, PoolState, U64
<1> QED BY <1>1, <1>2, <1>3, IInvParts

LEMMA NextIInv == IInv /\ [Next]_vars => IInv'
<1> SUFFICES ASSUME IInv, [Next]_vars PROVE IInv'
  OBVIOUS
<1>1. LedgerTypeOK /\ mainState \in MainStateAccount /\ PoolsOK
  BY IInvParts
<1>2. CASE LedgerNext /\ UNCHANGED <<mainState, pool>>
  BY <1>1, <1>2, LedgerNextFacts, IInvPartsPrimed DEF PoolsOK
<1>3. CASE MainNext /\ UNCHANGED pool
  BY <1>1, <1>3, MainNextStep, IInvPartsPrimed DEF PoolsOK
<1>4. CASE PoolNext
  <2>1. ASSUME NEW u \in Users, NEW m \in BaseMints, CreatePool(u, m) PROVE IInv'
    BY <2>1, CreatePoolStep
  <2>2. ASSUME NEW u \in Users, NEW m \in BaseMints, NEW q \in QuoteAmounts,
               NEW min \in MinOutputs, BuyTokensFromExactQuote(u, m, q, min)
        PROVE IInv'
    BY <2>2, ExactQuoteStep, InputAssumption
  <2>3. ASSUME NEW u \in Users, NEW m \in BaseMints, NEW b \in BaseAmounts,
               NEW max \in MaxInputs, BuyExactTokensFromQuote(u, m, b, max)
        PROVE IInv'
    BY <2>3, ExactBaseStep, InputAssumption
  <2>4. ASSUME NEW u \in Users, NEW m \in BaseMints, NEW b \in SellAmounts,
               NEW min \in MinOutputs, Sell(u, m, b, min)
        PROVE IInv'
    BY <2>4, SellStep, InputAssumption
  <2>5. ASSUME NEW u \in Users, NEW m \in BaseMints, Withdraw(u, m) PROVE IInv'
    BY <2>5, WithdrawStep
  <2> QED BY <1>4, <2>1, <2>2, <2>3, <2>4, <2>5 DEF PoolNext
<1>5. CASE UNCHANGED vars
  BY <1>1, <1>5, IInvPartsPrimed
     DEF vars, LedgerTypeOK, PoolsOK
<1> QED BY <1>2, <1>3, <1>4, <1>5 DEF Next

(* The types, positive terms and reserves of listed pools, and completion at *)
(* the threshold hold in every state any order of instructions reaches       *)
(* (lib.rs).                                                                 *)
THEOREM InductiveInvariant == Spec => []IInv
  BY InitIInv, NextIInv, PTL DEF Spec

(* Every account keeps values of its Rust type, and the configuration a fee  *)
(* of at most MAX_TRADING_FEE and terms above zero (update_main_state.rs).   *)
THEOREM TypeCorrect == Spec => []TypeOK
<1>1. IInv => TypeOK
  BY DEF IInv
<1> QED BY <1>1, InductiveInvariant, PTL

(* A curve is complete exactly when it holds its own threshold, whatever the *)
(* fee, the configuration and the order of the trades (buy.rs:74, :113).     *)
THEOREM CompletionIsExact == Spec => []CompletesAtThreshold
<1>1. IInv => CompletesAtThreshold
  BY DEF IInv
<1> QED BY <1>1, InductiveInvariant, PTL
=============================================================================
