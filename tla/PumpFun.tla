------------------------------ MODULE PumpFun ------------------------------
(* The program's bonding curves (programs/ali_pump_fun/src/pool): one pool   *)
(* per base token, its reserves and the five instructions that trade on it.  *)
(*                                                                           *)
(* One instruction is one step (see MainState).  A step's guards are the     *)
(* account constraints, every require! of the handler, every checked u64     *)
(* operation (overflow-checks = true: a sum or difference outside U64 aborts *)
(* the transaction) and every CPI transfer, in the order of the code.        *)
EXTENDS MainState

CONSTANTS
    QuoteAmounts,   \* quote_amount of buy_tokens_from_exact_quote
    BaseAmounts,    \* base_amount of buy_exact_tokens_from_quote
    SellAmounts,    \* base_amount of sell
    MinOutputs,     \* min_base_amount, min_quote_amount
    MaxInputs       \* max_quote_amount

ASSUME InputAssumption ==
    /\ QuoteAmounts \subseteq U64
    /\ BaseAmounts \subseteq U64
    /\ SellAmounts \subseteq U64
    /\ MinOutputs \subseteq U64
    /\ MaxInputs \subseteq U64

VARIABLE pool   \* pool[m]: the PoolState account of base mint m

vars == <<balance, atas, mint, mainState, pool>>

(* base_mint and quote_mint, which the source stores too, are m and QuoteMint*)
PoolState ==
    [exists : BOOLEAN, owner : Users,
     virt_base_reserves : U64, real_base_reserves : U64,
     virt_quote_reserves : U64, real_quote_reserves : U64,
     real_quote_threshold : U64, complete : BOOLEAN]

NoPool ==
    [exists |-> FALSE, owner |-> DEFAULT_OWNER,
     virt_base_reserves |-> 0, real_base_reserves |-> 0,
     virt_quote_reserves |-> 0, real_quote_reserves |-> 0,
     real_quote_threshold |-> 0, complete |-> FALSE]

Init == LedgerInit /\ MainInit /\ pool = [m \in BaseMints |-> NoPool]

-----------------------------------------------------------------------------
(* The two sides of the curve: virtual plus real reserves of a pool p.       *)
BaseReserves(p) == p.virt_base_reserves + p.real_base_reserves
QuoteReserves(p) == p.virt_quote_reserves + p.real_quote_reserves

(* The checked sums taken by the methods below and by the trade events.      *)
ReservesFit(p) == BaseReserves(p) \in U64 /\ QuoteReserves(p) \in U64

(* Mutant: the threshold of the configuration instead of the pool's own.     *)
HeadroomOfMainState(p) == mainState.real_quote_threshold - p.real_quote_reserves

(* How much more quote the curve takes before it is complete.  The handlers  *)
(* subtract only to cut a buy; below zero every buy would be cut, and abort. *)
Headroom(p) == p.real_quote_threshold - p.real_quote_reserves

compute_receivable_amount_on_buy(p, quote_amount) ==
    calculate_output_amount(quote_amount, QuoteReserves(p), BaseReserves(p))

compute_required_amount_on_buy(p, base_amount) ==
    calculate_input_amount(base_amount, QuoteReserves(p), BaseReserves(p))

compute_receivable_amount_on_sell(p, base_amount) ==
    calculate_output_amount(base_amount, BaseReserves(p), QuoteReserves(p))

-----------------------------------------------------------------------------
(* create_pool                                                               *)
ACreatePool(creator, m) ==
    /\ mainState.exists
    /\ ~pool[m].exists
    /\ <<m, creator>> \in atas
    /\ <<m, pool_pda(m)>> \notin atas
    /\ <<QuoteMint, pool_pda(m)>> \notin atas
    /\ atas' = atas \cup {<<m, pool_pda(m)>>, <<QuoteMint, pool_pda(m)>>}

(* Mutant: only the freeze authority is looked at.                           *)
MintIsNotFreezable(m) == ~mint[m].freeze_authority

(* BaseTokenMustNotBeMintable, BaseTokenMustNotBeFreezable                   *)
MintIsFinal(m) == ~mint[m].mint_authority /\ ~mint[m].freeze_authority

(* Mutant: the two virtual reserves swapped.                                 *)
NewPoolSwapped(creator) ==
    [exists |-> TRUE, owner |-> creator,
     virt_base_reserves |-> mainState.init_virt_quote_reserves,
     real_base_reserves |-> mainState.total_supply,
     virt_quote_reserves |-> mainState.init_virt_base_reserves,
     real_quote_reserves |-> 0,
     real_quote_threshold |-> mainState.real_quote_threshold,
     complete |-> FALSE]

(* The fields create_pool writes (create_pool.rs:39-46); "complete" is left  *)
(* as the account is created, all zeros.                                     *)
NewPool(creator) ==
    [exists |-> TRUE, owner |-> creator,
     virt_base_reserves |-> mainState.init_virt_base_reserves,
     real_base_reserves |-> mainState.total_supply,
     virt_quote_reserves |-> mainState.init_virt_quote_reserves,
     real_quote_reserves |-> 0,
     real_quote_threshold |-> mainState.real_quote_threshold,
     complete |-> FALSE]

CreatePool(creator, m) ==
    /\ ACreatePool(creator, m)
    /\ balance[m][creator] = mint[m].supply
    /\ balance[m][creator] = mainState.total_supply
    /\ MintIsFinal(m)
    /\ BaseReserves(NewPool(creator)) \in U64
    /\ pool' = [pool EXCEPT ![m] = NewPool(creator)]
    /\ balance' = Transfer(balance, m, creator, pool_pda(m), balance[m][creator])
    /\ UNCHANGED <<mint, mainState>>

-----------------------------------------------------------------------------
(* buy_tokens_from_exact_quote and buy_exact_tokens_from_quote               *)
(* Mutant: the buyer's base ATA is not created.                              *)
ABuyWithoutBaseAta(buyer, m) ==
    /\ mainState.exists
    /\ pool[m].exists
    /\ atas' = atas \cup {<<QuoteMint, mainState.fee_recipient>>, <<QuoteMint, buyer>>}

(* ABuy, the accounts of both buys: the fee recipient's quote ATA and both   *)
(* ATAs of the buyer are created when missing.                               *)
ABuy(buyer, m) ==
    /\ mainState.exists
    /\ pool[m].exists
    /\ atas' = atas \cup {<<QuoteMint, mainState.fee_recipient>>,
                          <<m, buyer>>, <<QuoteMint, buyer>>}

(* A fill: what a trade moves.  The fee goes to the fee recipient, "quote"   *)
(* and "base" change the reserves, "total" is what the buyer is told to pay. *)
ExactQuoteFill(p, trading_fee, quote_amount) ==
    LET asked == NetOfFee(trading_fee, quote_amount)
        total == IF p.real_quote_reserves + asked > p.real_quote_threshold
                 THEN calculate_total_amount(trading_fee, Headroom(p))
                 ELSE quote_amount
        net   == NetOfFee(trading_fee, total)
    IN  [total |-> total,
         fee   |-> calculate_trading_fee(trading_fee, total),
         quote |-> net,
         base  |-> compute_receivable_amount_on_buy(p, net)]

ExactBaseFill(p, trading_fee, base_amount) ==
    LET required == compute_required_amount_on_buy(p, base_amount)
        cut      == p.real_quote_reserves + required > p.real_quote_threshold
        net      == IF cut THEN Headroom(p) ELSE required
        total    == calculate_total_amount(trading_fee, net)
    IN  [total |-> total,
         fee   |-> calculate_trading_fee(trading_fee, total),
         quote |-> net,
         base  |-> IF cut THEN compute_receivable_amount_on_buy(p, net)
                   ELSE base_amount]

(* Mutant: complete only beyond the threshold.                               *)
AfterBuyStrict(p, fill) ==
    LET quote == p.real_quote_reserves + fill.quote
    IN  [p EXCEPT !.real_base_reserves = @ - fill.base,
                  !.real_quote_reserves = quote,
                  !.complete = quote > p.real_quote_threshold]

(* Mutant: the virtual reserves count towards the threshold.                 *)
AfterBuyWithVirtual(p, fill) ==
    LET quote == p.real_quote_reserves + fill.quote
    IN  [p EXCEPT !.real_base_reserves = @ - fill.base,
                  !.real_quote_reserves = quote,
                  !.complete = p.virt_quote_reserves + quote >= p.real_quote_threshold]

(* Mutant: the whole payment is booked, the fee included.                    *)
AfterBuyOfTotal(p, fill) ==
    LET quote == p.real_quote_reserves + fill.total
    IN  [p EXCEPT !.real_base_reserves = @ - fill.base,
                  !.real_quote_reserves = quote,
                  !.complete = quote >= p.real_quote_threshold]

(* The reserves and the flag after a buy (buy.rs:122-123, buy.rs:74-75).     *)
AfterBuy(p, fill) ==
    LET quote == p.real_quote_reserves + fill.quote
    IN  [p EXCEPT !.real_base_reserves = @ - fill.base,
                  !.real_quote_reserves = quote,
                  !.complete = quote >= p.real_quote_threshold]

(* Mutant: the vault is paid what the buyer was told, the fee included.      *)
buy_finalize_of_total(buyer, m, fill) ==
    LET vault   == pool_pda(m)
        feePaid == Transfer(balance, QuoteMint, buyer, mainState.fee_recipient, fill.fee)
        paid    == Transfer(feePaid, QuoteMint, buyer, vault, fill.total)
    IN  /\ AfterBuy(pool[m], fill) \in PoolState
        /\ Covers(balance, QuoteMint, buyer, fill.fee)
        /\ Covers(feePaid, QuoteMint, buyer, fill.total)
        /\ Covers(paid, m, vault, fill.base)
        /\ fill.fee + fill.quote \in U64
        /\ ReservesFit(AfterBuy(pool[m], fill))
        /\ balance' = Transfer(paid, m, vault, buyer, fill.base)
        /\ pool' = [pool EXCEPT ![m] = AfterBuy(pool[m], fill)]
        /\ UNCHANGED <<mint, mainState>>

(* Three transfers, the event's checked sums, completion.  Membership in     *)
(* PoolState is the callers' checked += and -= on the real reserves.         *)
buy_finalize(buyer, m, fill) ==
    LET vault   == pool_pda(m)
        feePaid == Transfer(balance, QuoteMint, buyer, mainState.fee_recipient, fill.fee)
        paid    == Transfer(feePaid, QuoteMint, buyer, vault, fill.quote)
    IN  /\ AfterBuy(pool[m], fill) \in PoolState
        /\ Covers(balance, QuoteMint, buyer, fill.fee)
        /\ Covers(feePaid, QuoteMint, buyer, fill.quote)
        /\ Covers(paid, m, vault, fill.base)
        /\ fill.fee + fill.quote \in U64
        /\ ReservesFit(AfterBuy(pool[m], fill))
        /\ balance' = Transfer(paid, m, vault, buyer, fill.base)
        /\ pool' = [pool EXCEPT ![m] = AfterBuy(pool[m], fill)]
        /\ UNCHANGED <<mint, mainState>>

BuyTokensFromExactQuote(buyer, m, quote_amount, min_base_amount) ==
    LET fill == ExactQuoteFill(pool[m], mainState.trading_fee, quote_amount)
    IN  /\ ABuy(buyer, m)
        /\ quote_amount > 0
        /\ ~pool[m].complete
        /\ pool[m].real_quote_reserves
               + NetOfFee(mainState.trading_fee, quote_amount) \in U64
        /\ Headroom(pool[m]) \in U64
        /\ ReservesFit(pool[m])
        /\ fill.base >= min_base_amount
        /\ buy_finalize(buyer, m, fill)

(* Mutant: the limit is compared before the fee.                             *)
NetWithinMaximum(fill, max_quote_amount) == fill.quote <= max_quote_amount

(* TooMuchInputQuote                                                         *)
WithinMaximum(fill, max_quote_amount) == fill.total <= max_quote_amount

BuyExactTokensFromQuote(buyer, m, base_amount, max_quote_amount) ==
    LET fill == ExactBaseFill(pool[m], mainState.trading_fee, base_amount)
    IN  /\ ABuy(buyer, m)
        /\ ~pool[m].complete
        /\ base_amount > 0
        /\ base_amount <= pool[m].real_base_reserves
        /\ ReservesFit(pool[m])
        /\ pool[m].real_quote_reserves
               + compute_required_amount_on_buy(pool[m], base_amount) \in U64
        /\ Headroom(pool[m]) \in U64
        /\ WithinMaximum(fill, max_quote_amount)
        /\ buy_finalize(buyer, m, fill)

-----------------------------------------------------------------------------
(* sell                                                                      *)
ASell(seller, m, base_amount) ==
    /\ mainState.exists
    /\ pool[m].exists
    /\ <<m, seller>> \in atas
    /\ Covers(balance, m, seller, base_amount)
    /\ atas' = atas \cup {<<QuoteMint, mainState.fee_recipient>>, <<QuoteMint, seller>>}

SellFill(p, trading_fee, base_amount) ==
    LET payout == compute_receivable_amount_on_sell(p, base_amount)
    IN  [total |-> payout,
         fee   |-> calculate_trading_fee(trading_fee, payout),
         quote |-> NetOfFee(trading_fee, payout),
         base  |-> base_amount]

(* Mutant: the fee, which leaves the vault too, is not booked.               *)
AfterSellWithoutFee(p, fill) ==
    [p EXCEPT !.real_base_reserves = @ + fill.base,
              !.real_quote_reserves = @ - fill.quote]

(* The reserves after a sell (sell.rs:41-42).                                *)
AfterSell(p, fill) ==
    [p EXCEPT !.real_base_reserves = @ + fill.base,
              !.real_quote_reserves = @ - fill.total]

Sell(seller, m, base_amount, min_quote_amount) ==
    LET vault   == pool_pda(m)
        fill    == SellFill(pool[m], mainState.trading_fee, base_amount)
        given   == Transfer(balance, m, seller, vault, fill.base)
        feePaid == Transfer(given, QuoteMint, vault, mainState.fee_recipient, fill.fee)
    IN  /\ ASell(seller, m, base_amount)
        /\ base_amount > 0
        /\ ~pool[m].complete
        /\ ReservesFit(pool[m])
        /\ fill.quote >= min_quote_amount
        /\ AfterSell(pool[m], fill) \in PoolState
        /\ Covers(given, QuoteMint, vault, fill.fee)
        /\ Covers(feePaid, QuoteMint, vault, fill.quote)
        /\ ReservesFit(AfterSell(pool[m], fill))
        /\ balance' = Transfer(feePaid, QuoteMint, vault, seller, fill.quote)
        /\ pool' = [pool EXCEPT ![m] = AfterSell(pool[m], fill)]
        /\ UNCHANGED <<mint, mainState>>

-----------------------------------------------------------------------------
(* withdraw                                                                  *)
AWithdraw(withdrawer, m) ==
    /\ mainState.exists
    /\ mainState.withdrawer = withdrawer
    /\ pool[m].exists
    /\ atas' = atas \cup {<<m, withdrawer>>, <<QuoteMint, withdrawer>>}

(* The require! that stands for "not withdrawn yet" (withdraw.rs:26).        *)
NotWithdrawn(p) == p.real_base_reserves > 0 /\ p.real_quote_reserves > 0

(* Mutant: the curve is open again after the withdrawal.                     *)
AfterWithdrawReopened(p) ==
    [p EXCEPT !.real_base_reserves = 0, !.real_quote_reserves = 0, !.complete = FALSE]

(* Nothing is left; the flag stays (withdraw.rs:71-72).                      *)
AfterWithdraw(p) == [p EXCEPT !.real_base_reserves = 0, !.real_quote_reserves = 0]

Withdraw(withdrawer, m) ==
    LET vault   == pool_pda(m)
        p       == pool[m]
        baseOut == Transfer(balance, m, vault, withdrawer, p.real_base_reserves)
    IN  /\ AWithdraw(withdrawer, m)
        /\ p.complete
        /\ NotWithdrawn(p)
        /\ Covers(balance, m, vault, p.real_base_reserves)
        /\ Covers(baseOut, QuoteMint, vault, p.real_quote_reserves)
        /\ balance' = Transfer(baseOut, QuoteMint, vault, withdrawer, p.real_quote_reserves)
        /\ pool' = [pool EXCEPT ![m] = AfterWithdraw(p)]
        /\ UNCHANGED <<mint, mainState>>

-----------------------------------------------------------------------------
PoolNext ==
    \/ \E u \in Users, m \in BaseMints : CreatePool(u, m)
    \/ \E u \in Users, m \in BaseMints, q \in QuoteAmounts, min \in MinOutputs :
           BuyTokensFromExactQuote(u, m, q, min)
    \/ \E u \in Users, m \in BaseMints, b \in BaseAmounts, max \in MaxInputs :
           BuyExactTokensFromQuote(u, m, b, max)
    \/ \E u \in Users, m \in BaseMints, b \in SellAmounts, min \in MinOutputs :
           Sell(u, m, b, min)
    \/ \E u \in Users, m \in BaseMints : Withdraw(u, m)

Next ==
    \/ LedgerNext /\ UNCHANGED <<mainState, pool>>
    \/ MainNext /\ UNCHANGED pool
    \/ PoolNext

Spec == Init /\ [][Next]_vars
=============================================================================
