------------------------- MODULE PumpFunProperties -------------------------
(* What must be true of the bonding curves, whatever is submitted and in     *)
(* whatever order transactions land.                                         *)
EXTENDS PumpFun

Vault(token, m) == balance[token][pool_pda(m)]

Trading(m) == pool[m].exists /\ ~pool[m].complete
Withdrawn(p) == p.complete /\ p.real_base_reserves = 0 /\ p.real_quote_reserves = 0

(* Constant product of a pool.                                               *)
Product(p) == BaseReserves(p) * QuoteReserves(p)

-----------------------------------------------------------------------------
(* Every account holds values of its Rust type; the configuration keeps a    *)
(* fee of at most MAX_TRADING_FEE and terms above zero.                      *)
TypeOK ==
    /\ LedgerTypeOK
    /\ mainState \in MainStateAccount
    /\ pool \in [BaseMints -> PoolState]

(* A pool never records reserves its vaults do not hold: real_base_reserves  *)
(* and real_quote_reserves are bookkeeping, moved before the CPI transfers   *)
(* (buy.rs:122, sell.rs:41), and withdraw pays by them.                      *)
VaultsBacked ==
    \A m \in BaseMints : pool[m].exists =>
        /\ Vault(m, m) >= pool[m].real_base_reserves
        /\ Vault(QuoteMint, m) >= pool[m].real_quote_reserves

(* pool/state.rs:14-16: a curve is complete exactly when it holds its own    *)
(* threshold, not one unit beyond and not one short, until it is withdrawn.  *)
CompletesAtThreshold ==
    \A m \in BaseMints : pool[m].exists =>
        IF pool[m].complete
        THEN \/ Withdrawn(pool[m])
             \/ pool[m].real_quote_reserves = pool[m].real_quote_threshold
        ELSE pool[m].real_quote_reserves < pool[m].real_quote_threshold

(* Tokens sit in accounts that exist: every instruction that pays somebody   *)
(* makes sure of the receiver's ATA, which may have been closed since.       *)
FundsAreInOpenAccounts ==
    \A token \in Mints, h \in Holders :
        balance[token][h] > 0 => <<token, h>> \in atas

-----------------------------------------------------------------------------
(* A listed token's supply never grows again: create_pool takes all of it    *)
(* and accepts no mint that still has an authority (create_pool.rs:28-31).   *)
ListedSupplyNeverGrows ==
    [][\A m \in BaseMints : pool[m].exists => mint'[m].supply <= mint[m].supply]_vars

(* What an action takes from, or gives to, a holder.                         *)
Paid(token, u) == balance[token][u] - balance'[token][u]
Received(token, u) == balance'[token][u] - balance[token][u]

(* buy_tokens_from_exact_quote never takes more than quote_amount, also when *)
(* it is cut and the payment recomputed, and gives at least min_base_amount. *)
ExactQuoteBuyKeepsItsLimits ==
    [][\A u \in Users, m \in BaseMints, q \in QuoteAmounts, min \in MinOutputs :
         BuyTokensFromExactQuote(u, m, q, min) =>
             Paid(QuoteMint, u) <= q /\ Received(m, u) >= min]_vars

(* buy_exact_tokens_from_quote never takes more than max_quote_amount, fee   *)
(* included, and never gives more than the base_amount asked for.            *)
ExactBaseBuyKeepsItsLimits ==
    [][\A u \in Users, m \in BaseMints, b \in BaseAmounts, max \in MaxInputs :
         BuyExactTokensFromQuote(u, m, b, max) =>
             Paid(QuoteMint, u) <= max /\ Received(m, u) <= b]_vars

(* What a pool's vaults hold beyond its books.                               *)
UnbookedBase(m) == Vault(m, m) - pool[m].real_base_reserves
UnbookedQuote(m) == Vault(QuoteMint, m) - pool[m].real_quote_reserves

(* A trade or a withdrawal moves in the vaults what it books, no less and no *)
(* more: withdraw pays by the books, so what came in unbooked could never    *)
(* leave.  Only fees paid to a pool's address and donations are unbooked,    *)
(* and no trade, of this pool or another, ever pays anybody out of them      *)
(* (buy.rs:28-58, buy.rs:122-123, sell.rs:41-76, withdraw.rs:32-72).         *)
VaultsMoveAsBooked ==
    [][\A m \in BaseMints : pool[m].exists =>
         /\ UnbookedBase(m)' >= UnbookedBase(m)
         /\ UnbookedQuote(m)' >= UnbookedQuote(m)
         /\ pool'[m] # pool[m] =>
              /\ UnbookedBase(m)' = UnbookedBase(m)
              /\ mainState.fee_recipient # pool_pda(m) =>
                     UnbookedQuote(m)' = UnbookedQuote(m)]_vars

(* No step lets the product of the reserves fall by a quote unit times the   *)
(* base side: that much at most is what the exact-base buy gives away when   *)
(* it rounds its price down (pool/state.rs:70-94).                           *)
ProductLossIsBounded ==
    [][\A m \in BaseMints :
         pool[m].exists /\ ~Withdrawn(pool'[m]) =>
             Product(pool'[m]) + BaseReserves(pool'[m]) > Product(pool[m])]_vars

(* Without the exact-base buy the product never falls at all.                *)
ProductNeverFalls ==
    [][\A m \in BaseMints :
         pool[m].exists /\ ~Withdrawn(pool'[m]) =>
             Product(pool'[m]) >= Product(pool[m])]_vars

-----------------------------------------------------------------------------
(* Everything sold so far can be sold back, in one sell or in several: the   *)
(* payout for any part of the base tokens in circulation is covered by the   *)
(* quote the pool holds, so no sell stops at the subtraction of sell.rs:42.  *)
CirculatingTokensCanBeSoldBack ==
    \A m \in BaseMints : Trading(m) =>
        \A amount \in 0 .. (mint[m].supply - Vault(m, m)) :
            compute_receivable_amount_on_sell(pool[m], amount)
                <= pool[m].real_quote_reserves

(* The same for one holder: tests/pump_fun.ts:93 sells out what was bought   *)
(* and expects the transaction to succeed.                                   *)
HolderCanSellOut ==
    \A m \in BaseMints, u \in Users : Trading(m) =>
        compute_receivable_amount_on_sell(pool[m], balance[m][u])
            <= pool[m].real_quote_reserves

(* The buy that would fill the curve is one the pool can deliver: otherwise  *)
(* every attempt aborts at buy.rs:123 and the curve never completes.         *)
CurveCanBeFilled ==
    \A m \in BaseMints : Trading(m) =>
        compute_receivable_amount_on_buy(pool[m], Headroom(pool[m]))
            <= pool[m].real_base_reserves

(* A complete curve that still holds quote passes withdraw's test for "not   *)
(* withdrawn yet" (withdraw.rs:15, withdraw.rs:26).                          *)
CompleteCurveCanBeWithdrawn ==
    \A m \in BaseMints :
        pool[m].complete /\ pool[m].real_quote_reserves > 0 => NotWithdrawn(pool[m])

-----------------------------------------------------------------------------
(* Each pool implements AbstractCurve.                                       *)
Phase(p) ==
    IF ~p.exists THEN "unlisted"
    ELSE IF ~p.complete THEN "trading"
    ELSE IF Withdrawn(p) THEN "withdrawn" ELSE "complete"

Curve(m) == INSTANCE AbstractCurve WITH
    phase <- Phase(pool[m]),
    raised <- pool[m].real_quote_reserves,
    goal <- pool[m].real_quote_threshold
=============================================================================
