---------------------------- MODULE TxExecution ----------------------------
(* How the runtime executes the program's instructions, from inside.         *)
(*                                                                           *)
(* A transaction locks the accounts its Accounts struct declares, "mut" and  *)
(* "init" ones for writing, the others for reading, and runs on a copy of    *)
(* them: account constraints, the handler up to its first CPI, one CPI       *)
(* transfer after another, and the rest of the handler, after which only the *)
(* accounts declared mut are written back.  Any step may fail, the compute   *)
(* budget may run out before any step, and then the copy is dropped.         *)
(* Several transactions run side by side when their locks allow it.          *)
(*                                                                           *)
(* PumpFun has the same instructions as single steps: this module is meant   *)
(* to implement it.                                                          *)
EXTENDS PumpFunProperties, Sequences

CONSTANTS
    Slots,          \* transactions the runtime executes at a time
    FeeRecipients   \* fee recipients a submitter names in a trade

ASSUME TxAssumption == FeeRecipients \subseteq Holders

VARIABLE tx   \* tx[s]: what slot s executes, or how its last transaction ended

txVars == <<vars, tx>>

(* The program's state as a transaction's copy w has it.                     *)
Copy == [balance |-> balance, atas |-> atas, mint |-> mint,
         mainState |-> mainState, pool |-> pool]
On(w) == INSTANCE PumpFun WITH
    balance <- w.balance, atas <- w.atas, mint <- w.mint,
    mainState <- w.mainState, pool <- w.pool

Idle == [stage |-> "idle"]

-----------------------------------------------------------------------------
(* Instructions as they are submitted.                                       *)
Buys == {"buy_tokens_from_exact_quote", "buy_exact_tokens_from_quote"}
Trades == Buys \cup {"sell"}

TradesOf(op, amounts, limits) ==
    [op : {op}, user : Users, m : BaseMints, amount : amounts, limit : limits,
     fee_recipient : FeeRecipients]

Instructions ==
    TradesOf("buy_tokens_from_exact_quote", QuoteAmounts, MinOutputs)
    \cup TradesOf("buy_exact_tokens_from_quote", BaseAmounts, MaxInputs)
    \cup TradesOf("sell", SellAmounts, MinOutputs)
    \cup [op : {"create_pool", "withdraw"}, user : Users, m : BaseMints]
    \cup [op : {"init_main_state"}, user : Users]
    \cup [op : {"transfer_ownership"}, user : Users, new_owner : NewOwners]
    \cup [op : {"update_main_state"}, user : Users, input : UpdateInputs]

-----------------------------------------------------------------------------
(* Accounts, as the Accounts structs declare them.                           *)
Ata(token, holder) == <<"ata", token, holder>>
Wallet(holder) == <<"wallet", holder>>
MintOf(token) == <<"mint", token>>
PoolOf(m) == <<"pool", m>>
TheMainState == <<"main_state">>
Vaults(m) == {Ata(m, pool_pda(m)), Ata(QuoteMint, pool_pda(m))}

(* Mutant: a trade's pool_state is not mut.                                  *)
WritesWithoutPool(ix) ==
    {Wallet(ix.user)} \cup
    IF ix.op \in Trades
    THEN Vaults(ix.m) \cup {Ata(QuoteMint, ix.fee_recipient),
                            Ata(ix.m, ix.user), Ata(QuoteMint, ix.user)}
    ELSE IF ix.op = "create_pool"
    THEN Vaults(ix.m) \cup {PoolOf(ix.m), Ata(ix.m, ix.user)}
    ELSE IF ix.op = "withdraw"
    THEN Vaults(ix.m) \cup {PoolOf(ix.m), MintOf(ix.m), MintOf(QuoteMint),
                            Ata(ix.m, ix.user), Ata(QuoteMint, ix.user)}
    ELSE IF ix.op = "init_main_state" THEN {TheMainState, Ata(QuoteMint, ix.user)}
    ELSE IF ix.op = "update_main_state"
    THEN {TheMainState, Ata(QuoteMint, ix.input.fee_recipient)}
    ELSE {TheMainState}

(* mut, init, init_if_needed.  withdraw declares both mints mut.             *)
Writes(ix) ==
    {Wallet(ix.user)} \cup
    CASE ix.op \in Trades ->
           Vaults(ix.m) \cup {PoolOf(ix.m), Ata(QuoteMint, ix.fee_recipient),
                              Ata(ix.m, ix.user), Ata(QuoteMint, ix.user)}
      [] ix.op = "create_pool" -> Vaults(ix.m) \cup {PoolOf(ix.m), Ata(ix.m, ix.user)}
      [] ix.op = "withdraw" ->
           Vaults(ix.m) \cup {PoolOf(ix.m), MintOf(ix.m), MintOf(QuoteMint),
                              Ata(ix.m, ix.user), Ata(QuoteMint, ix.user)}
      [] ix.op = "init_main_state" -> {TheMainState, Ata(QuoteMint, ix.user)}
      [] ix.op = "transfer_ownership" -> {TheMainState}
      [] ix.op = "update_main_state" ->
           {TheMainState, Ata(QuoteMint, ix.input.fee_recipient)}

Reads(ix) ==
    CASE ix.op \in Trades ->
           {TheMainState, MintOf(ix.m), MintOf(QuoteMint), Wallet(ix.fee_recipient)}
      [] ix.op = "create_pool" -> {TheMainState, MintOf(ix.m), MintOf(QuoteMint)}
      [] ix.op = "withdraw" -> {TheMainState}
      [] ix.op = "init_main_state" -> {MintOf(QuoteMint)}
      [] ix.op = "transfer_ownership" -> {}
      [] ix.op = "update_main_state" ->
           {MintOf(QuoteMint), Wallet(ix.input.fee_recipient)}

Running(s) == tx[s].stage \notin {"idle", "failed"}
Locked == UNION {Writes(tx[s].ix) \cup Reads(tx[s].ix) : s \in {r \in Slots : Running(r)}}

(* Mutant: accounts that are only read are not locked.                       *)
CompatibleWhenWritten(one, other) == Writes(one) \cap Writes(other) = {}

(* Two instructions may run side by side: neither writes what the other uses.*)
Compatible(one, other) ==
    /\ Writes(one) \cap (Writes(other) \cup Reads(other)) = {}
    /\ Writes(other) \cap Reads(one) = {}

-----------------------------------------------------------------------------
(* The token accounts an instruction creates: with init, or when missing.    *)
Inits(ix) ==
    CASE ix.op = "create_pool" ->
           {<<ix.m, pool_pda(ix.m)>>, <<QuoteMint, pool_pda(ix.m)>>}
      [] ix.op = "init_main_state" -> {<<QuoteMint, ix.user>>}
      [] OTHER -> {}

InitsIfNeeded(ix) ==
    CASE ix.op \in Buys ->
           {<<QuoteMint, ix.fee_recipient>>, <<ix.m, ix.user>>, <<QuoteMint, ix.user>>}
      [] ix.op = "sell" -> {<<QuoteMint, ix.fee_recipient>>, <<QuoteMint, ix.user>>}
      [] ix.op = "withdraw" -> {<<ix.m, ix.user>>, <<QuoteMint, ix.user>>}
      [] ix.op = "update_main_state" -> {<<QuoteMint, ix.input.fee_recipient>>}
      [] OTHER -> {}

(* The constraints of the Accounts structs.                                  *)
OnPool(ix) == "m" \in DOMAIN ix
SellerCovers(ix, w) == Covers(w.balance, ix.m, ix.user, ix.amount)
AccountsHold(ix, w) ==
    /\ w.mainState.exists = (ix.op # "init_main_state")
    /\ OnPool(ix) => w.pool[ix.m].exists = (ix.op # "create_pool")
    /\ Inits(ix) \cap w.atas = {}
    /\ ix.op \in Trades => w.mainState.fee_recipient = ix.fee_recipient
    /\ ix.op \in {"sell", "create_pool"} => <<ix.m, ix.user>> \in w.atas
    /\ ix.op = "withdraw" => w.mainState.withdrawer = ix.user
    /\ ix.op \in {"transfer_ownership", "update_main_state"} =>
           w.mainState.owner = ix.user

AccountError(ix, w) ==
    IF ix.op = "init_main_state" /\ ix.user # DEFAULT_OWNER THEN "Unauthorised"
    ELSE IF ~AccountsHold(ix, w) THEN "ConstraintViolated"
    ELSE IF ix.op = "sell" /\ ~SellerCovers(ix, w) THEN "InsufficientFund"
    ELSE "none"

-----------------------------------------------------------------------------
(* The handlers up to their first CPI, in the order of their checks.         *)
(* "Overflow" is a checked operation that aborts.                            *)
Fill(ix, w) ==
    LET p == w.pool[ix.m]
        fee == w.mainState.trading_fee
    IN  CASE ix.op = "buy_tokens_from_exact_quote" -> ExactQuoteFill(p, fee, ix.amount)
          [] ix.op = "buy_exact_tokens_from_quote" -> ExactBaseFill(p, fee, ix.amount)
          [] ix.op = "sell" -> SellFill(p, fee, ix.amount)

ExactQuoteError(ix, w, p) ==
    IF ix.amount = 0 THEN "WrongQuoteAmount"
    ELSE IF p.complete THEN "BondingCurveComplete"
    ELSE IF ~(/\ p.real_quote_reserves
                     + NetOfFee(w.mainState.trading_fee, ix.amount) \in U64
              /\ Headroom(p) \in U64
              /\ ReservesFit(p)) THEN "Overflow"
    ELSE IF Fill(ix, w).base < ix.limit THEN "TooFewOutputTokens"
    ELSE IF AfterBuy(p, Fill(ix, w)) \notin PoolState THEN "Overflow" ELSE "none"

ExactBaseError(ix, w, p) ==
    IF p.complete THEN "BondingCurveComplete"
    ELSE IF ix.amount = 0 \/ ix.amount > p.real_base_reserves THEN "WrongBaseAmount"
    ELSE IF ~(/\ ReservesFit(p)
              /\ p.real_quote_reserves
                     + compute_required_amount_on_buy(p, ix.amount) \in U64
              /\ Headroom(p) \in U64) THEN "Overflow"
    ELSE IF ~WithinMaximum(Fill(ix, w), ix.limit) THEN "TooMuchInputQuote"
    ELSE IF AfterBuy(p, Fill(ix, w)) \notin PoolState THEN "Overflow" ELSE "none"

SellError(ix, w, p) ==
    IF ix.amount = 0 THEN "WrongBaseAmount"
    ELSE IF p.complete THEN "BondingCurveComplete"
    ELSE IF ~ReservesFit(p) THEN "Overflow"
    ELSE IF Fill(ix, w).quote < ix.limit THEN "TooLowOutputQuote"
    ELSE IF AfterSell(p, Fill(ix, w)) \notin PoolState THEN "Overflow" ELSE "none"

WithdrawError(p) ==
    IF ~p.complete THEN "BondingCurveIncomplete"
    ELSE IF ~NotWithdrawn(p) THEN "BondingCurveAlreadyWithdrawn" ELSE "none"

CreateError(ix, w) ==
    LET amount == w.balance[ix.m][ix.user]
    IN  IF amount # w.mint[ix.m].supply \/ amount # w.mainState.total_supply
        THEN "WrongBaseAmountOnCreation"
        ELSE IF w.mint[ix.m].mint_authority THEN "BaseTokenMustNotBeMintable"
        ELSE IF w.mint[ix.m].freeze_authority THEN "BaseTokenMustNotBeFreezable"
        ELSE "none"

UpdateError(input) ==
    IF input.trading_fee > MAX_TRADING_FEE THEN "InvalidFee"
    ELSE IF ~Acceptable(input.total_supply) THEN "InvalidTotalSupply"
    ELSE IF ~Acceptable(input.init_virt_base_reserves) THEN "InvalidInitVirtBaseReserves"
    ELSE IF ~Acceptable(input.init_virt_quote_reserves) THEN "InvalidInitVirtQuoteReserves"
    ELSE IF ~Acceptable(input.real_quote_threshold) THEN "InvalidRealQuoteThreshold"
    ELSE "none"

HandlerError(ix, w) ==
    CASE ix.op = "buy_tokens_from_exact_quote" -> ExactQuoteError(ix, w, w.pool[ix.m])
      [] ix.op = "buy_exact_tokens_from_quote" -> ExactBaseError(ix, w, w.pool[ix.m])
      [] ix.op = "sell" -> SellError(ix, w, w.pool[ix.m])
      [] ix.op = "withdraw" -> WithdrawError(w.pool[ix.m])
      [] ix.op = "create_pool" -> CreateError(ix, w)
      [] ix.op = "transfer_ownership" ->
           IF w.mainState.owner = ix.new_owner THEN "AlreadyBecameOwner" ELSE "none"
      [] ix.op = "update_main_state" -> UpdateError(ix.input)
      [] OTHER -> "none"

(* What the handler has assigned when its first CPI is due.  A buy sets      *)
(* "complete" and a withdrawal its zeros only after the transfers.           *)
BookedPool(ix, w) ==
    LET p == w.pool[ix.m]
    IN  CASE ix.op \in Buys -> [AfterBuy(p, Fill(ix, w)) EXCEPT !.complete = p.complete]
          [] ix.op = "sell" -> AfterSell(p, Fill(ix, w))
          [] ix.op = "create_pool" -> On(w)!NewPool(ix.user)
          [] ix.op = "withdraw" -> p

UpdatedMainState(ix, w) ==
    CASE ix.op = "init_main_state" -> DefaultMainState
      [] ix.op = "transfer_ownership" -> [w.mainState EXCEPT !.owner = ix.new_owner]
      [] ix.op = "update_main_state" ->
           [w.mainState EXCEPT
               !.withdrawer = ix.input.withdrawer,
               !.fee_recipient = ix.input.fee_recipient,
               !.trading_fee = ix.input.trading_fee,
               !.total_supply = OrElse(ix.input.total_supply, @),
               !.init_virt_base_reserves = OrElse(ix.input.init_virt_base_reserves, @),
               !.init_virt_quote_reserves = OrElse(ix.input.init_virt_quote_reserves, @),
               !.real_quote_threshold = OrElse(ix.input.real_quote_threshold, @)]

Booked(ix, w) ==
    IF OnPool(ix) THEN [w EXCEPT !.pool[ix.m] = BookedPool(ix, w)]
    ELSE [w EXCEPT !.mainState = UpdatedMainState(ix, w)]

(* The CPI transfers, in order.                                              *)
Move(token, from, to, amount) ==
    [token |-> token, from |-> from, to |-> to, amount |-> amount]

Transfers(ix, w) ==
    LET vault == pool_pda(ix.m)
        fill == Fill(ix, w)
        fee == ix.fee_recipient
    IN  CASE ix.op \in Buys ->
               <<Move(QuoteMint, ix.user, fee, fill.fee),
                 Move(QuoteMint, ix.user, vault, fill.quote),
                 Move(ix.m, vault, ix.user, fill.base)>>
          [] ix.op = "sell" ->
               <<Move(ix.m, ix.user, vault, fill.base),
                 Move(QuoteMint, vault, fee, fill.fee),
                 Move(QuoteMint, vault, ix.user, fill.quote)>>
          [] ix.op = "create_pool" ->
               <<Move(ix.m, ix.user, vault, w.balance[ix.m][ix.user])>>
          [] ix.op = "withdraw" ->
               <<Move(ix.m, vault, ix.user, w.pool[ix.m].real_base_reserves),
                 Move(QuoteMint, vault, ix.user, w.pool[ix.m].real_quote_reserves)>>
          [] OTHER -> << >>

(* The rest of the handler, after the transfers: the sums of the events, the *)
(* flag, the zeros.  A buy's event adds the fee and the input it still has.  *)
Spent(ix, w) == IF ix.op \in Buys THEN Fill(ix, w).fee + Fill(ix, w).quote ELSE 0

EventsFit(ix, w, spent) ==
    /\ spent \in U64
    /\ ix.op \in Trades \cup {"create_pool"} => ReservesFit(w.pool[ix.m])

SettledPool(ix, p) ==
    CASE ix.op \in Buys ->
           [p EXCEPT !.complete = p.real_quote_reserves >= p.real_quote_threshold]
      [] ix.op = "withdraw" -> AfterWithdraw(p)
      [] OTHER -> p

Settled(ix, w) ==
    IF OnPool(ix) THEN [w EXCEPT !.pool[ix.m] = SettledPool(ix, @)] ELSE w

-----------------------------------------------------------------------------
(* Execution.                                                                *)
Begin(s, ix) ==
    /\ ~Running(s)
    /\ \A r \in Slots \ {s} : Running(r) => Compatible(ix, tx[r].ix)
    /\ tx' = [tx EXCEPT ![s] =
           [stage |-> "accounts", ix |-> ix, copy |-> Copy, todo |-> << >>, spent |-> 0]]
    /\ UNCHANGED vars

(* A failed transaction: nothing of the copy is kept, only what the trader   *)
(* was told of which instruction and which curve.                            *)
Submitted(ix) ==
    IF ix.op \in Trades THEN [op |-> ix.op, m |-> ix.m] ELSE [op |-> ix.op]

Fail(s, code) ==
    /\ tx' = [tx EXCEPT ![s] =
           [stage |-> "failed", ix |-> Submitted(tx[s].ix), code |-> code]]
    /\ UNCHANGED vars

CheckAccounts(s) ==
    LET t == tx[s]
        error == AccountError(t.ix, t.copy)
    IN  /\ t.stage = "accounts"
        /\ \/ error # "none" /\ Fail(s, error)
           \/ /\ error = "none"
              /\ tx' = [tx EXCEPT ![s].stage = "handler",
                                  ![s].copy.atas = @ \cup Inits(t.ix) \cup InitsIfNeeded(t.ix)]
              /\ UNCHANGED vars

Handle(s) ==
    LET t == tx[s]
        error == HandlerError(t.ix, t.copy)
    IN  /\ t.stage = "handler"
        /\ \/ error # "none" /\ Fail(s, error)
           \/ /\ error = "none"
              /\ tx' = [tx EXCEPT ![s].stage = "cpi",
                                  ![s].copy = Booked(t.ix, t.copy),
                                  ![s].todo = Transfers(t.ix, t.copy),
                                  ![s].spent = Spent(t.ix, t.copy)]
              /\ UNCHANGED vars

(* Mutant: the result of a transfer is not looked at.                        *)
InvokeUnchecked(s) ==
    LET t == tx[s]
        move == Head(t.todo)
        covered == Covers(t.copy.balance, move.token, move.from, move.amount)
    IN  /\ t.stage = "cpi"
        /\ t.todo # << >>
        /\ tx' = [tx EXCEPT
               ![s].todo = Tail(@),
               ![s].copy.balance =
                   IF covered THEN Transfer(@, move.token, move.from, move.to, move.amount)
                   ELSE @]
        /\ UNCHANGED vars

(* token::transfer(..)?: it fails when the source does not hold the amount,  *)
(* and the handler returns that error.                                       *)
Invoke(s) ==
    LET t == tx[s]
        move == Head(t.todo)
        covered == Covers(t.copy.balance, move.token, move.from, move.amount)
    IN  /\ t.stage = "cpi"
        /\ t.todo # << >>
        /\ \/ ~covered /\ Fail(s, "InsufficientTokens")
           \/ /\ covered
              /\ tx' = [tx EXCEPT
                     ![s].todo = Tail(@),
                     ![s].copy.balance =
                         Transfer(@, move.token, move.from, move.to, move.amount)]
              /\ UNCHANGED vars

(* The handler returns Ok: the accounts declared mut are written back.       *)
Finish(s) ==
    LET t == tx[s]
        w == Settled(t.ix, t.copy)
        written == Writes(t.ix)
    IN  /\ t.stage = "cpi"
        /\ t.todo = << >>
        /\ \/ ~EventsFit(t.ix, t.copy, t.spent) /\ Fail(s, "Overflow")
           \/ /\ EventsFit(t.ix, t.copy, t.spent)
              /\ balance' = [token \in Mints |-> [h \in Holders |->
                     IF Ata(token, h) \in written THEN w.balance[token][h]
                     ELSE balance[token][h]]]
              /\ atas' = {a \in atas : Ata(a[1], a[2]) \notin written}
                         \cup {a \in w.atas : Ata(a[1], a[2]) \in written}
              /\ mainState' = IF TheMainState \in written THEN w.mainState ELSE mainState
              /\ pool' = [m \in BaseMints |->
                     IF PoolOf(m) \in written THEN w.pool[m] ELSE pool[m]]
              /\ UNCHANGED mint
              /\ tx' = [tx EXCEPT ![s] = Idle]

Advance(s) == CheckAccounts(s) \/ Handle(s) \/ Invoke(s) \/ Finish(s)

(* The compute budget (300_000 units in the client) may run out at any step; *)
(* which error that is does not matter here.                                 *)
RunOutOfCompute(s) == Running(s) /\ tx' = [tx EXCEPT ![s] = Idle] /\ UNCHANGED vars

(* Other transactions of the token program keep off the locked accounts.     *)
LedgerStep ==
    /\ LedgerNext
    /\ \A token \in Mints, h \in Holders : Ata(token, h) \in Locked =>
           /\ balance'[token][h] = balance[token][h]
           /\ (<<token, h>> \in atas') = (<<token, h>> \in atas)
    /\ \A m \in BaseMints : MintOf(m) \in Locked => mint'[m] = mint[m]
    /\ UNCHANGED <<mainState, pool, tx>>

TxInit == Init /\ tx = [s \in Slots |-> Idle]

TxNext ==
    \/ \E s \in Slots, ix \in Instructions : Begin(s, ix)
    \/ \E s \in Slots : Advance(s) \/ RunOutOfCompute(s)
    \/ LedgerStep

(* No fairness: that the runtime goes on with what it has begun is its own   *)
(* affair, and nothing in the program waits for it.                          *)
TxSpec == TxInit /\ [][TxNext]_txVars

-----------------------------------------------------------------------------
(* Whatever runs side by side, wherever a transaction fails, and though the  *)
(* reserves are booked before the transfers (buy.rs:122, sell.rs:41) and the *)
(* flag and the zeros are set after them (buy.rs:75, withdraw.rs:71): what   *)
(* becomes of the accounts is one whole instruction of PumpFun after the     *)
(* other.  The locks and the write-back follow the Accounts structs, so this *)
(* also says that each struct declares all its handler relies on.            *)
AppliedAtomically == Spec

(* A transfer out of a vault never fails, also in the middle of a trade when *)
(* the books are already changed and the fee already paid: only the signer's *)
(* own tokens can fall short (sell.rs:58-76, withdraw.rs:38-56).             *)
VaultsCanPay ==
    \A s \in Slots : Running(s) /\ tx[s].todo # << >> =>
        LET move == Head(tx[s].todo)
        IN  move.from \notin Users =>
                Covers(tx[s].copy.balance, move.token, move.from, move.amount)

Failed(s, op, code) ==
    tx[s].stage = "failed" /\ tx[s].ix.op = op /\ tx[s].code = code

(* No trade is stopped by a checked operation: an order that passed its      *)
(* require! checks meets no underflow of the reserves, so a curve of this    *)
(* kind can be bought up and sold back in any order; what still stops a      *)
(* trade is an account constraint, an error of error.rs, the trader's own    *)
(* tokens or the compute budget (buy.rs:123, sell.rs:42).                    *)
TradesNeverPanic == \A s \in Slots, op \in Trades : ~Failed(s, op, "Overflow")

(* What BondingCurveComplete told a trader stays true: the curve is complete *)
(* for good, also once it is withdrawn, and no later order can succeed       *)
(* (buy.rs:102, buy.rs:142, sell.rs:25).                                     *)
CompleteErrorIsFinal ==
    \A s \in Slots, op \in Trades :
        Failed(s, op, "BondingCurveComplete") => pool[tx[s].ix.m].complete
=============================================================================
