------------------------------ MODULE EventLog ------------------------------
(* The events of pool/event.rs and main_state/event.rs, as each instruction  *)
(* emits them, and the books of an auditor who reads nothing but this log.   *)
(* A failed transaction changes nothing and its log is not counted, so the   *)
(* events of one step are those of one successful instruction.  Timestamps   *)
(* are left out.                                                             *)
EXTENDS PumpFunProperties, Sequences

VARIABLES
    emitted,  \* the events of the last transaction, in the order of emission
    books     \* what the auditor knows: configuration and pools

logVars == <<vars, emitted, books>>

-----------------------------------------------------------------------------
(* The events.  p and s are the accounts at the point of emission.           *)
MainStateInitialized(s) ==
    [event |-> "MainStateInitialized", owner |-> s.owner, withdrawer |-> s.withdrawer,
     fee_recipient |-> s.fee_recipient, trading_fee |-> s.trading_fee,
     total_supply |-> s.total_supply,
     init_virt_base_reserves |-> s.init_virt_base_reserves,
     init_virt_quote_reserves |-> s.init_virt_quote_reserves,
     real_quote_threshold |-> s.real_quote_threshold]

(* Mutant: the previous owner is read after the assignment.                  *)
OwnershipTransferredLate(previous_owner, new_owner) ==
    [event |-> "OwnershipTransferred", previous_owner |-> new_owner, new_owner |-> new_owner]

OwnershipTransferred(previous_owner, new_owner) ==
    [event |-> "OwnershipTransferred", previous_owner |-> previous_owner,
     new_owner |-> new_owner]

(* The optional terms fall back on the state already updated.                *)
MainStateUpdated(input, s) ==
    [event |-> "MainStateUpdated", withdrawer |-> input.withdrawer,
     fee_recipient |-> input.fee_recipient, trading_fee |-> input.trading_fee,
     total_supply |-> OrElse(input.total_supply, s.total_supply),
     init_virt_base_reserves |->
         OrElse(input.init_virt_base_reserves, s.init_virt_base_reserves),
     init_virt_quote_reserves |->
         OrElse(input.init_virt_quote_reserves, s.init_virt_quote_reserves),
     real_quote_threshold |-> OrElse(input.real_quote_threshold, s.real_quote_threshold)]

(* quote_reserves are the virtual ones only.                                 *)
CreateEvent(m, p) ==
    [event |-> "Create", creator |-> p.owner, base_mint |-> m,
     base_reserves |-> BaseReserves(p), quote_reserves |-> p.virt_quote_reserves]

TradeEvent(user, m, p, base_amount, quote_amount, is_buy) ==
    [event |-> "Trade", user |-> user, base_mint |-> m,
     base_amount |-> base_amount, quote_amount |-> quote_amount,
     base_reserves |-> BaseReserves(p), quote_reserves |-> QuoteReserves(p),
     is_buy |-> is_buy]

CompleteEvent(m) == [event |-> "Complete", base_mint |-> m]

(* Mutant: emitted after the reserves were set to zero.                      *)
WithdrawEventOfEmptied(withdrawer, m, p) ==
    [event |-> "Withdraw", withdrawer |-> withdrawer, base_mint |-> m,
     base_amount |-> 0, quote_amount |-> 0]

WithdrawEvent(withdrawer, m, p) ==
    [event |-> "Withdraw", withdrawer |-> withdrawer, base_mint |-> m,
     base_amount |-> p.real_base_reserves, quote_amount |-> p.real_quote_reserves]

-----------------------------------------------------------------------------
(* Mutant: the fee is left out of what the buyer is said to have paid.       *)
BuyEventsWithoutFee(buyer, m, p, fill) ==
    <<TradeEvent(buyer, m, p, fill.base, fill.quote, TRUE)>>
        \o IF p.complete THEN <<CompleteEvent(m)>> ELSE << >>

(* What buy_finalize emits; p is the pool after the buy.                     *)
BuyEvents(buyer, m, p, fill) ==
    <<TradeEvent(buyer, m, p, fill.base, fill.fee + fill.quote, TRUE)>>
        \o IF p.complete THEN <<CompleteEvent(m)>> ELSE << >>

(* Mutant: what the pool paid instead of what the seller received.           *)
SellEventsGross(seller, m, p, fill) ==
    <<TradeEvent(seller, m, p, fill.base, fill.total, FALSE)>>

SellEvents(seller, m, p, fill) ==
    <<TradeEvent(seller, m, p, fill.base, fill.quote, FALSE)>>

-----------------------------------------------------------------------------
(* The auditor.  His configuration has the fields of main_state; of a pool   *)
(* he keeps the phase, the creator and the two sides of the curve, which the *)
(* log gives as totals after every trade and as differences on withdrawal.   *)
UnknownPool == [phase |-> "unlisted", owner |-> DEFAULT_OWNER, base |-> 0, quote |-> 0]

BooksInit ==
    /\ emitted = << >>
    /\ books = [main |-> mainState, pools |-> [m \in BaseMints |-> UnknownPool]]

ConfigurationOf(e, owner) ==
    [exists |-> TRUE, owner |-> owner, withdrawer |-> e.withdrawer,
     fee_recipient |-> e.fee_recipient, trading_fee |-> e.trading_fee,
     total_supply |-> e.total_supply,
     init_virt_base_reserves |-> e.init_virt_base_reserves,
     init_virt_quote_reserves |-> e.init_virt_quote_reserves,
     real_quote_threshold |-> e.real_quote_threshold]

(* A pool's entry after one event about it.                                  *)
Entry(entry, e) ==
    CASE e.event = "Create" ->
            [phase |-> "trading", owner |-> e.creator,
             base |-> e.base_reserves, quote |-> e.quote_reserves]
      [] e.event = "Trade" ->
            [entry EXCEPT !.base = e.base_reserves, !.quote = e.quote_reserves]
      [] e.event = "Complete" -> [entry EXCEPT !.phase = "complete"]
      [] e.event = "Withdraw" ->
            [entry EXCEPT !.phase = "withdrawn",
                          !.base = @ - e.base_amount, !.quote = @ - e.quote_amount]

ReadEvent(b, e) ==
    CASE e.event = "MainStateInitialized" ->
            [b EXCEPT !.main = ConfigurationOf(e, e.owner)]
      [] e.event = "OwnershipTransferred" -> [b EXCEPT !.main.owner = e.new_owner]
      [] e.event = "MainStateUpdated" ->
            [b EXCEPT !.main = ConfigurationOf(e, b.main.owner)]
      [] OTHER -> [b EXCEPT !.pools[e.base_mint] = Entry(@, e)]

(* No instruction emits more than two events.                                *)
ReadAll(b, events) ==
    IF Len(events) = 0 THEN b
    ELSE IF Len(events) = 1 THEN ReadEvent(b, events[1])
    ELSE ReadEvent(ReadEvent(b, events[1]), events[2])

Emit(events) == emitted' = events /\ books' = ReadAll(books, events)

-----------------------------------------------------------------------------
(* Each instruction with the events it emits.                                *)
LogInitMainState(owner) ==
    /\ InitMainState(owner)
    /\ UNCHANGED pool
    /\ Emit(<<MainStateInitialized(mainState')>>)

LogTransferOwnership(owner, new_owner) ==
    /\ TransferOwnership(owner, new_owner)
    /\ UNCHANGED pool
    /\ Emit(<<OwnershipTransferred(mainState.owner, new_owner)>>)

LogUpdateMainState(owner, input) ==
    /\ UpdateMainState(owner, input)
    /\ UNCHANGED pool
    /\ Emit(<<MainStateUpdated(input, mainState')>>)

LogCreatePool(creator, m) ==
    /\ CreatePool(creator, m)
    /\ Emit(<<CreateEvent(m, pool'[m])>>)

LogExactQuoteBuy(buyer, m, quote_amount, min_base_amount) ==
    /\ BuyTokensFromExactQuote(buyer, m, quote_amount, min_base_amount)
    /\ Emit(BuyEvents(buyer, m, pool'[m],
                ExactQuoteFill(pool[m], mainState.trading_fee, quote_amount)))

LogExactBaseBuy(buyer, m, base_amount, max_quote_amount) ==
    /\ BuyExactTokensFromQuote(buyer, m, base_amount, max_quote_amount)
    /\ Emit(BuyEvents(buyer, m, pool'[m],
                ExactBaseFill(pool[m], mainState.trading_fee, base_amount)))

LogSell(seller, m, base_amount, min_quote_amount) ==
    /\ Sell(seller, m, base_amount, min_quote_amount)
    /\ Emit(SellEvents(seller, m, pool'[m],
                SellFill(pool[m], mainState.trading_fee, base_amount)))

(* The event is emitted before the reserves are set to zero.                 *)
LogWithdraw(withdrawer, m) ==
    /\ Withdraw(withdrawer, m)
    /\ Emit(<<WithdrawEvent(withdrawer, m, pool[m])>>)

(* The token program's own transactions carry none of these events.          *)
Silent == LedgerNext /\ UNCHANGED <<mainState, pool>> /\ Emit(<< >>)

LogInit == Init /\ BooksInit

LogNext ==
    \/ Silent
    \/ \E u \in Users : LogInitMainState(u)
    \/ \E u \in Users, v \in NewOwners : LogTransferOwnership(u, v)
    \/ \E u \in Users, input \in UpdateInputs : LogUpdateMainState(u, input)
    \/ \E u \in Users, m \in BaseMints : LogCreatePool(u, m)
    \/ \E u \in Users, m \in BaseMints, q \in QuoteAmounts, min \in MinOutputs :
           LogExactQuoteBuy(u, m, q, min)
    \/ \E u \in Users, m \in BaseMints, b \in BaseAmounts, max \in MaxInputs :
           LogExactBaseBuy(u, m, b, max)
    \/ \E u \in Users, m \in BaseMints, b \in SellAmounts, min \in MinOutputs :
           LogSell(u, m, b, min)
    \/ \E u \in Users, m \in BaseMints : LogWithdraw(u, m)

LogSpec == LogInit /\ [][LogNext]_logVars

-----------------------------------------------------------------------------
(* The log alone rebuilds the accounts: whoever read every event knows the   *)
(* configuration, and of each pool the phase, the creator and both sides of  *)
(* the curve, also after the withdrawal, whose event gives only amounts      *)
(* (withdraw.rs:62 before withdraw.rs:71) and though create_pool reports the *)
(* virtual quote reserves only (create_pool.rs:66).                          *)
BooksMatch ==
    /\ books.main = mainState
    /\ \A m \in BaseMints :
         /\ books.pools[m].phase = Phase(pool[m])
         /\ pool[m].exists =>
              /\ books.pools[m].owner = pool[m].owner
              /\ books.pools[m].base = BaseReserves(pool[m])
              /\ books.pools[m].quote = QuoteReserves(pool[m])

Events(kind) == {emitted[i] : i \in {j \in DOMAIN emitted : emitted[j].event = kind}}

(* Consecutive events of a pool add up, fee included: a buy moves the base   *)
(* side by base_amount and the quote side by quote_amount less the fee, at   *)
(* the rate the log last announced, of exactly that quote_amount; a sell     *)
(* takes from the quote side what, less its fee, the seller received.  The   *)
(* payment of a cut buy and of an exact-base buy is recomputed through two   *)
(* divisions, so this is not the fee's definition (buy.rs:66, sell.rs:87).   *)
TradeAddsUp(e, entry, trading_fee) ==
    IF e.is_buy
    THEN /\ entry.base - e.base_amount = e.base_reserves
         /\ e.quote_reserves - entry.quote = NetOfFee(trading_fee, e.quote_amount)
    ELSE /\ entry.base + e.base_amount = e.base_reserves
         /\ NetOfFee(trading_fee, entry.quote - e.quote_reserves) = e.quote_amount

TradesAddUp ==
    [][\A e \in Events("Trade")' :
         TradeAddsUp(e, books.pools[e.base_mint], books.main.trading_fee)]_logVars

(* A trade's event tells what its user really paid and received, unless the  *)
(* user is the fee recipient and pays the fee to himself.                    *)
EventsTellThePayments ==
    [][\A e \in Events("Trade")' :
         LET sign == IF e.is_buy THEN 1 ELSE -1
         IN  e.user # mainState.fee_recipient =>
                /\ Paid(QuoteMint, e.user) = sign * e.quote_amount
                /\ Received(e.base_mint, e.user) = sign * e.base_amount]_logVars

(* Events come in an order the auditor can follow: one Create, then trades,  *)
(* Complete once and right after the buy that filled the curve, then one     *)
(* Withdraw and nothing more; every transfer of ownership starts from the    *)
(* owner the log named last (transfer_ownership.rs:21, buy.rs:74-83).        *)
LogIsInOrder ==
    [][/\ \A e \in Events("Create")' : books.pools[e.base_mint].phase = "unlisted"
       /\ \A e \in Events("Trade")' : books.pools[e.base_mint].phase = "trading"
       /\ \A e \in Events("Complete")' :
            /\ books.pools[e.base_mint].phase = "trading"
            /\ \E t \in Events("Trade")' : t.base_mint = e.base_mint /\ t.is_buy
       /\ \A e \in Events("Withdraw")' : books.pools[e.base_mint].phase = "complete"
       /\ \A e \in Events("OwnershipTransferred")' :
            e.previous_owner = books.main.owner]_logVars
=============================================================================
