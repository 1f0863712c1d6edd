------------------------------- MODULE Client -------------------------------
(* The callers of the program: the TypeScript client of                      *)
(* tests/connectivity/ali_index.ts and the scripts of scripts/*.js.          *)
(*                                                                           *)
(* A session is one client object with its wallet and makes one call at a    *)
(* time: it fetches accounts, one await after the other, computes an         *)
(* instruction or a quote from what it read, submits, and waits.  Between    *)
(* any two of these steps the accounts may change under it.  The network may *)
(* refuse to answer, lose a transaction, or land it after the caller gave up.*)
(*                                                                           *)
(* Amounts are whole numbers of base units, what calcNonDecimalValue makes   *)
(* of an input; quotes are fractions, as the client's numbers are.           *)
EXTENDS PumpFunProperties, Sequences

CONSTANTS
    Sessions,   \* client objects and runs of scripts
    Wallet,     \* the user whose key a session signs with
    Calls,      \* calls a session may make
    MaxCalls    \* bound on the calls of a session

VARIABLES
    call,      \* call[s]: the call a session is in, or the last one it made
    inflight,  \* transactions sent and not yet in a block
    quote      \* quote[s]: the last quote a session got

clientVars == <<vars, call, inflight, quote>>

-----------------------------------------------------------------------------
(* The calls there are, with their arguments: amounts are u64, and an update *)
(* need not give every field.                                                *)
Quotes == {"getOutputAmountOnBuy", "getInputAmountOnBuy", "getOutputAmountOnSell"}
Scripts == {"init_state", "update_state"}

GivenTerms ==
    [withdrawer : Option(Holders), fee_recipient : Option(Holders),
     trading_fee : Option(U64), total_supply : Option(U64),
     init_virt_base_reserves : Option(U64), init_virt_quote_reserves : Option(U64),
     real_quote_threshold : Option(U64)]

CallArguments ==
    [op : Quotes \cup {"buy", "buy2", "sell"}, m : BaseMints, amount : U64]
    \cup [op : {"withdraw", "createPool"}, m : BaseMints]
    \cup [op : {"initMainState", "init_state"}]
    \cup [op : {"transferOwnership"}, new_owner : Holders]
    \cup [op : {"updateMainState"}, given : GivenTerms]
    \cup [op : {"update_state"}, given : UpdateMainStateInput]

ASSUME ClientAssumption ==
    /\ Wallet \in [Sessions -> Users]
    /\ Calls \in [Sessions -> SUBSET CallArguments]
    /\ MaxCalls \in Nat

(* What they fetch, in order.  The fetch of the quote mint, whose decimals   *)
(* never change, is left out: its failure is that of its neighbour.          *)
Fetches(op) ==
    CASE op \in Quotes \cup {"buy", "sell", "withdraw"} -> <<"main", "pool">>
      [] op = "buy2" -> <<"main", "pool", "main", "pool">>  \* its own, then its quote's
      [] op \in {"transferOwnership", "updateMainState"} -> <<"main">>
      [] op \in Scripts \cup {"initMainState", "createPool"} -> << >>

-----------------------------------------------------------------------------
(* Arithmetic: JavaScript numbers, truncated towards zero.                   *)
Trunc(n, d) == IF n >= 0 THEN n \div d ELSE -((-n) \div d)
Fraction(n, d) == [num |-> n, den |-> d]

calculateOutputAmount(inputAmount, inputReserve, outputReserve) ==
    Trunc(outputReserve * inputAmount, inputReserve + inputAmount)

(* Mutant: the reserves swapped.                                             *)
InputOfSwappedReserves(outputAmount, inputReserve, outputReserve) ==
    Trunc(outputReserve * outputAmount, inputReserve + outputAmount)

calculateInputAmount(outputAmount, inputReserve, outputReserve) ==
    Trunc(inputReserve * outputAmount, outputReserve - outputAmount)

(* calculateInputAmount throws.                                              *)
Throws(outputAmount, p) == outputAmount >= BaseReserves(p)

(* Mutant: the fee is forgotten.                                             *)
OutputBeforeFee(amount, main, p) ==
    LET net == IF p.real_quote_reserves + amount > main.real_quote_threshold
               THEN main.real_quote_threshold - p.real_quote_reserves ELSE amount
    IN  Fraction(calculateOutputAmount(net, QuoteReserves(p), BaseReserves(p)), 1)

getOutputAmountOnBuy(amount, main, p) ==
    LET asked == Trunc(amount * (Whole - main.trading_fee), Whole)
        net == IF p.real_quote_reserves + asked > main.real_quote_threshold
               THEN main.real_quote_threshold - p.real_quote_reserves ELSE asked
    IN  Fraction(calculateOutputAmount(net, QuoteReserves(p), BaseReserves(p)), 1)

getInputAmountOnBuy(amount, main, p) ==
    Fraction(calculateInputAmount(amount, QuoteReserves(p), BaseReserves(p)) * Whole,
             Whole - main.trading_fee)

getOutputAmountOnSell(amount, main, p) ==
    Fraction(calculateOutputAmount(amount, BaseReserves(p), QuoteReserves(p))
                 * (Whole - main.trading_fee), Whole)

QuoteFor(op, amount, main, p) ==
    CASE op = "getOutputAmountOnBuy" -> getOutputAmountOnBuy(amount, main, p)
      [] op = "getInputAmountOnBuy" -> getInputAmountOnBuy(amount, main, p)
      [] op = "getOutputAmountOnSell" -> getOutputAmountOnSell(amount, main, p)

-----------------------------------------------------------------------------
(* What a call submits, from what it has seen.                               *)

(* buy2 allows 10 per cent above its quote; a quote that failed counts as 0. *)
MaxQuoteAmount(c, seen) ==
    IF Len(seen) < 4 THEN 0
    ELSE LET q == getInputAmountOnBuy(c.amount, seen[3], seen[4])
         IN  Trunc(q.num * 11, q.den * 10)

(* "if (input.newX)": neither absent nor zero.                               *)
Truthy(n) == n # None /\ n # 0

(* Mutant: terms that are not given are sent back as they were read.         *)
InputFromRead(given, read) ==
    [withdrawer |-> OrElse(given.withdrawer, read.withdrawer),
     fee_recipient |-> OrElse(given.fee_recipient, read.fee_recipient),
     trading_fee |-> IF Truthy(given.trading_fee) THEN given.trading_fee
                     ELSE read.trading_fee,
     total_supply |-> OrElse(given.total_supply, read.total_supply),
     init_virt_base_reserves |->
         OrElse(given.init_virt_base_reserves, read.init_virt_base_reserves),
     init_virt_quote_reserves |->
         OrElse(given.init_virt_quote_reserves, read.init_virt_quote_reserves),
     real_quote_threshold |->
         OrElse(given.real_quote_threshold, read.real_quote_threshold)]

(* The two roles and the fee are written back as read when not given; a term *)
(* is left to the program.                                                   *)
UpdateInput(given, read) ==
    LET Term(n) == IF Truthy(n) THEN n ELSE None
    IN  [withdrawer |-> OrElse(given.withdrawer, read.withdrawer),
         fee_recipient |-> OrElse(given.fee_recipient, read.fee_recipient),
         trading_fee |-> IF Truthy(given.trading_fee) THEN given.trading_fee
                         ELSE read.trading_fee,
         total_supply |-> Term(given.total_supply),
         init_virt_base_reserves |-> Term(given.init_virt_base_reserves),
         init_virt_quote_reserves |-> Term(given.init_virt_quote_reserves),
         real_quote_threshold |-> Term(given.real_quote_threshold)]

Trade(ix, user, c, limit, seen) ==
    [ix |-> ix, user |-> user, m |-> c.m, amount |-> c.amount, limit |-> limit,
     fee_recipient |-> seen[1].fee_recipient]

Instruction(user, c, seen) ==
    CASE c.op = "buy" -> Trade("buy_tokens_from_exact_quote", user, c, 0, seen)
      [] c.op = "buy2" ->
           Trade("buy_exact_tokens_from_quote", user, c, MaxQuoteAmount(c, seen), seen)
      [] c.op = "sell" -> Trade("sell", user, c, 0, seen)
      [] c.op = "withdraw" -> [ix |-> "withdraw", user |-> user, m |-> c.m]
      [] c.op = "createPool" -> [ix |-> "create_pool", user |-> user, m |-> c.m]
      [] c.op \in {"initMainState", "init_state"} ->
           [ix |-> "init_main_state", user |-> user]
      [] c.op = "transferOwnership" ->
           [ix |-> "transfer_ownership", user |-> user, new_owner |-> c.new_owner]
      [] c.op = "updateMainState" ->
           [ix |-> "update_main_state", user |-> user,
            input |-> UpdateInput(c.given, seen[1])]
      [] c.op = "update_state" ->  \* every field, from utils.js and the command line
           [ix |-> "update_main_state", user |-> user, input |-> c.given]

(* The program executes it; the accounts named must be the current ones.     *)
Execute(t) ==
    \/ /\ t.ix = "buy_tokens_from_exact_quote"
       /\ mainState.fee_recipient = t.fee_recipient
       /\ BuyTokensFromExactQuote(t.user, t.m, t.amount, t.limit)
    \/ /\ t.ix = "buy_exact_tokens_from_quote"
       /\ mainState.fee_recipient = t.fee_recipient
       /\ BuyExactTokensFromQuote(t.user, t.m, t.amount, t.limit)
    \/ /\ t.ix = "sell"
       /\ mainState.fee_recipient = t.fee_recipient
       /\ Sell(t.user, t.m, t.amount, t.limit)
    \/ t.ix = "withdraw" /\ Withdraw(t.user, t.m)
    \/ t.ix = "create_pool" /\ CreatePool(t.user, t.m)
    \/ t.ix = "init_main_state" /\ InitMainState(t.user) /\ UNCHANGED pool
    \/ /\ t.ix = "transfer_ownership"
       /\ TransferOwnership(t.user, t.new_owner)
       /\ UNCHANGED pool
    \/ /\ t.ix = "update_main_state"
       /\ UpdateMainState(t.user, t.input)
       /\ UNCHANGED pool

-----------------------------------------------------------------------------
(* The session.  "result" is what the caller gets: Ok, or an error.          *)
NoCall == [phase |-> "returned", n |-> 0, op |-> "none", result |-> "Ok", fate |-> "unknown"]
NoQuote == [op |-> "none"]

Start(s, c) ==
    /\ call[s].phase = "returned"
    /\ call[s].n < MaxCalls
    /\ call' = [call EXCEPT ![s] =
           [phase |-> "running", n |-> @.n + 1, op |-> c.op, c |-> c, seen |-> << >>,
            toFetch |-> Fetches(c.op), result |-> "none", fate |-> "unknown"]]
    /\ UNCHANGED <<vars, inflight, quote>>

Return(s, result) == call' = [call EXCEPT ![s].phase = "returned", ![s].result = result]

(* await program.account.mainState.fetch, ...poolState.fetch: the account as *)
(* it is now, or a failure.  A failure inside buy2's quote comes back to     *)
(* buy2 as an Err it does not look at.                                       *)
Fetch(s) ==
    LET k == call[s]
        what == Head(k.toFetch)
        there == IF what = "main" THEN mainState.exists ELSE pool[k.c.m].exists
    IN  /\ k.phase = "running"
        /\ k.toFetch # << >>
        /\ \/ /\ there
              /\ call' = [call EXCEPT
                     ![s].toFetch = Tail(@),
                     ![s].seen = Append(@, IF what = "main" THEN mainState ELSE pool[k.c.m])]
           \/ IF k.op = "buy2" /\ Len(k.seen) >= 2
              THEN call' = [call EXCEPT ![s].toFetch = << >>]
              ELSE Return(s, IF what = "main" THEN "FAILED_TO_FETCH_DATA"
                             ELSE "POOL_NOT_FOUND")
        /\ UNCHANGED <<vars, inflight, quote>>

Ready(s) == call[s].phase = "running" /\ call[s].toFetch = << >>

(* A quote is computed and returned; it throws on an order for everything.   *)
Answer(s) ==
    LET k == call[s]
    IN  /\ Ready(s)
        /\ k.op \in Quotes
        /\ IF k.op = "getInputAmountOnBuy" /\ Throws(k.c.amount, k.seen[2])
           THEN Return(s, "thrown") /\ UNCHANGED quote
           ELSE /\ Return(s, "Ok")
                /\ quote' = [quote EXCEPT ![s] =
                       [op |-> k.op, m |-> k.c.m, amount |-> k.c.amount,
                        value |-> QuoteFor(k.op, k.c.amount, k.seen[1], k.seen[2]),
                        main |-> k.seen[1], pool |-> k.seen[2]]]
        /\ UNCHANGED <<vars, inflight>>

(* rpc(), sendTransaction: the transaction is simulated first and sent only  *)
(* when that succeeds; the network may fail.  buy2 gets here only when its   *)
(* quote did not throw.                                                      *)
Submit(s) ==
    LET k == call[s]
        tx == Instruction(Wallet[s], k.c, k.seen)
        thrown == k.op = "buy2" /\ Len(k.seen) = 4 /\ Throws(k.c.amount, k.seen[4])
    IN  /\ Ready(s)
        /\ k.op \notin Quotes
        /\ \/ thrown /\ Return(s, "thrown") /\ UNCHANGED inflight
           \/ ~thrown /\ Return(s, "TX_FAILED") /\ UNCHANGED inflight
           \/ /\ ~thrown
              /\ ENABLED Execute(tx)
              /\ inflight' = inflight \cup {[by |-> s, n |-> k.n, tx |-> tx]}
              /\ call' = [call EXCEPT ![s].phase = "waiting"]
        /\ UNCHANGED <<vars, quote>>

(* Mutant: the result in the block is not looked at, as in update_state.js.  *)
ConfirmUnchecked(s) ==
    /\ call[s].phase = "waiting"
    /\ call[s].fate # "unknown"
    /\ Return(s, IF call[s].fate = "expired" THEN "TX_FAILED" ELSE "Ok")
    /\ UNCHANGED <<vars, inflight, quote>>

(* Mutant: only a transaction that executed is ever noticed.                 *)
ConfirmSuccess(s) ==
    /\ call[s].phase = "waiting"
    /\ call[s].fate = "executed"
    /\ Return(s, "Ok")
    /\ UNCHANGED <<vars, inflight, quote>>

(* The confirmation: rpc() throws when the transaction expired or failed in  *)
(* its block.  The scripts only wait: connection.confirmTransaction hands a  *)
(* failure back as a value (init_state.js:69, update_state.js:102).          *)
Confirm(s) ==
    LET k == call[s]
    IN  /\ k.phase = "waiting"
        /\ k.fate # "unknown"
        /\ Return(s, IF k.fate = "executed" \/ (k.fate = "failed" /\ k.op \in Scripts)
                     THEN "Ok" ELSE "TX_FAILED")
        /\ UNCHANGED <<vars, inflight, quote>>

(* rpc() throws while the transaction is on its way: the connection breaks.  *)
GiveUp(s) ==
    /\ call[s].phase = "waiting"
    /\ call[s].fate = "unknown"
    /\ Return(s, "TX_FAILED")
    /\ UNCHANGED <<vars, inflight, quote>>

-----------------------------------------------------------------------------
(* The network.                                                              *)
Settle(t, fate) ==
    /\ inflight' = inflight \ {t}
    /\ call' = IF call[t.by].n = t.n THEN [call EXCEPT ![t.by].fate = fate] ELSE call
    /\ UNCHANGED quote

(* In a block, and executed by the program, or refused by it; or its block   *)
(* hash is too old for any block.                                            *)
Land(t) == Execute(t.tx) /\ Settle(t, "executed")
Refuse(t) == ~ENABLED Execute(t.tx) /\ UNCHANGED vars /\ Settle(t, "failed")
Expire(t) == UNCHANGED vars /\ Settle(t, "expired")

Deliver(s, n) ==
    \E t \in inflight :
        t.by = s /\ t.n = n /\ (Land(t) \/ Refuse(t) \/ Expire(t))

ClientStep(s) == Fetch(s) \/ Answer(s) \/ Submit(s) \/ Confirm(s)

ClientInit ==
    /\ Init
    /\ call = [s \in Sessions |-> NoCall]
    /\ inflight = {}
    /\ quote = [s \in Sessions |-> NoQuote]

ClientNext ==
    \/ \E s \in Sessions : \E c \in Calls[s] : Start(s, c)
    \/ \E s \in Sessions : ClientStep(s) \/ GiveUp(s)
    \/ \E s \in Sessions, n \in 1 .. MaxCalls : Deliver(s, n)
    \/ Next /\ UNCHANGED <<call, inflight, quote>>

(* An awaited promise settles and the event loop goes on with it; a          *)
(* transaction is put into a block or its block hash expires.                *)
ClientSpec ==
    /\ ClientInit
    /\ [][ClientNext]_clientVars
    /\ \A s \in Sessions : WF_clientVars(ClientStep(s))
    /\ \A s \in Sessions, n \in 1 .. MaxCalls : WF_clientVars(Deliver(s, n))

-----------------------------------------------------------------------------
(* A trade that lands while the fee and the pool are as its session's quote  *)
(* read them keeps the quote: tests/pump_fun.ts:77-80 quotes, buys, and      *)
(* later sells what was quoted.  The client computes in fractions and rounds *)
(* at other places than the program does.                                    *)
Quoted(t, op) ==
    LET q == quote[t.by]
    IN  /\ q.op = op
        /\ q.m = t.tx.m
        /\ q.amount = t.tx.amount
        /\ q.pool = pool[q.m]
        /\ q.main.trading_fee = mainState.trading_fee

AtLeast(n, fraction) == n * fraction.den >= fraction.num
AtMost(n, fraction) == n * fraction.den <= fraction.num

(* Where the trader is the fee recipient, the fee comes back to him.         *)
QuoteIsKept(t) ==
    LET q == quote[t.by]
        u == t.tx.user
    IN  /\ t.tx.ix = "buy_tokens_from_exact_quote" /\ Quoted(t, "getOutputAmountOnBuy")
              /\ q.main.real_quote_threshold = q.pool.real_quote_threshold
            => AtLeast(Received(q.m, u), q.value)
        /\ t.tx.ix = "buy_exact_tokens_from_quote" /\ Quoted(t, "getInputAmountOnBuy")
            => AtMost(Paid(QuoteMint, u), q.value)
        /\ t.tx.ix = "sell" /\ Quoted(t, "getOutputAmountOnSell")
            => AtLeast(Received(QuoteMint, u), q.value)

QuotesAreKept == [][\A t \in inflight : Land(t) => QuoteIsKept(t)]_clientVars

(* The maximum buy2 computes from reserves read some awaits before is not    *)
(* what stops it, in the simulation or in its block, while those reserves    *)
(* and the fee are still the same, cut at the threshold or not               *)
(* (ali_index.ts:286-289, buy.rs:163).                                       *)
MaximumAllowsTheQuote ==
    \A s \in Sessions :
        LET k == call[s]
            p == pool[k.c.m]
            fee == mainState.trading_fee
        IN  k.op = "buy2" /\ Len(k.seen) = 4 /\ k.seen[4] = p /\ k.seen[3].trading_fee = fee
                /\ k.c.amount <= p.real_base_reserves
                => WithinMaximum(ExactBaseFill(p, fee, k.c.amount),
                                 MaxQuoteAmount(k.c, k.seen))

(* An update of one caller never undoes a term (supply, virtual reserves,    *)
(* threshold) another one changed since it read, and nothing it was not      *)
(* given when the configuration is as it read it (ali_index.ts:113-166).     *)
Terms == {"total_supply", "init_virt_base_reserves", "init_virt_quote_reserves",
          "real_quote_threshold"}
Roles == {"withdrawer", "fee_recipient", "trading_fee"}

UpdatesKeepTheRest ==
    [][\A t \in inflight :
         LET k == call[t.by]
         IN  Land(t) /\ k.n = t.n /\ k.op = "updateMainState" =>
                 \A f \in Terms \cup Roles :
                     k.c.given[f] = None /\ (f \in Terms \/ k.seen[1][f] = mainState[f])
                         => mainState'[f] = mainState[f]]_clientVars

(* A call says Ok only of a transaction the program executed: nothing counts *)
(* as done because it was sent, or is in a block (ali_index.ts:255-260,      *)
(* ali_index.ts:376-378).                                                    *)
OkMeansExecuted ==
    \A s \in Sessions :
        call[s].phase = "returned" /\ call[s].result = "Ok"
            /\ call[s].op \notin Quotes \cup Scripts \cup {"none"}
            => call[s].fate = "executed"

(* Every call returns, whatever becomes of its transaction.                  *)
CallsReturn == \A s \in Sessions : call[s].phase # "returned" ~> call[s].phase = "returned"
=============================================================================
