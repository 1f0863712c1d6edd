# ali-pump-fun: a verification project

`programs/ali_pump_fun` is a Solana (Anchor) program that launches tokens on
bonding curves. A creator lists a finished token; traders buy it from the curve
and sell it back to the curve, at a constant-product price, for one fixed quote
token (ALI); when the curve has raised its threshold it is complete, trading
stops, and the withdrawer takes what the pool holds. This directory holds TLA+
modules that model the program, its execution, its log and its client, TLC
configurations that check them on small instances, and proofs that TLAPS checks
for every instance.

## 1. The system

### Components and their state

| Part | Source | State | Operations |
|---|---|---|---|
| Main state | `main_state/` | one account: owner, withdrawer, fee recipient, fee, the four terms new pools get | `init_main_state`, `transfer_ownership`, `update_main_state` |
| Pools | `pool/`, `lib.rs` | one account per base token: owner, virtual and real reserves of both sides, threshold, `complete` | `create_pool`, `buy_tokens_from_exact_quote`, `buy_exact_tokens_from_quote`, `sell`, `withdraw` |
| Curve arithmetic | `utils.rs`, `pool/state.rs`, `constants.rs` | none | fee, total of a net amount, constant-product output and input |
| Token ledger (external) | SPL token and associated-token programs, as `src/` uses them | balances, existing token accounts, mints with supply and authorities | transfer, account creation by constraint; for everybody else also mint, revoke, burn, close |
| Transaction execution (external) | the Accounts structs and the order of each handler | a working copy of the accounts per transaction, locks | locking, constraint checks, handler, CPIs, write-back, failure |
| Events | `*/event.rs`, every `emit!` | none (log) | one or two events per instruction |
| TypeScript client | `tests/connectivity/` | none kept; snapshots of accounts between awaits | `createPool`, `buy`, `buy2`, `sell`, `withdraw`, three quotes, three administration calls |
| Administration scripts | `scripts/*.js` | none | one main-state instruction each |
| Not code of the system | `test-ledger/`, `.anchor/`, `migrations/`, key scripts | | |

The parts meet in the accounts. Every pool instruction reads the main state
(fee, fee recipient, withdrawer) and moves tokens in the ledger; `create_pool`
copies the main state's terms into the new pool, so later updates reach a listed
pool only through the fee, the fee recipient and the withdrawer. Anybody submits
instructions at any time; the runtime orders them, runs those side by side whose
accounts do not conflict, and applies each entirely or not at all. The client
reads accounts, awaits, computes limits from what it read, submits and waits
for a confirmation; the accounts may change between any two of these. Nothing in
the program runs by itself.

### What is hard, and what makes each part correct

- *Rounding.* Four integer formulas, two of them stacked when a buy is cut to
  what the curve still takes. Correct means: the curve is filled exactly, never
  one unit short or beyond; a cut buy is never dearer than agreed; prices never
  drain the pool.
- *Two sets of books.* `real_base_reserves` and `real_quote_reserves` are changed
  before the transfers, and `withdraw` pays by them. Correct means: the vaults
  always hold at least what is booked, with the fee recipient any account at
  all, a pool's included.
- *Order.* Any interleaving of traders, of the owner's reconfiguration and of
  other use of the same tokens (donations, burning, closing accounts). Correct
  means: a pool keeps the goal it was listed with, completes once, is not traded
  afterwards, is withdrawn once; receivers' accounts exist; no new supply of a
  listed token.
- *Getting out.* Sells are priced on virtual plus real reserves and paid from the
  real ones, and `withdraw` recognises "already withdrawn" by empty reserves.
  Correct means: holders can sell, the curve can be filled, the raised quote can
  be withdrawn. This is where the program does not keep what its comments and
  tests say (section 4).
- *Half-done transactions.* A handler books, pays a fee, pays a pool, pays out,
  and any of these may fail, next to transactions on other curves. Correct
  means: what becomes of the accounts is one whole instruction after the other,
  and no vault is ever what makes a transfer fail.
- *Somebody else's view.* The log must tell its reader what the accounts hold and
  what a trade cost; the client must keep its quotes while what it read is still
  true, must not stop its own orders, and must not call done what was not.
- *Width.* Intermediate products are u128 and cannot overflow; sums of u64 abort;
  the `as u64` casts silently drop bits.

`PROJECT.json` lists each hazard at its line with the properties that cover it.

## 2. The modules

| Module | Models | Extends |
|---|---|---|
| `CurveMath` | `utils.rs`, the formulas of `pool/state.rs` | |
| `TokenLedger` | the token program (external) | |
| `MainState` | the configuration account and its instructions | both |
| `PumpFun` | pools and their instructions; `Init`, `Next`, `Spec` of the whole program | `MainState` |
| `AbstractCurve` | what one curve promises, without prices and tokens | |
| `PumpFunProperties` | the properties, and the map from a pool to `AbstractCurve` | `PumpFun` |
| `TxExecution` | each instruction as the runtime executes it, several at a time | `PumpFunProperties` |
| `EventLog` | what each instruction emits, and a reader of the log | `PumpFunProperties` |
| `Client` | client calls and scripts, the network between them and the program | `PumpFunProperties` |
| `MCCurveMath`, `MCPumpFun`, `MCTxExecution`, `MCEventLog`, `MCClient` | TLC instances | the module they name |
| `CurveMathProofs`, `CurveMathRunProofs`, `PumpFunProofs`, `CurveSafetyProofs`, `FairCurveProofs`, `EventLogProofs`, `TxExecutionProofs`, `ClientProofs` | theorems and their proofs | the module they are about, and the lemmas they cite |

### The program: `PumpFun` and below

State:

- `mainState` is the account of `main_state/state.rs`; `exists` says that
  `init_main_state` ran (Anchor's `init`).
- `pool[m]` is the `PoolState` account derived from base mint `m`; `exists` as
  above. The stored `base_mint` and `quote_mint` are `m` and `QuoteMint`.
- `balance[token][holder]` is the amount in the holder's associated token
  account, `atas` the accounts that exist, `mint[m]` the mint. A holder is a user
  (a key that can sign) or a pool's derived address, which owns the two vaults.

One instruction is one step. Each operator bears the handler's name and its
account struct's (`ABuy`, `ASell`, ...). The guards are the account constraints,
every `require!`, every checked u64 operation that could abort (the workspace
builds with `overflow-checks = true`) and every transfer's balance test; what
the constraints create (`init`, `init_if_needed`) is added to `atas`. An aborted
transaction changes nothing, so it is no step. Order matters where one transfer
sees the previous one (`buy_finalize` and `Sell` chain them, so a fee recipient
that is the buyer or the vault is handled as the code does).

A trade is split into a *fill* (what is moved: fee, quote, base) and the pool
after it (`AfterBuy`, `AfterSell`, `AfterWithdraw`). `AfterBuy` includes the
`complete` flag that `buy_finalize` sets after the transfers.

`Next` is the program's eight instructions plus `LedgerNext`, everybody else's
use of the token program. Transfers out of a vault are not part of the latter:
only the program signs for a pool's address.

### Inside a transaction: `TxExecution`

`PumpFun` takes for granted that an instruction is one step. `TxExecution` does
not: `tx[s]` is a transaction in execution slot `s`, with a copy of the accounts
and a list of transfers still to do, and it goes through

1. `Begin`: the accounts are locked. `Writes` and `Reads` list what each Accounts
   struct declares, `mut` or not; a transaction starts beside another only if the
   two are `Compatible`.
2. `CheckAccounts`: the constraints, and the accounts of `init_if_needed`.
3. `Handle`: the handler up to its first CPI. The checks come in the code's order
   and fail with the code's errors (`ExactQuoteError`, ...); the reserves are
   booked, `complete` and the zeros of `withdraw` are not yet. What the events of
   a buy sum up (`Spent`) is fixed here, as the code's locals are, for `Finish`.
4. `Invoke`: one CPI transfer, which fails when its source does not hold the amount.
5. `Finish`: the rest of the handler, and the write-back of the accounts declared
   writable, only those.

Any step may fail, and `RunOutOfCompute` ends a transaction between any two of
them. The copy is then dropped; of a failed trade only the instruction, the curve
and the error are remembered. `AppliedAtomically` is `Spec` of `PumpFun`: the
modules are the detailed and the abstract specification of the same program, and
a struct that failed to declare an account `mut`, or a lock too few, shows as a
step that is none of `PumpFun`'s.

### The log: `EventLog`

`emitted` is what the last transaction logged, in order; `books` is what an
auditor knows who started with nothing and reads every event. Each instruction
of `PumpFun` is joined with its `emit!`s, with the values the fields have at that
point of the handler (`WithdrawEvent` before the zeros, `MainStateUpdated` after
the assignments).

### The callers: `Client`

`call[s]` is the call session `s` is in: what it still has to fetch, what it has
seen, whether it waits. `inflight` holds the transactions on their way. `Fetch`
reads one account as it is at that moment, or fails; `Answer` computes a quote;
`Submit` builds the instruction from what was seen, and sends it if the
simulation accepts it (`ENABLED Execute(tx)`, as `rpc()` and `sendTransaction`
simulate first); a transaction lands, is refused in its block or expires
(`Land`, `Refuse`, `Expire`); `Confirm` is what the caller is then told, `GiveUp` the
broken connection before. All the while `Next` of the program goes on. Calls of
the client and of the scripts differ where the code differs: the scripts do not
look at the result of `confirmTransaction`. `CallArguments` are the calls with
arguments of their types; the constant `Calls` says which of them each session
makes, a few in the runs and any in the proofs.

### Abstractions

- Amounts are integers up to `U64_MAX`, a constant. A u128 product of two u64
  values cannot overflow, so products are exact; the final cast is `AsU64`.
- Lamports, rent, timestamps, account space, keys and bumps are left out.
- The fee recipient's and receivers' accounts are always the associated ones: the
  constraints demand it.
- The client's amounts are whole base units, what `calcNonDecimalValue` makes of
  an input. Its doubles are exact fractions: binary floating point is not
  modelled. Its fetch of the quote mint, whose decimals never change, is left out.
- `index.ts` is the older twin of `ali_index.ts`, for a quote in SOL, and not
  modelled beside it.

### Definitions marked `Mutant`

Each is a changed version of the definition after it, as a plausible slip would
leave it (a rounding direction, a dropped term, a strict comparison, an account
not declared `mut`, an event emitted too late). Substituting it must break the
property it is listed with in `PROJECT.json`; nothing else uses them.

## 3. The runs

| Run | Question | Bounds | Distinct states |
|---|---|---|---|
| `curve_math` | do the four formulas do what the handlers rely on? | every fee of 0..10 out of 20, amounts to 24, reserves to 20 | 110 000 |
| `trading` | vaults, completion, traders' limits, price, life cycle, for any order of both buys, sells, withdrawal | 2 users, 1 curve, threshold 24 | 17 900 |
| `fair_curve` | bought only by exact quote and executed step by step: can all circulating tokens be sold back, the curve be filled and withdrawn, and does no order that passes its checks panic? | 2 users, 1 slot, supply 15, threshold 48 | 2 498 000 |
| `two_mints` | with two curves traded at the same time next to a change of terms: do the locks keep them apart, does each keep its own threshold, reserves and life, also when both pay their fees into the vault of one? | 2 users, 2 slots, 2 curves, threshold 10 and 11; fees above zero, after the change for the vault of `cat`; sells, cut fills | 879 000 |
| `admin` | types, open accounts, final supply, vaults that hold and move what is booked, among all other use of the tokens and ownership changes | 2 users, 1 curve that may be its own fee recipient, mint limit 10 | 1 192 000 |
| `event_log` | does the log tell configuration, pools and payments, in an order that can be followed? | 2 users, 1 curve, reconfiguration to a pool as fee recipient | 185 000 |
| `tx_atomic` | every instruction from inside, failing anywhere: whole instructions only, vaults never short, what a trader was told stays true | 2 users, 2 slots, 1 curve, a change of owner, terms that overflow | 123 000 |
| `client_trades` | are quotes kept, does `buy2` not stop itself, is Ok only said of what was executed? | a trader and the owner, 2 calls each, while others trade | 3 559 000 |
| `client_admin` | two administrators at once: does no update undo another's terms, does every call return? | 2 sessions of the owner, 2 calls each | 655 000 |
| `sell_out`, `exhausted`, `curve_math_narrow` | the disagreements of section 4 | | |

*Why these bounds are enough.* The state spaces are exhaustive and small because
amounts are small, and small amounts exaggerate rounding: one lost unit is a
tenth of a trade instead of a billionth. `FEE_PER_DIV = 1` and `PERCENT = 10`
make the default fee a tenth and the highest a half, so fees round both ways; in
`admin` and `two_mints` `PERCENT` is 6, for a sixth and five sixths, so that small
orders pay a fee too. `TOTAL_SUPPLY`, the virtual reserves and the
threshold keep the proportions of `constants.rs` in `trading`, `fair_curve` and
`client_trades` (a small part of the supply is left when the curve completes);
`exhausted` uses terms that `update_main_state` accepts and that leave nothing.
Amounts are chosen so that single trades, several trades, a cut trade, a rejected
limit and a completing trade all occur. Two users give every combination of buyer,
seller, fee recipient and withdrawer, the same key in several roles included; a
second curve gives every way curves can meet (shared quote token, shared fee
recipient, fees of one paid into the vault of the other). With one curve any two
instructions exclude each other by the pool's account or the main state's, so in
`tx_atomic` the two slots contend and one runs at a time; transactions overlap in
`two_mints`.
The named bounds are `MintLimit` (tokens ever issued), `MaxCalls` (calls of a
session), `Slots`, the sets of amounts and inputs tried, and `QuoteFunds`.
`U64_MAX = 1023` lies above every sum in these runs, but for the update in
`tx_atomic` that makes the reserves of a later pool outgrow it; the narrow width
is used only in `curve_math_narrow`. `two_mints` treats its two slots as
interchangeable (`SlotSymmetry`); it checks no liveness, and the slots differ in
nothing.

Deadlock is not checked: traders may run out of quote, after the withdrawal there
may be nothing left to do, and a session makes its last call. The program really
may stop there.

*Fairness.* In `PumpFun!Spec` none: every step is somebody's decision to submit a
transaction. "Can always be sold back", "can be filled", "can be withdrawn" are
therefore invariants: in every reachable state the instruction's own arithmetic
would not refuse it. `TxSpec` has none either: each of its properties forbids a step
or a state. In `ClientSpec` a session's own steps are weakly fair, because an
awaited promise settles, one way or the other, and the event loop goes on with it;
and so is `Deliver`, because a transaction is put into a block or its block hash
expires. `GiveUp`, `Start` and the other users' steps are not. This is enough for
`CallsReturn`.

*What holds only under a condition, and is stated so.* `QuotesAreKept` needs the
fee and the pool to be at landing as the quote read them, and for a buy by exact
quote the configuration's threshold to be the pool's own. `UpdatesKeepTheRest` needs
it for the roles and the fee, which the client writes back as read; the terms
are kept in any case. `EventsTellThePayments` excepts a trader who is himself the
fee recipient. `OkMeansExecuted` is about the client's calls, not the scripts'.

## 4. Where the code and its documentation disagree

1. `sell_out`. `calculate_input_amount` (`pool/state.rs:92`) rounds the price of
   an exact-base buy down. After two such buys the position is worth more quote
   than the pool was paid, and selling it out, as `tests/pump_fun.ts:93` does,
   underflows at `sell.rs:42` and aborts. With exact-quote buys only this cannot
   happen (run `fair_curve`, theorem `WhatWasSoldCanBeSoldBack`).
   `ProductLossIsBounded` bounds the damage of one buy: less than one quote unit
   times the base side of the product.
2. `exhausted`. `withdraw.rs:26` takes an empty base reserve for "already
   withdrawn". Under terms that `update_main_state` accepts, the last buy can
   empty it: the complete curve then keeps all the quote it raised.
3. `curve_math_narrow`. Above u64 the `as u64` of `pool/state.rs:93` returns a
   price unrelated to the formula in its comment.

Things a reader of the client should know, though nothing in the repository says
otherwise and no run checks against it: the quote of a buy is capped by the
configuration's threshold and not the pool's own (`ali_index.ts:431`); a new fee
of 0 is taken for absent (`ali_index.ts:141`); a call that returned TX_FAILED
because the connection broke may still land (`ali_index.ts:255`); the scripts
report as complete a transaction that failed in its block (`update_state.js:102`);
and `WrongBaseAmount` stands both for an amount of 0 and for an order above the
reserves (`buy.rs:145`).

## 5. What is proved

For every width, fee, configuration, set of users, tokens and amounts. The
assumptions are the named ASSUMEs: the width is positive, `PERCENT > 5` so that
the highest fee is below the whole, the defaults of `constants.rs` are positive,
the inputs are of their types, a pool's address is not a user. The arithmetic of
proofs uses truncating casts; where a theorem needs more it says so in its
statement, as a hypothesis:

- `NoExactBaseBuys`: nobody buys an exact amount of base tokens.
- `OwnerKeepsTermsFair`: the default terms, and whatever an update leaves, satisfy
  virtual quote times supply above virtual base times threshold. Those of
  `constants.rs` do.
- `OwnerKeepsTermsFitting`: under the default terms, and whatever an update leaves,
  neither the total of a threshold nor the price of an order submitted outgrows
  the width. Those of `constants.rs` do not, for any order: virtual quote plus
  threshold is below virtual base.
- `OwnerKeepsSumsFitting`: under the default terms, and whatever an update leaves,
  virtual quote plus threshold fits the width, and so does the threshold plus any
  amount somebody buys for. The terms of `constants.rs` fit; a buy for an amount
  within a threshold of 2^64 of the smallest units really can abort in the sum of
  `buy.rs:113`, so the hypothesis is needed.
- `IsFiniteSet(Holders)`: finitely many accounts, where their balances are added up.

The modules:

- `CurveMathProofs`. The division lemma (`DivBounds`) and the cancellation of a
  positive factor carry everything: `CutPaymentIsExact`, `CutPaymentFitsTheHeadroom`,
  `CutPaymentIsWithinBudget` (the payment of a cut buy), `OutputKeepsProduct`,
  `InputIsShortByLessThanOneUnit`, `CutOrderIsNotEnlargedByTheCut` (the two prices).
- `CurveMathRunProofs`. The five invariants of the run `curve_math`, for every
  width, fee and bound, from those lemmas and the types of the four inputs.
- `PumpFunProofs`. `CompletesAtThreshold` and `TypeOK` are not inductive alone:
  the types of balances need fills that are natural numbers, these need non-zero
  divisors, and completion needs a positive threshold. The inductive invariant
  `IInv == TypeOK /\ PoolsPriced /\ CompletesAtThreshold` adds that listed pools
  have positive virtual reserves and threshold. Each instruction has a lemma for
  its fill, for its transfers holder by holder, and for its step; what a transfer
  does to each holder's balance, and that it keeps the ledger's types, is proved
  first and cited by all modules below. Results: `TypeCorrect`, `CompletionIsExact`.
- `CurveSafetyProofs`. On top of `IInv`: `BooksAndVaultsMoveTogether`, that is
  `VaultsMoveAsBooked` (what a pool's vaults hold beyond its books never shrinks,
  and a trade or a withdrawal leaves it as it is, its quote side only if the pool
  is not itself the fee recipient), with one lemma for fees and donations and one for each instruction;
  `ReservesAreInTheVaults`, which follows step by step; `ExactQuoteBuyIsWithinItsLimits`, `ListedSupplyIsFinal` (strengthened by
  "a listed mint has no mint authority"), `FundsStayInOpenAccounts` (strengthened by
  "a listed pool's vaults exist": chained transfers keep it as long as each
  receiver's account is there, which is what the account constraints provide). And
  `EveryPoolFollowsItsLifeCycle`: `Spec => Curve(m)!Spec` for every base mint `m`, with
  the mapping `Phase`, `real_quote_reserves`, `real_quote_threshold`. TLC checks the
  same for one pool in `trading` and `two_mints` (`CatFollowsItsLifeCycle`,
  `DogFollowsItsLifeCycle`). Last, conservation: `NoTokenIsMadeOrLost` (all holders
  together have a base token's supply) and `NoQuoteIsMadeOrLost` (no step changes
  what all together have of the quote token), over any finite set of holders. A
  sum is a function `total` on balances with `IsSum`: 0 where everybody has 0, and
  changing with one balance by as much. It exists because of all subsets of the
  holders without one a smallest would gain one from what is left when an element
  is taken out (`MinimalSet`, `SumExtends`); then each transfer, a self-transfer
  included, is two changes that cancel. `TwoHoldersWithinTheSupply` follows: vault
  and seller together never have more than the supply.
- `FairCurveProofs`. Every step either leaves a pool alone, lists it, withdraws it,
  or trades without lowering the product, unless it is an exact-base buy
  (`OtherStepsEvolve`). From that, without exact-base buys:
  `ProductNeverFallsWithoutExactBaseBuys`; `WhatWasSoldCanBeSoldBack`, by the
  invariant `SupplyInv` that the product is at least what it was with the whole
  supply in the pool; `FairCurveCanBeFilled` and `FairCompleteCurveCanBeWithdrawn`
  under `OwnerKeepsTermsFair`, by `FillInv`, which carries the fairness of the terms
  from the configuration into each pool. With exact-base buys, under
  `OwnerKeepsTermsFitting`, by `FitInv`, which carries that in the same way:
  `ExactBaseBuyIsWithinItsLimits` and `ExactBaseLossIsBounded`. And `RoomInv` puts
  `SupplyInv`, `FillInv` and conservation together with `OwnerKeepsSumsFitting`: what a
  curve and a holder have of a token is at most its supply, which fits beside the
  virtual reserve since the listing checked that sum. So no sum or difference of a
  buy (`BuyDoesNotOverflow`) or of a sale of what the seller has
  (`SellDoesNotOverflow`) leaves the width.
- `EventLogProofs`. `LogSpec` implements `Spec`, so `IInv` holds along it; with the
  auditor's types and `BooksMatch` itself it is inductive (`BookInv`), one lemma per
  instruction reading its one or two events. Results: `TheLogTellsTheAccounts`,
  `TheLogIsInOrder`, `TheLogTellsThePayments`, and `TheLogAddsUp` under
  `OwnerKeepsTermsFitting`, which the total of an exact-base buy needs.

- `TxExecutionProofs`. `TransactionsAreAtomic`: `TxSpec => Spec`, that is, however
  transactions overlap, fail half way or run out of compute, the accounts change
  by one whole instruction of `PumpFun` at a time. The invariant `TxInv` gives each
  running slot a *view* of the accounts, those of the moment it began: the view
  agrees with the accounts as they are now on everything the slot has locked, and
  the slot's copy and remaining transfers are what its instruction makes of the
  view up to its stage (`Progress`: account checks done, handler done, the first
  `k` transfers done). A step of another slot keeps the agreement because their
  locks are compatible; a step of its own moves one stage on; and when it writes
  back, the view can be replaced by the present accounts, for which the stages
  together are exactly the guard and the effect of the instruction. Results:
  `TxInvariant`, `TransactionsAreAtomic`; `VaultsAlwaysPay`, which adds that the
  vaults hold what is booked (from `CurveSafetyProofs`, through the refinement);
  `CompleteErrorsAreFinal`, by "a pool reported complete is, and remains so"; and
  `TradesAreNeverStoppedByArithmetic`, that is `TradesNeverPanic`, under
  `NoExactBaseBuys`, `OwnerKeepsTermsFair`, `OwnerKeepsSumsFitting` and finitely many
  holders, all of which hold in the run `fair_curve`: the pool a handler has in its
  copy is the present one, so `RoomInv` bounds each checked operation in it and,
  after its transfers, the sums of its event.
- `ClientProofs`. `CallersInvariant` is `IInv` together with: every call is a record
  of its types that has seen the first accounts its operation fetches, in order;
  a transaction on its way is what a call built from these, at most one for a
  call, its fate unknown while the call is the present one; and `OkMeansExecuted`
  itself. `Execute` keeps `IInv` for whatever typed amounts and inputs a client
  sends, not only for those `Next` tries. `QuoteInv` says that a quote held is what
  the client computes from what it read. Results: `OkIsOnlySaidOfWhatWasExecuted`,
  `UpdatesTouchNothingElse`, `MaximumNeverStopsItsOwnBuy` (a tenth more than the
  quote covers the program's own rounding of price and fee), and
  `TradesKeepTheirQuotes`: the client rounds once, with exact fractions before,
  and the program twice or three times, on the fee, on the price and on a cut; the
  output's monotony and the division lemma put one below the other in each of the
  three trades, for cut orders by `CutTotalIsWithinBudget`.

*Only model-checked:* the liveness property `CallsReturn`; every other property of a passing run is stated by a theorem.
Liveness under fairness is out of the provers' reach, and so is `ENABLED`: in
the proofs about `Submit` and `Refuse`, whose simulations are an `ENABLED`, that
conjunct is never used, so the theorems hold whatever the simulation answers.

## 6. Not modelled

- The WSOL helpers of `utils.rs` (`sync_native_amount`, `close_token_account`): only
  commented-out code calls them.
- The client's token helper (`base/baseSpl.ts`, `base/utils.ts`): it builds mint,
  transfer and account instructions; what they do is in `TokenLedger`.
- `key_export.js`, `key_import.js`: conversions of key files.
- `index.ts`, the client of the older program (see Abstractions), and the priority
  fees, compute limits and console output of all of them.
- The tests, which are read as documentation of what is expected; the empty
  deploy hook; the data of the local validator.
- Reordered or replayed transactions beyond loss and delay: a signature is
  accepted once by the runtime, so a duplicate does nothing.
- Binary floating point in the client, lamports and rent in the program.

Some hazards have no property because the repository promises nothing they could
break: an account created before `init` expects it (`create_pool.rs:113`,
`init_main_state.rs:66`), ownership given to a key nobody holds
(`transfer_ownership.rs:24`), and the client's habits listed in section 4. The
models contain all of these but the rounding of doubles.

## 7. What could be added

`Client` over `TxExecution` instead of `PumpFun`, which multiplies two state spaces
and, as `TransactionsAreAtomic` shows, has nothing new to show; and bounds on what a
curve that is also bought from by exact amounts can owe its holders, where
`sell_out` shows that it may owe more than it has and `ExactBaseLossIsBounded` only
bounds what one such buy takes.
