-------------------------- MODULE TxExecutionProofs --------------------------
(* Transactions that run side by side, each on its copy of the accounts it   *)
(* locked, do what PumpFun's instructions do one after the other; vaults     *)
(* always pay, and what a failed trade is told is true.                      *)
EXTENDS TxExecution, FairCurveProofs, SequenceTheorems

-----------------------------------------------------------------------------
(* The accounts an instruction locks.                                        *)
Used(ix) == Writes(ix) \cup Reads(ix)

AtaWritten(ix, token, h) == Ata(token, h) \in Writes(ix)

(* Accounts at different addresses are different accounts.                   *)
LEMMA AddressFacts ==
    ASSUME NEW t, NEW h, NEW u, NEW g
    PROVE  /\ (Ata(t, h) = Ata(u, g)) <=> (t = u /\ h = g)
           /\ (PoolOf(t) = PoolOf(u)) <=> (t = u)
           /\ Ata(t, h) # Wallet(u) /\ Ata(t, h) # MintOf(u)
           /\ Ata(t, h) # PoolOf(u) /\ Ata(t, h) # TheMainState
           /\ PoolOf(t) # Wallet(u) /\ PoolOf(t) # MintOf(u) /\ PoolOf(t) # TheMainState
           /\ TheMainState # Wallet(u) /\ TheMainState # MintOf(u)
  BY DEF Ata, Wallet, MintOf, PoolOf, TheMainState

(* What a trade's instruction names: a user, a base mint and amounts from    *)
(* the sets the trades try.                                                  *)
LEMMA TradeShape ==
    ASSUME NEW ix \in Instructions, ix.op \in Trades
    PROVE  /\ OnPool(ix) /\ ix.user \in Users /\ ix.m \in BaseMints
           /\ ix.fee_recipient \in Holders
           /\ ix.op = "buy_tokens_from_exact_quote" =>
                ix.amount \in QuoteAmounts /\ ix.limit \in MinOutputs
           /\ ix.op = "buy_exact_tokens_from_quote" =>
                ix.amount \in BaseAmounts /\ ix.limit \in MaxInputs
           /\ ix.op = "sell" => ix.amount \in SellAmounts /\ ix.limit \in MinOutputs
  BY TxAssumption DEF OnPool, Instructions, TradesOf, Trades, Buys

(* create_pool and withdraw name a user and a base mint.                     *)
LEMMA PoolShape ==
    ASSUME NEW ix \in Instructions, ix.op \in {"create_pool", "withdraw"}
    PROVE  OnPool(ix) /\ ix.user \in Users /\ ix.m \in BaseMints
  BY DEF OnPool, Instructions, TradesOf

(* The configuration's instructions name a user and no pool.                 *)
LEMMA MainShape ==
    ASSUME NEW ix \in Instructions,
           ix.op \in {"init_main_state", "transfer_ownership", "update_main_state"}
    PROVE  /\ ~OnPool(ix) /\ ix.user \in Users
           /\ ix.op = "transfer_ownership" => ix.new_owner \in NewOwners
           /\ ix.op = "update_main_state" => ix.input \in UpdateInputs
  BY DEF OnPool, Instructions, TradesOf

(* There are three families of instructions.                                 *)
LEMMA InstructionKinds ==
    ASSUME NEW ix \in Instructions
    PROVE  \/ ix.op \in Trades \/ ix.op \in {"create_pool", "withdraw"}
           \/ ix.op \in {"init_main_state", "transfer_ownership", "update_main_state"}
  BY DEF Instructions, TradesOf, Trades, Buys

(* What each kind of instruction writes and reads.                           *)
LEMMA TradeAccounts ==
    ASSUME NEW ix, ix.op \in Trades
    PROVE  /\ Writes(ix) = {Wallet(ix.user)} \cup Vaults(ix.m) \cup
                {PoolOf(ix.m), Ata(QuoteMint, ix.fee_recipient),
                 Ata(ix.m, ix.user), Ata(QuoteMint, ix.user)}
           /\ Reads(ix) = {TheMainState, MintOf(ix.m), MintOf(QuoteMint),
                           Wallet(ix.fee_recipient)}
           /\ Inits(ix) = {}
           /\ InitsIfNeeded(ix) =
                {<<QuoteMint, ix.fee_recipient>>, <<QuoteMint, ix.user>>}
                \cup (IF ix.op \in Buys THEN {<<ix.m, ix.user>>} ELSE {})
<1>1. ix.op # "create_pool" /\ ix.op # "init_main_state" /\ ix.op # "withdraw"
      /\ ix.op # "transfer_ownership" /\ ix.op # "update_main_state"
  BY DEF Trades, Buys
<1>2. Writes(ix) = {Wallet(ix.user)} \cup (Vaults(ix.m) \cup
                {PoolOf(ix.m), Ata(QuoteMint, ix.fee_recipient),
                 Ata(ix.m, ix.user), Ata(QuoteMint, ix.user)})
  BY <1>1, Zenon DEF Writes
<1>3. Reads(ix) = {TheMainState, MintOf(ix.m), MintOf(QuoteMint),
                           Wallet(ix.fee_recipient)}
  BY <1>1, Zenon DEF Reads
<1>4. Inits(ix) = {}
  BY <1>1, Zenon DEF Inits
<1>5. CASE ix.op \in Buys
  <2>1. InitsIfNeeded(ix) = {<<QuoteMint, ix.fee_recipient>>, <<ix.m, ix.user>>, <<QuoteMint, ix.user>>}
    BY <1>1, <1>5, Zenon DEF InitsIfNeeded, Buys
  <2> QED BY <1>2, <1>3, <1>4, <1>5, <2>1
<1>6. CASE ix.op \notin Buys
  <2>0. ix.op = "sell"
    BY <1>6 DEF Trades
  <2>1. InitsIfNeeded(ix) = {<<QuoteMint, ix.fee_recipient>>, <<QuoteMint, ix.user>>}
    BY <1>1, <2>0, <1>6, Zenon DEF InitsIfNeeded
  <2> QED BY <1>2, <1>3, <1>4, <1>6, <2>1
<1> QED BY <1>5, <1>6

(* The same for create_pool, which creates both vaults.                      *)
LEMMA CreateAccounts ==
    ASSUME NEW ix, ix.op = "create_pool"
    PROVE  /\ Writes(ix) = {Wallet(ix.user)} \cup Vaults(ix.m) \cup
                {PoolOf(ix.m), Ata(ix.m, ix.user)}
           /\ Reads(ix) = {TheMainState, MintOf(ix.m), MintOf(QuoteMint)}
           /\ Inits(ix) = {<<ix.m, pool_pda(ix.m)>>, <<QuoteMint, pool_pda(ix.m)>>}
           /\ InitsIfNeeded(ix) = {}
<1>1. ix.op \notin Trades /\ ix.op \notin Buys
  BY DEF Trades, Buys
<1>2. Writes(ix) = {Wallet(ix.user)} \cup (Vaults(ix.m) \cup {PoolOf(ix.m), Ata(ix.m, ix.user)})
  BY <1>1, Zenon DEF Writes
<1>3. Reads(ix) = {TheMainState, MintOf(ix.m), MintOf(QuoteMint)}
  BY <1>1, Zenon DEF Reads
<1>4. Inits(ix) = {<<ix.m, pool_pda(ix.m)>>, <<QuoteMint, pool_pda(ix.m)>>}
  BY <1>1, Zenon DEF Inits
<1>5. InitsIfNeeded(ix) = {}
  BY <1>1, Zenon DEF InitsIfNeeded
<1> QED BY <1>2, <1>3, <1>4, <1>5

(* The same for withdraw, which creates the receiver's accounts when they    *)
(* are missing.                                                              *)
LEMMA WithdrawAccounts ==
    ASSUME NEW ix, ix.op = "withdraw"
    PROVE  /\ Writes(ix) = {Wallet(ix.user)} \cup Vaults(ix.m) \cup
                {PoolOf(ix.m), MintOf(ix.m), MintOf(QuoteMint),
                 Ata(ix.m, ix.user), Ata(QuoteMint, ix.user)}
           /\ Reads(ix) = {TheMainState}
           /\ Inits(ix) = {}
           /\ InitsIfNeeded(ix) = {<<ix.m, ix.user>>, <<QuoteMint, ix.user>>}
<1>1. ix.op \notin Trades /\ ix.op \notin Buys
  BY DEF Trades, Buys
<1>2. Writes(ix) = {Wallet(ix.user)} \cup (Vaults(ix.m) \cup
                {PoolOf(ix.m), MintOf(ix.m), MintOf(QuoteMint),
                 Ata(ix.m, ix.user), Ata(QuoteMint, ix.user)})
  BY <1>1, Zenon DEF Writes
<1>3. Reads(ix) = {TheMainState}
  BY <1>1, Zenon DEF Reads
<1>4. Inits(ix) = {}
  BY <1>1, Zenon DEF Inits
<1>5. InitsIfNeeded(ix) = {<<ix.m, ix.user>>, <<QuoteMint, ix.user>>}
  BY <1>1, Zenon DEF InitsIfNeeded
<1> QED BY <1>2, <1>3, <1>4, <1>5

(* The same for the configuration's instructions.                            *)
LEMMA MainAccounts ==
    ASSUME NEW ix
    PROVE  /\ ix.op = "init_main_state" =>
                /\ Writes(ix) = {Wallet(ix.user), TheMainState, Ata(QuoteMint, ix.user)}
                /\ Inits(ix) = {<<QuoteMint, ix.user>>} /\ InitsIfNeeded(ix) = {}
           /\ ix.op = "transfer_ownership" =>
                /\ Writes(ix) = {Wallet(ix.user), TheMainState}
                /\ Inits(ix) = {} /\ InitsIfNeeded(ix) = {}
           /\ ix.op = "update_main_state" =>
                /\ Writes(ix) = {Wallet(ix.user), TheMainState,
                                 Ata(QuoteMint, ix.input.fee_recipient)}
                /\ Inits(ix) = {}
                /\ InitsIfNeeded(ix) = {<<QuoteMint, ix.input.fee_recipient>>}
<1>1. ASSUME ix.op = "init_main_state"
      PROVE  /\ Writes(ix) = {Wallet(ix.user)} \cup {TheMainState, Ata(QuoteMint, ix.user)}
             /\ Inits(ix) = {<<QuoteMint, ix.user>>} /\ InitsIfNeeded(ix) = {}
  <2>1. ix.op \notin Trades /\ ix.op \notin Buys
    BY <1>1 DEF Trades, Buys
  <2>2. Writes(ix) = {Wallet(ix.user)} \cup {TheMainState, Ata(QuoteMint, ix.user)}
    BY <1>1, <2>1, Zenon DEF Writes
  <2>3. Inits(ix) = {<<QuoteMint, ix.user>>}
    BY <1>1, <2>1, Zenon DEF Inits
  <2>4. InitsIfNeeded(ix) = {}
    BY <1>1, <2>1, Zenon DEF InitsIfNeeded
  <2> QED BY <2>2, <2>3, <2>4
<1>2. ASSUME ix.op = "transfer_ownership"
      PROVE  /\ Writes(ix) = {Wallet(ix.user)} \cup {TheMainState}
             /\ Inits(ix) = {} /\ InitsIfNeeded(ix) = {}
  <2>1. ix.op \notin Trades /\ ix.op \notin Buys
    BY <1>2 DEF Trades, Buys
  <2>2. Writes(ix) = {Wallet(ix.user)} \cup {TheMainState}
    BY <1>2, <2>1, Zenon DEF Writes
  <2>3. Inits(ix) = {}
    BY <1>2, <2>1, Zenon DEF Inits
  <2>4. InitsIfNeeded(ix) = {}
    BY <1>2, <2>1, Zenon DEF InitsIfNeeded
  <2> QED BY <2>2, <2>3, <2>4
<1>3. ASSUME ix.op = "update_main_state"
      PROVE  /\ Writes(ix) = {Wallet(ix.user)} \cup
                   {TheMainState, Ata(QuoteMint, ix.input.fee_recipient)}
             /\ Inits(ix) = {}
             /\ InitsIfNeeded(ix) = {<<QuoteMint, ix.input.fee_recipient>>}
  <2>1. ix.op \notin Trades /\ ix.op \notin Buys
    BY <1>3 DEF Trades, Buys
  <2>2. Writes(ix) = {Wallet(ix.user)} \cup
                   {TheMainState, Ata(QuoteMint, ix.input.fee_recipient)}
    BY <1>3, <2>1, Zenon DEF Writes
  <2>3. Inits(ix) = {}
    BY <1>3, <2>1, Zenon DEF Inits
  <2>4. InitsIfNeeded(ix) = {<<QuoteMint, ix.input.fee_recipient>>}
    BY <1>3, <2>1, Zenon DEF InitsIfNeeded
  <2> QED BY <2>2, <2>3, <2>4
<1> QED BY <1>1, <1>2, <1>3

-----------------------------------------------------------------------------
(* Balances, and what a transfer makes of them.                              *)
Table(b) == b = [t \in Mints |-> [h \in Holders |-> b[t][h]]]

Apply(b, move) == Transfer(b, move.token, move.from, move.to, move.amount)
Pays(b, move) == Covers(b, move.token, move.from, move.amount)

(* The balances once b's accounts that the instruction writes are written    *)
(* back over c.                                                              *)
Merge(ix, b, c) ==
    [t \in Mints |-> [h \in Holders |->
        IF Ata(t, h) \in Writes(ix) THEN b[t][h] ELSE c[t][h]]]

Locks(ix, move) ==
    /\ move.token \in Mints /\ move.from \in Holders /\ move.to \in Holders
    /\ Ata(move.token, move.from) \in Writes(ix)
    /\ Ata(move.token, move.to) \in Writes(ix)

Moved(x, move, t, h) ==
    LET debited == IF t = move.token /\ h = move.from THEN x - move.amount ELSE x
    IN  IF t = move.token /\ h = move.to THEN debited + move.amount ELSE debited

(* Tables that agree on every token and holder are equal.                    *)
LEMMA TableEquality ==
    ASSUME NEW b, NEW c, Table(b), Table(c),
           \A t \in Mints, h \in Holders : b[t][h] = c[t][h]
    PROVE  b = c
  BY DEF Table

(* The balances of every state are a table.                                  *)
LEMMA BalancesAreTables == ASSUME NEW b \in Balances PROVE Table(b)
  BY DEF Balances, Table

(* A write-back takes the locked token accounts from the copy and the others *)
(* from the ledger.                                                          *)
LEMMA MergeIsTable ==
    ASSUME NEW ix, NEW b, NEW c
    PROVE  /\ Table(Merge(ix, b, c))
           /\ \A t \in Mints, h \in Holders :
                Merge(ix, b, c)[t][h] = IF Ata(t, h) \in Writes(ix) THEN b[t][h] ELSE c[t][h]
  BY DEF Merge, Table

(* A transfer changes the sender's and the receiver's account, and nothing   *)
(* else.                                                                     *)
LEMMA ApplyFacts ==
    ASSUME NEW b, Table(b), NEW move, move.token \in Mints,
           move.from \in Holders, move.to \in Holders
    PROVE  /\ Table(Apply(b, move))
           /\ \A t \in Mints, h \in Holders :
                Apply(b, move)[t][h] = Moved(b[t][h], move, t, h)
<1> DEFINE token == move.token
           debited == [b[token] EXCEPT ![move.from] = @ - move.amount]
           row == [debited EXCEPT ![move.to] = @ + move.amount]
           new == [b EXCEPT ![token] = row]
<1>1. /\ DOMAIN b = Mints /\ b = [t \in Mints |-> b[t]]
      /\ \A t \in Mints : b[t] = [h \in Holders |-> b[t][h]]
  BY DEF Table
<1>2. debited = [h \in Holders |-> IF h = move.from THEN b[token][h] - move.amount
                                   ELSE b[token][h]]
  BY <1>1
<1> HIDE DEF debited
<1>3. row = [h \in Holders |-> IF h = move.to THEN debited[h] + move.amount ELSE debited[h]]
  BY <1>2
<1> HIDE DEF row
<1>4. new = [t \in Mints |-> IF t = token THEN row ELSE b[t]]
  BY <1>1
<1>5. Apply(b, move) = new
  BY DEF Apply, Transfer, row, debited
<1> HIDE DEF new
<1>6. \A t \in Mints : new[t] = [h \in Holders |-> new[t][h]]
  <2> TAKE t \in Mints
  <2>1. CASE t = token
    <3>1. new[t] = row
      BY <1>4, <2>1
    <3>2. row = [h \in Holders |-> row[h]]
      BY <1>3
    <3> QED BY <3>1, <3>2
  <2>2. CASE t # token
    <3>1. new[t] = b[t]
      BY <1>4, <2>2
    <3> QED BY <1>1, <3>1
  <2> QED BY <2>1, <2>2
<1>7. Table(new)
  <2>1. new = [t \in Mints |-> new[t]]
    BY <1>4
  <2>2. [t \in Mints |-> new[t]] = [t \in Mints |-> [h \in Holders |-> new[t][h]]]
    BY <1>6
  <2> QED BY <2>1, <2>2 DEF Table
<1>8. ASSUME NEW t \in Mints, NEW h \in Holders
      PROVE  new[t][h] = Moved(b[t][h], move, t, h)
  <2>1. CASE t = token
    <3>1. new[t][h] = IF h = move.to THEN debited[h] + move.amount ELSE debited[h]
      BY <1>3, <1>4, <2>1
    <3>2. debited[h] = IF h = move.from THEN b[t][h] - move.amount ELSE b[t][h]
      BY <1>2, <2>1
    <3> QED BY <2>1, <3>1, <3>2 DEF Moved
  <2>2. CASE t # token
    BY <1>4, <2>2 DEF Moved
  <2> QED BY <2>1, <2>2
<1> QED BY <1>5, <1>7, <1>8

(* One transfer between locked accounts may be made before or after the      *)
(* write-back.                                                               *)
LEMMA MergeApply ==
    ASSUME NEW ix, NEW b, NEW c, Table(b), Table(c), NEW move, Locks(ix, move)
    PROVE  /\ Merge(ix, Apply(b, move), c) = Apply(Merge(ix, b, c), move)
           /\ Pays(b, move) <=> Pays(Merge(ix, b, c), move)
<1> DEFINE left == Merge(ix, Apply(b, move), c)
           right == Apply(Merge(ix, b, c), move)
<1>1. move.token \in Mints /\ move.from \in Holders /\ move.to \in Holders
  BY DEF Locks
<1>2. Table(left) /\ Table(right)
  BY <1>1, MergeIsTable, ApplyFacts
<1>3. ASSUME NEW t \in Mints, NEW h \in Holders
      PROVE  left[t][h] = right[t][h]
  <2>1. left[t][h] = IF Ata(t, h) \in Writes(ix) THEN Apply(b, move)[t][h] ELSE c[t][h]
    BY MergeIsTable
  <2>2. Apply(b, move)[t][h] = Moved(b[t][h], move, t, h)
    BY <1>1, ApplyFacts
  <2>3. right[t][h] = Moved(Merge(ix, b, c)[t][h], move, t, h)
    BY <1>1, MergeIsTable, ApplyFacts
  <2>4. Merge(ix, b, c)[t][h] = IF Ata(t, h) \in Writes(ix) THEN b[t][h] ELSE c[t][h]
    BY MergeIsTable
  <2> HIDE DEF left, right
  <2>5. CASE Ata(t, h) \in Writes(ix)
    BY <2>1, <2>2, <2>3, <2>4, <2>5
  <2>6. CASE Ata(t, h) \notin Writes(ix)
    <3>1. ~(t = move.token /\ h = move.from) /\ ~(t = move.token /\ h = move.to)
      BY <2>6 DEF Locks
    <3>2. Moved(c[t][h], move, t, h) = c[t][h]
      BY <3>1 DEF Moved
    <3> QED BY <2>1, <2>3, <2>4, <2>6, <3>2
  <2> QED BY <2>5, <2>6
<1>4. left = right
  <2> HIDE DEF left, right
  <2> QED BY <1>2, <1>3, TableEquality
<1>5. Merge(ix, b, c)[move.token][move.from] = b[move.token][move.from]
  BY <1>1, MergeIsTable DEF Locks
<1> QED BY <1>4, <1>5 DEF Pays, Covers

(* The first k transfers, done.                                              *)
After(b, moves, k) ==
    IF k = 0 THEN b
    ELSE IF k = 1 THEN Apply(b, moves[1])
    ELSE IF k = 2 THEN Apply(Apply(b, moves[1]), moves[2])
    ELSE Apply(Apply(Apply(b, moves[1]), moves[2]), moves[3])

AllPaid(b, moves, k) == \A i \in 1 .. k : Pays(After(b, moves, i - 1), moves[i])

(* The balances after one more transfer.                                     *)
LEMMA AfterStep ==
    ASSUME NEW b, NEW moves, NEW k \in 0 .. 2
    PROVE  After(b, moves, k + 1) = Apply(After(b, moves, k), moves[k + 1])
<1>1. k = 0 \/ k = 1 \/ k = 2
  OBVIOUS
<1> QED BY <1>1 DEF After

(* Transfers make tables of tables.                                          *)
LEMMA AfterIsTable ==
    ASSUME NEW b, Table(b), NEW ix, NEW moves, NEW k \in 0 .. 3,
           \A i \in 1 .. k : Locks(ix, moves[i])
    PROVE  Table(After(b, moves, k))
<1>1. CASE k = 0
  BY <1>1 DEF After
<1>2. CASE k >= 1
  <2>1. Locks(ix, moves[1])
    BY <1>2
  <2>2. Table(Apply(b, moves[1]))
    BY <2>1, ApplyFacts DEF Locks
  <2>3. CASE k = 1
    BY <2>2, <2>3 DEF After
  <2>4. CASE k >= 2
    <3>1. Locks(ix, moves[2])
      BY <2>4
    <3>2. Table(Apply(Apply(b, moves[1]), moves[2]))
      BY <2>2, <3>1, ApplyFacts DEF Locks
    <3>3. CASE k = 2
      BY <3>2, <3>3 DEF After
    <3>4. CASE k = 3
      <4>1. Locks(ix, moves[3])
        BY <3>4
      <4> QED BY <3>2, <3>4, <4>1, ApplyFacts DEF Locks, After
    <3> QED BY <2>4, <3>3, <3>4
  <2> QED BY <1>2, <2>3, <2>4
<1> QED BY <1>1, <1>2

(* Transfers on the copy, written back, are the same transfers on the        *)
(* ledger.                                                                   *)
LEMMA MergeAfter ==
    ASSUME NEW ix, NEW b, NEW c, Table(b), Table(c), Merge(ix, b, c) = c,
           NEW moves, NEW k \in 0 .. 3,
           \A i \in 1 .. k : Locks(ix, moves[i])
    PROVE  /\ Merge(ix, After(b, moves, k), c) = After(c, moves, k)
           /\ k < 3 /\ Locks(ix, moves[k + 1]) =>
                (Pays(After(b, moves, k), moves[k + 1])
                    <=> Pays(After(c, moves, k), moves[k + 1]))
<1>1. ASSUME NEW j \in 0 .. 2, j < k,
             Merge(ix, After(b, moves, j), c) = After(c, moves, j)
      PROVE  Merge(ix, After(b, moves, j + 1), c) = After(c, moves, j + 1)
  <2>1. Locks(ix, moves[j + 1]) /\ \A i \in 1 .. j : Locks(ix, moves[i])
    BY <1>1
  <2>2. Table(After(b, moves, j))
    BY <2>1, AfterIsTable
  <2>3. Merge(ix, Apply(After(b, moves, j), moves[j + 1]), c)
          = Apply(Merge(ix, After(b, moves, j), c), moves[j + 1])
    BY <2>1, <2>2, MergeApply
  <2> QED BY <1>1, <2>3, AfterStep
<1>2. Merge(ix, After(b, moves, 0), c) = After(c, moves, 0)
  BY DEF After
<1>3. 0 < k => Merge(ix, After(b, moves, 1), c) = After(c, moves, 1)
  BY <1>1, <1>2
<1>4. 1 < k => Merge(ix, After(b, moves, 2), c) = After(c, moves, 2)
  BY <1>1, <1>3
<1>5. 2 < k => Merge(ix, After(b, moves, 3), c) = After(c, moves, 3)
  BY <1>1, <1>4
<1>6. Merge(ix, After(b, moves, k), c) = After(c, moves, k)
  <2>1. k = 0 \/ k = 1 \/ k = 2 \/ k = 3
    OBVIOUS
  <2> QED BY <1>2, <1>3, <1>4, <1>5, <2>1
<1>7. ASSUME Locks(ix, moves[k + 1])
      PROVE  Pays(After(b, moves, k), moves[k + 1])
                 <=> Pays(After(c, moves, k), moves[k + 1])
  <2>1. Table(After(b, moves, k))
    BY AfterIsTable
  <2> QED BY <1>6, <1>7, <2>1, MergeApply
<1> QED BY <1>6, <1>7

-----------------------------------------------------------------------------
(* A transaction's copy against the accounts as they were when it began, and *)
(* these against the accounts as they are: on what the transaction locked,   *)
(* nothing else has changed them.                                            *)
Views ==
    [balance : Balances, atas : SUBSET (Mints \X Holders),
     mint : [BaseMints -> MintAccount], mainState : MainStateAccount,
     pool : [BaseMints -> PoolState]]

Agree(ix, v, w) ==
    /\ \A t \in Mints, h \in Holders : Ata(t, h) \in Writes(ix) =>
           /\ v.balance[t][h] = w.balance[t][h]
           /\ <<t, h>> \in v.atas <=> <<t, h>> \in w.atas
    /\ \A m \in BaseMints : MintOf(m) \in Used(ix) => v.mint[m] = w.mint[m]
    /\ TheMainState \in Used(ix) => v.mainState = w.mainState
    /\ \A m \in BaseMints : PoolOf(m) \in Used(ix) => v.pool[m] = w.pool[m]

Opened(ix, w) == [w EXCEPT !.atas = @ \cup Inits(ix) \cup InitsIfNeeded(ix)]

InHandler(ix, base) == AccountError(ix, base) = "none"
InCpis(ix, base) == InHandler(ix, base) /\ HandlerError(ix, Opened(ix, base)) = "none"

Moves(ix, base) == Transfers(ix, Opened(ix, base))
CopyAfter(ix, base, k) ==
    [Booked(ix, Opened(ix, base)) EXCEPT !.balance = After(base.balance, Moves(ix, base), k)]

(* What a transaction has got to, from the accounts it began with.           *)
Progress(t, base) ==
    \/ t.stage = "accounts" /\ t.todo = << >> /\ t.copy = base
    \/ /\ t.stage = "handler"
       /\ InHandler(t.ix, base)
       /\ t.todo = << >>
       /\ t.copy = Opened(t.ix, base)
    \/ /\ t.stage = "cpi"
       /\ InCpis(t.ix, base)
       /\ t.spent = Spent(t.ix, Opened(t.ix, base))
       /\ \E k \in 0 .. Len(Moves(t.ix, base)) :
            /\ AllPaid(base.balance, Moves(t.ix, base), k)
            /\ t.copy = CopyAfter(t.ix, base, k)
            /\ t.todo = SubSeq(Moves(t.ix, base), k + 1, Len(Moves(t.ix, base)))

(* A transaction in execution, field by field.                               *)
Execution(stage, ix, copy, todo, spent) ==
    [stage |-> stage, ix |-> ix, copy |-> copy, todo |-> todo, spent |-> spent]

Sound(t, now) ==
    /\ t = Execution(t.stage, t.ix, t.copy, t.todo, t.spent)
    /\ t.ix \in Instructions
    /\ \E base \in Views : Agree(t.ix, base, now) /\ Progress(t, base)

TxInv ==
    /\ tx = [s \in Slots |-> tx[s]]
    /\ \A s \in Slots : Running(s) => Sound(tx[s], Copy)
    /\ \A r, s \in Slots : r # s /\ Running(r) /\ Running(s) =>
           Compatible(tx[r].ix, tx[s].ix)

(* Agreement on the accounts of an instruction is transitive.                *)
LEMMA AgreeIsTransitive ==
    ASSUME NEW ix, NEW u, NEW v, NEW w, Agree(ix, u, v), Agree(ix, v, w)
    PROVE  Agree(ix, u, w)
  BY DEF Agree

(* A transaction stays sound when nobody touches its accounts.               *)
LEMMA SoundStays ==
    ASSUME NEW t, NEW v, NEW w, Sound(t, v), Agree(t.ix, v, w)
    PROVE  Sound(t, w)
<1>1. PICK base \in Views : Agree(t.ix, base, v) /\ Progress(t, base)
  BY DEF Sound
<1>2. Agree(t.ix, base, w)
  BY <1>1, AgreeIsTransitive
<1> QED BY <1>1, <1>2 DEF Sound

(* The program's accounts are one of the views a transaction may start from. *)
LEMMA CopyIsView == IInv => Copy \in Views
  BY DEF IInv, TypeOK, LedgerTypeOK, Copy, Views, Balances

-----------------------------------------------------------------------------
(* The steps inside a transaction.                                           *)
LEMMA Unmoved ==
    ASSUME NEW ix, vars' = vars
    PROVE  Copy' = Copy /\ Agree(ix, Copy, Copy')
<1>1. Copy' = Copy
  BY DEF vars, Copy
<1>2. Agree(ix, Copy, Copy)
  BY DEF Agree
<1> QED BY <1>1, <1>2

(* A view agrees with itself.                                                *)
LEMMA AgreeWithOneself == ASSUME NEW ix, NEW v PROVE Agree(ix, v, v)
  BY DEF Agree

(* Compatibility of two instructions is symmetric.                           *)
LEMMA CompatibleBothWays ==
    ASSUME NEW one, NEW other, Compatible(one, other)
    PROVE  Compatible(other, one)
  BY DEF Compatible

(* A step of slot s within its own copy.                                     *)
LEMMA InnerStep ==
    ASSUME TxInv, NEW s \in Slots, Running(s), vars' = vars,
           NEW t, tx' = [tx EXCEPT ![s] = t],
           t.stage \notin {"idle", "failed"} => t.ix = tx[s].ix /\ Sound(t, Copy)
    PROVE  TxInv'
<1>1. Copy' = Copy
  BY DEF vars, Copy
<1>2. /\ tx' = [r \in Slots |-> tx'[r]]
      /\ tx'[s] = t /\ \A r \in Slots : r # s => tx'[r] = tx[r]
  BY DEF TxInv
<1>3. \A r \in Slots : Running(r)' => Running(r) /\ tx'[r].ix = tx[r].ix
  BY <1>2 DEF Running
<1>4. ASSUME NEW r \in Slots, Running(r)'
      PROVE  Sound(tx[r], Copy)'
  BY <1>1, <1>2, <1>3, <1>4 DEF TxInv, Running
<1>5. ASSUME NEW q \in Slots, NEW r \in Slots, q # r, Running(q)', Running(r)'
      PROVE  Compatible(tx'[q].ix, tx'[r].ix)
  BY <1>3, <1>5 DEF TxInv
<1> QED BY <1>2, <1>4, <1>5 DEF TxInv

(* A transaction begins with the accounts as they are, beside those it is    *)
(* compatible with.                                                          *)
LEMMA BeginStep ==
    ASSUME IInv, TxInv, NEW s \in Slots, NEW ix \in Instructions, Begin(s, ix)
    PROVE  TxInv'
<1> DEFINE t == [stage |-> "accounts", ix |-> ix, copy |-> Copy, todo |-> << >>, spent |-> 0]
<1>1. /\ vars' = vars /\ Copy' = Copy /\ ~Running(s)
      /\ \A r \in Slots \ {s} : Running(r) => Compatible(ix, tx[r].ix)
      /\ tx' = [tx EXCEPT ![s] = t]
  BY DEF Begin, vars, Copy
<1>2. Sound(t, Copy)
  <2>1. Agree(ix, Copy, Copy) /\ Copy \in Views
    BY AgreeWithOneself, CopyIsView
  <2>2. Progress(t, Copy)
    BY DEF Progress
  <2> QED BY <2>1, <2>2 DEF Sound, Execution
<1>3. t.ix = ix
  OBVIOUS
<1> HIDE DEF t
<1>4. /\ tx' = [r \in Slots |-> tx'[r]]
      /\ tx'[s] = t /\ \A r \in Slots : r # s => tx'[r] = tx[r]
  BY <1>1 DEF TxInv
<1>5. \A r \in Slots : r # s => (Running(r)' <=> Running(r))
  BY <1>4 DEF Running
<1>6. ASSUME NEW r \in Slots, Running(r)'
      PROVE  Sound(tx[r], Copy)'
  BY <1>1, <1>2, <1>4, <1>5, <1>6 DEF TxInv
<1>7. ASSUME NEW q \in Slots, NEW r \in Slots, q # r, Running(q)', Running(r)'
      PROVE  Compatible(tx'[q].ix, tx'[r].ix)
  <2>1. CASE q = s
    BY <1>1, <1>3, <1>4, <1>5, <1>7, <2>1
  <2>2. CASE r = s
    BY <1>1, <1>3, <1>4, <1>5, <1>7, <2>2, CompatibleBothWays
  <2>3. CASE q # s /\ r # s
    BY <1>4, <1>5, <1>7, <2>3 DEF TxInv
  <2> QED BY <2>1, <2>2, <2>3
<1> QED BY <1>4, <1>6, <1>7 DEF TxInv

(* A transaction that fails leaves the others sound.                         *)
LEMMA FailStep ==
    ASSUME TxInv, NEW s \in Slots, Running(s), NEW code, Fail(s, code)
    PROVE  TxInv'
<1>1. vars' = vars
  BY DEF Fail
<1>2. tx' = [tx EXCEPT ![s] =
             [stage |-> "failed", ix |-> Submitted(tx[s].ix), code |-> code]]
  BY DEF Fail
<1> QED BY <1>1, <1>2, InnerStep

(* So does one that runs out of compute.                                     *)
LEMMA ComputeStep ==
    ASSUME TxInv, NEW s \in Slots, RunOutOfCompute(s)
    PROVE  TxInv'
  BY InnerStep DEF RunOutOfCompute, Idle

(* The copy once the constraints have created the missing token accounts.    *)
LEMMA OpenedFacts ==
    ASSUME NEW ix, NEW base \in Views
    PROVE  /\ Opened(ix, base).balance = base.balance
           /\ Opened(ix, base).atas = base.atas \cup Inits(ix) \cup InitsIfNeeded(ix)
           /\ Opened(ix, base).mint = base.mint
           /\ Opened(ix, base).mainState = base.mainState
           /\ Opened(ix, base).pool = base.pool
           /\ Opened(ix, base) = [balance |-> Opened(ix, base).balance,
                                  atas |-> Opened(ix, base).atas,
                                  mint |-> Opened(ix, base).mint,
                                  mainState |-> Opened(ix, base).mainState,
                                  pool |-> Opened(ix, base).pool]
<1> DEFINE new == base.atas \cup Inits(ix) \cup InitsIfNeeded(ix)
<1> HIDE DEF new
<1>1. Opened(ix, base) = [base EXCEPT !.atas = new]
  BY DEF Opened, new
<1>2. base = [balance |-> base.balance, atas |-> base.atas, mint |-> base.mint,
              mainState |-> base.mainState, pool |-> base.pool]
  BY DEF Views
<1>3. [base EXCEPT !.atas = new]
        = [balance |-> base.balance, atas |-> new, mint |-> base.mint,
           mainState |-> base.mainState, pool |-> base.pool]
  BY <1>2
<1> HIDE DEF Opened
<1>4. Opened(ix, base)
        = [balance |-> base.balance, atas |-> new, mint |-> base.mint,
           mainState |-> base.mainState, pool |-> base.pool]
  BY <1>1, <1>3
<1> QED BY <1>4 DEF new

(* One field of a running transaction, reassigned.                           *)
LEMMA OneFieldReassigned ==
    ASSUME NEW a, NEW b, NEW c, NEW d, NEW e, NEW x
    PROVE  /\ [Execution(a, b, c, d, e) EXCEPT !.stage = x] = Execution(x, b, c, d, e)
           /\ [Execution(a, b, c, d, e) EXCEPT !.copy = x] = Execution(a, b, x, d, e)
           /\ [Execution(a, b, c, d, e) EXCEPT !.todo = x] = Execution(a, b, c, x, e)
           /\ [Execution(a, b, c, d, e) EXCEPT !.spent = x] = Execution(a, b, c, d, x)
<1>1. [Execution(a, b, c, d, e) EXCEPT !.stage = x] = Execution(x, b, c, d, e)
  BY DEF Execution
<1>2. [Execution(a, b, c, d, e) EXCEPT !.copy = x] = Execution(a, b, x, d, e)
  BY DEF Execution
<1>3. [Execution(a, b, c, d, e) EXCEPT !.todo = x] = Execution(a, b, c, x, e)
  BY DEF Execution
<1>4. [Execution(a, b, c, d, e) EXCEPT !.spent = x] = Execution(a, b, c, d, x)
  BY DEF Execution
<1> QED BY <1>1, <1>2, <1>3, <1>4

(* The constraints are checked on the copy alone.                            *)
LEMMA CheckAccountsStep ==
    ASSUME TxInv, NEW s \in Slots, CheckAccounts(s)
    PROVE  TxInv'
<1> DEFINE t == tx[s]
           error == AccountError(t.ix, t.copy)
<1>1. t.stage = "accounts" /\ Running(s) /\ Sound(t, Copy)
  BY DEF CheckAccounts, Running, TxInv
<1>2. CASE error # "none" /\ Fail(s, error)
  BY <1>1, <1>2, FailStep
<1>3. CASE /\ error = "none"
           /\ tx' = [tx EXCEPT ![s].stage = "handler",
                               ![s].copy.atas = @ \cup Inits(t.ix) \cup InitsIfNeeded(t.ix)]
           /\ UNCHANGED vars
  <2> DEFINE new == Execution("handler", t.ix, Opened(t.ix, t.copy), t.todo, t.spent)
  <2>1. PICK base \in Views : /\ Agree(t.ix, base, Copy)
                              /\ t.copy = base /\ t.todo = << >>
    BY <1>1 DEF Sound, Progress
  <2>2. t = Execution(t.stage, t.ix, t.copy, t.todo, t.spent)
    BY <1>1 DEF Sound
  <2>3. tx' = [tx EXCEPT ![s] = new]
    <3> DEFINE opened == [t.copy EXCEPT !.atas = @ \cup Inits(t.ix) \cup InitsIfNeeded(t.ix)]
    <3>1. tx' = [tx EXCEPT ![s] = tx'[s]]
      BY <1>3 DEF TxInv
    <3>2. tx'[s] = [[t EXCEPT !.stage = "handler"] EXCEPT !.copy = opened]
      BY <1>3, <2>2 DEF TxInv
    <3>3. opened = Opened(t.ix, t.copy)
      BY DEF Opened
    <3> HIDE DEF opened
    <3>4. [t EXCEPT !.stage = "handler"] = Execution("handler", t.ix, t.copy, t.todo, t.spent)
      BY <2>2, OneFieldReassigned
    <3>5. [Execution("handler", t.ix, t.copy, t.todo, t.spent) EXCEPT !.copy = opened]
            = Execution("handler", t.ix, opened, t.todo, t.spent)
      BY DEF Execution
    <3>6. tx'[s] = new
      BY <3>2, <3>3, <3>4, <3>5
    <3> QED BY <3>1, <3>6
  <2>4. Sound(new, Copy)
    <3>1. Progress(new, base)
      BY <1>3, <2>1 DEF Progress, InHandler, Execution
    <3>2. t.ix \in Instructions
      BY <1>1 DEF Sound
    <3> QED BY <2>1, <3>1, <3>2 DEF Sound, Execution
  <2>5. new.ix = t.ix /\ vars' = vars
    BY <1>3 DEF Execution
  <2> HIDE DEF new
  <2> QED BY <1>1, <2>3, <2>4, <2>5, InnerStep
<1> QED BY <1>2, <1>3 DEF CheckAccounts

-----------------------------------------------------------------------------
(* The transfers of each instruction: at most three, between accounts it     *)
(* declares mut.                                                             *)
LEMMA BuyMoves3 ==
    ASSUME NEW ix, ix.op \in Buys, NEW w
    PROVE  Transfers(ix, w) =
             <<Move(QuoteMint, ix.user, ix.fee_recipient, Fill(ix, w).fee),
               Move(QuoteMint, ix.user, pool_pda(ix.m), Fill(ix, w).quote),
               Move(ix.m, pool_pda(ix.m), ix.user, Fill(ix, w).base)>>
  BY Zenon DEF Transfers, Buys

(* A sell pays the vault, the fee recipient, and the seller.                 *)
LEMMA SellMoves3 ==
    ASSUME NEW ix, ix.op = "sell", NEW w
    PROVE  Transfers(ix, w) =
             <<Move(ix.m, ix.user, pool_pda(ix.m), Fill(ix, w).base),
               Move(QuoteMint, pool_pda(ix.m), ix.fee_recipient, Fill(ix, w).fee),
               Move(QuoteMint, pool_pda(ix.m), ix.user, Fill(ix, w).quote)>>
<1>1. ix.op \notin Buys
  BY DEF Buys
<1> QED BY <1>1, Zenon DEF Transfers

(* create_pool moves the whole supply to the vault.                          *)
LEMMA CreateMoves1 ==
    ASSUME NEW ix, ix.op = "create_pool", NEW w
    PROVE  Transfers(ix, w) =
             <<Move(ix.m, ix.user, pool_pda(ix.m), w.balance[ix.m][ix.user])>>
<1>1. ix.op \notin Buys
  BY DEF Buys
<1> QED BY <1>1, Zenon DEF Transfers

(* A withdrawal moves what both reserves book.                               *)
LEMMA WithdrawMoves2 ==
    ASSUME NEW ix, ix.op = "withdraw", NEW w
    PROVE  Transfers(ix, w) =
             <<Move(ix.m, pool_pda(ix.m), ix.user, w.pool[ix.m].real_base_reserves),
               Move(QuoteMint, pool_pda(ix.m), ix.user, w.pool[ix.m].real_quote_reserves)>>
<1>1. ix.op \notin Buys
  BY DEF Buys
<1> QED BY <1>1, Zenon DEF Transfers

(* The configuration's instructions transfer nothing.                        *)
LEMMA MainMoves0 ==
    ASSUME NEW ix, NEW w,
           ix.op \in {"init_main_state", "transfer_ownership", "update_main_state"}
    PROVE  Transfers(ix, w) = << >>
<1>1. ix.op \notin Buys /\ ix.op # "sell" /\ ix.op # "create_pool" /\ ix.op # "withdraw"
  BY DEF Buys
<1> QED BY <1>1, Zenon DEF Transfers

(* Every transfer is between two token accounts the instruction declares     *)
(* mut.                                                                      *)
LEMMA MovesAreLocked ==
    ASSUME NEW ix \in Instructions, NEW w
    PROVE  /\ Len(Transfers(ix, w)) \in 0 .. 3
           /\ Transfers(ix, w) \in
                Seq({Transfers(ix, w)[i] : i \in 1 .. Len(Transfers(ix, w))})
           /\ \A i \in 1 .. Len(Transfers(ix, w)) : Locks(ix, Transfers(ix, w)[i])
<1> DEFINE fill == Fill(ix, w)
           vault == pool_pda(ix.m)
<1>1. CASE ix.op \in Buys
  <2>1. ix.op \in Trades /\ ix.user \in Holders /\ ix.fee_recipient \in Holders
        /\ ix.m \in Mints /\ vault \in Holders /\ QuoteMint \in Mints
    BY <1>1, TradeShape, PdaFacts DEF Trades
  <2>2. Locks(ix, Move(QuoteMint, ix.user, ix.fee_recipient, fill.fee))
    BY <2>1, TradeAccounts DEF Locks, Move
  <2>3. Locks(ix, Move(QuoteMint, ix.user, vault, fill.quote))
    BY <2>1, TradeAccounts DEF Locks, Move, Vaults
  <2>4. Locks(ix, Move(ix.m, vault, ix.user, fill.base))
    BY <2>1, TradeAccounts DEF Locks, Move, Vaults
  <2> HIDE DEF fill, vault
  <2>5. PICK a, b, c : Transfers(ix, w) = <<a, b, c>>
                         /\ Locks(ix, a) /\ Locks(ix, b) /\ Locks(ix, c)
    BY <1>1, <2>2, <2>3, <2>4, BuyMoves3, Zenon DEF fill, vault
  <2> QED BY <2>5
<1>2. CASE ix.op = "sell"
  <2>1. ix.op \in Trades /\ ix.user \in Holders /\ ix.fee_recipient \in Holders
        /\ ix.m \in Mints /\ vault \in Holders /\ QuoteMint \in Mints
    BY <1>2, TradeShape, PdaFacts DEF Trades
  <2>2. Locks(ix, Move(ix.m, ix.user, vault, fill.base))
    BY <2>1, TradeAccounts DEF Locks, Move, Vaults
  <2>3. Locks(ix, Move(QuoteMint, vault, ix.fee_recipient, fill.fee))
    BY <2>1, TradeAccounts DEF Locks, Move, Vaults
  <2>4. Locks(ix, Move(QuoteMint, vault, ix.user, fill.quote))
    BY <2>1, TradeAccounts DEF Locks, Move, Vaults
  <2> HIDE DEF fill, vault
  <2>5. PICK a, b, c : Transfers(ix, w) = <<a, b, c>>
                         /\ Locks(ix, a) /\ Locks(ix, b) /\ Locks(ix, c)
    BY <1>2, <2>2, <2>3, <2>4, SellMoves3, Zenon DEF fill, vault
  <2> QED BY <2>5
<1>3. CASE ix.op = "create_pool"
  <2>1. ix.user \in Holders /\ ix.m \in Mints /\ vault \in Holders
    BY <1>3, PoolShape, PdaFacts
  <2>2. PICK x : x = w.balance[ix.m][ix.user]
    OBVIOUS
  <2>3. Locks(ix, Move(ix.m, ix.user, vault, x))
    BY <1>3, <2>1, CreateAccounts DEF Locks, Move, Vaults
  <2>4. PICK a : Transfers(ix, w) = <<a>> /\ Locks(ix, a)
    BY <1>3, <2>2, <2>3, CreateMoves1, Zenon
  <2> QED BY <2>4
<1>4. CASE ix.op = "withdraw"
  <2>1. ix.user \in Holders /\ ix.m \in Mints /\ vault \in Holders /\ QuoteMint \in Mints
    BY <1>4, PoolShape, PdaFacts
  <2>2. PICK x, y : x = w.pool[ix.m].real_base_reserves
                    /\ y = w.pool[ix.m].real_quote_reserves
    OBVIOUS
  <2>3. Locks(ix, Move(ix.m, vault, ix.user, x))
    BY <1>4, <2>1, WithdrawAccounts DEF Locks, Move, Vaults
  <2>4. Locks(ix, Move(QuoteMint, vault, ix.user, y))
    BY <1>4, <2>1, WithdrawAccounts DEF Locks, Move, Vaults
  <2>5. PICK a, b : Transfers(ix, w) = <<a, b>> /\ Locks(ix, a) /\ Locks(ix, b)
    BY <1>4, <2>2, <2>3, <2>4, WithdrawMoves2, Zenon
  <2> QED BY <2>5
<1>5. CASE ix.op \in {"init_main_state", "transfer_ownership", "update_main_state"}
  <2>1. Transfers(ix, w) = << >>
    BY <1>5, MainMoves0
  <2>2. Len(Transfers(ix, w)) = 0
    BY <2>1
  <2>3. 1 .. Len(Transfers(ix, w)) = {}
    BY <2>2
  <2>4. Transfers(ix, w) \in Seq({Transfers(ix, w)[i] : i \in 1 .. Len(Transfers(ix, w))})
    BY <2>1, EmptySeq
  <2> QED BY <2>2, <2>3, <2>4
<1> QED BY <1>1, <1>2, <1>3, <1>4, <1>5, InstructionKinds DEF Trades

(* The transfers still to do, once k are done.                               *)
LEMMA RestOfMoves ==
    ASSUME NEW S, NEW q \in Seq(S), NEW k \in 0 .. Len(q)
    PROVE  /\ SubSeq(q, 1, Len(q)) = q
           /\ SubSeq(q, k + 1, Len(q)) # << >> <=> k < Len(q)
           /\ k < Len(q) =>
                /\ Head(SubSeq(q, k + 1, Len(q))) = q[k + 1]
                /\ Tail(SubSeq(q, k + 1, Len(q))) = SubSeq(q, k + 2, Len(q))
  OBVIOUS

(* What the handler has assigned when its first CPI is due: one pool, or the *)
(* main state, and no balance.                                               *)
LEMMA BookedFacts ==
    ASSUME NEW ix \in Instructions, NEW base \in Views
    PROVE  LET w == Opened(ix, base)
               booked == Booked(ix, w)
           IN  /\ booked.balance = base.balance
               /\ booked.atas = w.atas
               /\ booked.mint = base.mint
               /\ booked.mainState = IF OnPool(ix) THEN base.mainState
                                     ELSE UpdatedMainState(ix, w)
               /\ booked.pool = IF OnPool(ix)
                                THEN [base.pool EXCEPT ![ix.m] = BookedPool(ix, w)]
                                ELSE base.pool
               /\ booked = [balance |-> booked.balance, atas |-> booked.atas,
                            mint |-> booked.mint, mainState |-> booked.mainState,
                            pool |-> booked.pool]
<1> DEFINE w == Opened(ix, base)
           View(mainState1, pool1) ==
               [balance |-> base.balance, atas |-> w.atas, mint |-> base.mint,
                mainState |-> mainState1, pool |-> pool1]
<1>1. w = [balance |-> base.balance, atas |-> w.atas, mint |-> base.mint,
           mainState |-> base.mainState, pool |-> base.pool]
  BY OpenedFacts
<1> HIDE DEF w
<1>2. CASE OnPool(ix)
  <2> DEFINE p == BookedPool(ix, w)
             pools == [w.pool EXCEPT ![ix.m] = p]
  <2>1. Booked(ix, w) = [w EXCEPT !.pool[ix.m] = p]
    BY <1>2 DEF Booked
  <2> HIDE DEF p
  <2>2. Booked(ix, w) = [w EXCEPT !.pool = pools]
    BY <2>1
  <2> HIDE DEF pools
  <2>3. Booked(ix, w) = View(base.mainState, pools)
    BY <1>1, <2>2
  <2>4. pools = [base.pool EXCEPT ![ix.m] = p]
    BY <1>1 DEF pools
  <2> QED BY <1>2, <2>3, <2>4 DEF w, p
<1>3. CASE ~OnPool(ix)
  <2> DEFINE main == UpdatedMainState(ix, w)
  <2>1. Booked(ix, w) = [w EXCEPT !.mainState = main]
    BY <1>3 DEF Booked
  <2> HIDE DEF main
  <2>2. Booked(ix, w) = View(main, base.pool)
    BY <1>1, <2>1
  <2> QED BY <1>3, <2>2 DEF w, main
<1> QED BY <1>2, <1>3

(* After k transfers the copy differs from what was booked in the balances.  *)
LEMMA CopyAfterFacts ==
    ASSUME NEW ix \in Instructions, NEW base \in Views, NEW k
    PROVE  LET booked == Booked(ix, Opened(ix, base))
           IN  CopyAfter(ix, base, k) =
                 [balance |-> After(base.balance, Moves(ix, base), k),
                  atas |-> booked.atas, mint |-> booked.mint,
                  mainState |-> booked.mainState, pool |-> booked.pool]
<1> DEFINE booked == Booked(ix, Opened(ix, base))
           new == After(base.balance, Moves(ix, base), k)
<1>1. booked = [balance |-> booked.balance, atas |-> booked.atas,
                mint |-> booked.mint, mainState |-> booked.mainState,
                pool |-> booked.pool]
  BY BookedFacts
<1>2. CopyAfter(ix, base, k) = [booked EXCEPT !.balance = new]
  BY DEF CopyAfter
<1> HIDE DEF booked, new
<1>3. [booked EXCEPT !.balance = new] =
        [balance |-> new, atas |-> booked.atas, mint |-> booked.mint,
         mainState |-> booked.mainState, pool |-> booked.pool]
  BY <1>1
<1> QED BY <1>2, <1>3 DEF booked, new

(* Before the first transfer the copy is what was booked.                    *)
LEMMA FirstCpi ==
    ASSUME NEW ix \in Instructions, NEW base \in Views
    PROVE  /\ CopyAfter(ix, base, 0) = Booked(ix, Opened(ix, base))
           /\ AllPaid(base.balance, Moves(ix, base), 0)
           /\ SubSeq(Moves(ix, base), 1, Len(Moves(ix, base))) = Moves(ix, base)
           /\ 0 \in 0 .. Len(Moves(ix, base))
<1> DEFINE w == Opened(ix, base)
           booked == Booked(ix, w)
           moves == Moves(ix, base)
<1>1. After(base.balance, moves, 0) = base.balance
  BY DEF After
<1>2. CopyAfter(ix, base, 0) = booked
  <2>1. booked.balance = base.balance
        /\ booked = [balance |-> booked.balance, atas |-> booked.atas,
                     mint |-> booked.mint, mainState |-> booked.mainState,
                     pool |-> booked.pool]
    BY BookedFacts
  <2>2. CopyAfter(ix, base, 0) =
          [balance |-> After(base.balance, moves, 0),
           atas |-> booked.atas, mint |-> booked.mint,
           mainState |-> booked.mainState, pool |-> booked.pool]
    BY CopyAfterFacts
  <2> HIDE DEF booked, moves
  <2> QED BY <1>1, <2>1, <2>2
<1>3. AllPaid(base.balance, moves, 0)
  BY DEF AllPaid
<1>4. /\ Len(moves) \in 0 .. 3
      /\ moves \in Seq({moves[i] : i \in 1 .. Len(moves)})
  BY MovesAreLocked DEF Moves
<1> HIDE DEF booked, moves
<1>5. SubSeq(moves, 1, Len(moves)) = moves /\ 0 \in 0 .. Len(moves)
  <2>1. 0 \in 0 .. Len(moves)
    BY <1>4
  <2> QED BY <1>4, <2>1, RestOfMoves
<1> QED BY <1>2, <1>3, <1>5 DEF booked, moves

(* The handler books on the copy alone.                                      *)
LEMMA HandleStep ==
    ASSUME TxInv, NEW s \in Slots, Handle(s)
    PROVE  TxInv'
<1> DEFINE t == tx[s]
           error == HandlerError(t.ix, t.copy)
<1>1. t.stage = "handler" /\ Running(s) /\ Sound(t, Copy)
  BY DEF Handle, Running, TxInv
<1>2. CASE error # "none" /\ Fail(s, error)
  BY <1>1, <1>2, FailStep
<1>3. CASE /\ error = "none"
           /\ tx' = [tx EXCEPT ![s].stage = "cpi",
                               ![s].copy = Booked(t.ix, t.copy),
                               ![s].todo = Transfers(t.ix, t.copy),
                               ![s].spent = Spent(t.ix, t.copy)]
           /\ UNCHANGED vars
  <2> DEFINE copy == Booked(t.ix, t.copy)
             todo == Transfers(t.ix, t.copy)
             spent == Spent(t.ix, t.copy)
             new == Execution("cpi", t.ix, copy, todo, spent)
  <2>1. PICK base \in Views : /\ Agree(t.ix, base, Copy) /\ InHandler(t.ix, base)
                              /\ t.copy = Opened(t.ix, base)
    BY <1>1 DEF Sound, Progress
  <2>2. t = Execution(t.stage, t.ix, t.copy, t.todo, t.spent) /\ t.ix \in Instructions
    BY <1>1 DEF Sound
  <2>3. tx' = [tx EXCEPT ![s] = new]
    <3> HIDE DEF copy, todo, spent
    <3>1. tx' = [tx EXCEPT ![s] = tx'[s]]
      BY <1>3 DEF TxInv
    <3>2. tx'[s] = [[[[t EXCEPT !.stage = "cpi"] EXCEPT !.copy = copy]
                        EXCEPT !.todo = todo] EXCEPT !.spent = spent]
      BY <1>3, <2>2 DEF TxInv, copy, todo, spent
    <3>3. [t EXCEPT !.stage = "cpi"] = Execution("cpi", t.ix, t.copy, t.todo, t.spent)
      BY <2>2 DEF Execution
    <3>4. [Execution("cpi", t.ix, t.copy, t.todo, t.spent) EXCEPT !.copy = copy]
            = Execution("cpi", t.ix, copy, t.todo, t.spent)
      BY DEF Execution
    <3>5. [Execution("cpi", t.ix, copy, t.todo, t.spent) EXCEPT !.todo = todo]
            = Execution("cpi", t.ix, copy, todo, t.spent)
      BY DEF Execution
    <3>6. [Execution("cpi", t.ix, copy, todo, t.spent) EXCEPT !.spent = spent] = new
      BY DEF Execution
    <3>7. tx'[s] = new
      BY <3>2, <3>3, <3>4, <3>5, <3>6
    <3> QED BY <3>1, <3>7
  <2>4. Progress(new, base)
    <3>1. /\ InCpis(t.ix, base)
          /\ spent = Spent(t.ix, Opened(t.ix, base))
          /\ todo = Moves(t.ix, base)
          /\ copy = Booked(t.ix, Opened(t.ix, base))
      BY <1>3, <2>1 DEF InCpis, Moves
    <3> HIDE DEF copy, todo, spent
    <3>2. /\ AllPaid(base.balance, Moves(t.ix, base), 0)
          /\ copy = CopyAfter(t.ix, base, 0)
          /\ todo = SubSeq(Moves(t.ix, base), 0 + 1, Len(Moves(t.ix, base)))
          /\ 0 \in 0 .. Len(Moves(t.ix, base))
      BY <2>2, <3>1, FirstCpi
    <3>3. new.stage = "cpi" /\ new.ix = t.ix /\ new.copy = copy
          /\ new.todo = todo /\ new.spent = spent
      BY DEF Execution
    <3> HIDE DEF new
    <3> QED BY <3>1, <3>2, <3>3 DEF Progress
  <2>5. Sound(new, Copy) /\ new.ix = t.ix
    <3> HIDE DEF copy, todo, spent
    <3>1. new = Execution(new.stage, new.ix, new.copy, new.todo, new.spent)
          /\ new.ix = t.ix
      BY DEF Execution
    <3> HIDE DEF new
    <3> QED BY <2>1, <2>2, <2>4, <3>1 DEF Sound
  <2> HIDE DEF new
  <2> QED BY <1>1, <1>3, <2>3, <2>5, InnerStep
<1> QED BY <1>2, <1>3 DEF Handle

(* A CPI transfers on the copy alone.                                        *)
LEMMA InvokeStep ==
    ASSUME TxInv, NEW s \in Slots, Invoke(s)
    PROVE  TxInv'
<1> DEFINE t == tx[s]
           move == Head(t.todo)
           covered == Covers(t.copy.balance, move.token, move.from, move.amount)
<1>1. t.stage = "cpi" /\ t.todo # << >> /\ Running(s) /\ Sound(t, Copy)
  BY DEF Invoke, Running, TxInv
<1>2. CASE ~covered /\ Fail(s, "InsufficientTokens")
  BY <1>1, <1>2, FailStep
<1>3. CASE /\ covered
           /\ tx' = [tx EXCEPT
                  ![s].todo = Tail(@),
                  ![s].copy.balance =
                      Transfer(@, move.token, move.from, move.to, move.amount)]
           /\ UNCHANGED vars
  <2>1. PICK base \in Views : Agree(t.ix, base, Copy) /\ Progress(t, base)
    BY <1>1 DEF Sound
  <2> DEFINE moves == Moves(t.ix, base)
  <2>2. PICK k \in 0 .. Len(moves) :
             /\ AllPaid(base.balance, moves, k)
             /\ t.copy = CopyAfter(t.ix, base, k)
             /\ t.todo = SubSeq(moves, k + 1, Len(moves))
    BY <1>1, <2>1 DEF Progress
  <2>3. t = Execution(t.stage, t.ix, t.copy, t.todo, t.spent) /\ t.ix \in Instructions
    BY <1>1 DEF Sound
  <2>4. /\ k < Len(moves) /\ k \in 0 .. 2 /\ k + 1 \in 0 .. Len(moves)
        /\ move = moves[k + 1]
        /\ Tail(t.todo) = SubSeq(moves, k + 1 + 1, Len(moves))
    <3> HIDE DEF moves
    <3>1. Len(moves) \in 0 .. 3
          /\ moves \in Seq({moves[i] : i \in 1 .. Len(moves)})
      BY <2>3, MovesAreLocked DEF moves, Moves
    <3>2. k < Len(moves)
      BY <1>1, <2>2, <3>1, RestOfMoves
    <3>3. move = moves[k + 1] /\ Tail(t.todo) = SubSeq(moves, k + 2, Len(moves))
      BY <2>2, <3>1, <3>2, RestOfMoves
    <3>4. k \in 0 .. 2 /\ k + 1 \in 0 .. Len(moves) /\ k + 1 + 1 = k + 2
      <4>1. PICK n \in 0 .. 3 : n = Len(moves)
        BY <3>1
      <4>2. k \in 0 .. n /\ k < n
        BY <3>2, <4>1
      <4>3. k \in 0 .. 2 /\ k + 1 \in 0 .. n /\ k + 1 + 1 = k + 2
        BY <4>2
      <4> QED BY <4>1, <4>3
    <3>5. Tail(t.todo) = SubSeq(moves, k + 1 + 1, Len(moves))
      BY <3>3, <3>4
    <3> HIDE DEF t, move
    <3> QED BY <3>2, <3>3, <3>4, <3>5
  <2> HIDE DEF moves
  <2> DEFINE bal == After(base.balance, moves, k)
             bal1 == After(base.balance, moves, k + 1)
             copy == CopyAfter(t.ix, base, k + 1)
             todo == Tail(t.todo)
             new == Execution("cpi", t.ix, copy, todo, t.spent)
  <2>5. t.copy.balance = bal
    BY <2>2, <2>3, CopyAfterFacts DEF moves
  <2>6. bal1 = Transfer(bal, move.token, move.from, move.to, move.amount)
    BY <2>4, AfterStep DEF Apply
  <2>7. copy = [t.copy EXCEPT !.balance = bal1]
    <3> DEFINE booked == Booked(t.ix, Opened(t.ix, base))
    <3>1. t.copy = [balance |-> bal, atas |-> booked.atas, mint |-> booked.mint,
                    mainState |-> booked.mainState, pool |-> booked.pool]
      BY <2>2, <2>3, CopyAfterFacts DEF moves
    <3>2. copy = [balance |-> bal1, atas |-> booked.atas, mint |-> booked.mint,
                    mainState |-> booked.mainState, pool |-> booked.pool]
      BY <2>3, CopyAfterFacts DEF moves
    <3> HIDE DEF booked, bal, bal1, copy
    <3> QED BY <3>1, <3>2
  <2>8. AllPaid(base.balance, moves, k + 1)
    <3>1. Pays(bal, moves[k + 1])
      BY <1>3, <2>4, <2>5 DEF Pays
    <3>2. ASSUME NEW i \in 1 .. k + 1
          PROVE  Pays(After(base.balance, moves, i - 1), moves[i])
      <4>1. CASE i = k + 1
        <5>1. i - 1 = k
          BY <2>4, <4>1
        <5> QED BY <3>1, <4>1, <5>1
      <4>2. CASE i # k + 1
        BY <2>2, <4>2 DEF AllPaid
      <4> QED BY <4>1, <4>2
    <3> QED BY <3>2 DEF AllPaid
  <2>9. tx' = [tx EXCEPT ![s] = new]
    <3> HIDE DEF bal, bal1, copy, todo
    <3>1. tx' = [tx EXCEPT ![s] = tx'[s]]
      BY <1>3 DEF TxInv
    <3>2. tx'[s] = [[t EXCEPT !.todo = todo] EXCEPT !.copy = copy]
      <4> DEFINE amount == Transfer(t.copy.balance, move.token, move.from, move.to, move.amount)
                 moved == [t.copy EXCEPT !.balance = amount]
      <4>1. tx'[s] = [[t EXCEPT !.todo = todo] EXCEPT !.copy = moved]
        BY <1>3, <2>3 DEF TxInv, todo
      <4>2. amount = bal1
        BY <2>5, <2>6
      <4> HIDE DEF amount
      <4>3. moved = copy
        BY <2>7, <4>2
      <4> QED BY <4>1, <4>3
    <3>3. [t EXCEPT !.todo = todo] = Execution("cpi", t.ix, t.copy, todo, t.spent)
      BY <1>1, <2>3 DEF Execution
    <3>4. [Execution("cpi", t.ix, t.copy, todo, t.spent) EXCEPT !.copy = copy] = new
      BY DEF Execution
    <3>5. tx'[s] = new
      BY <3>2, <3>3, <3>4
    <3> QED BY <3>1, <3>5
  <2>10. new.stage = "cpi" /\ new.ix = t.ix /\ new.copy = copy
         /\ new.todo = todo /\ new.spent = t.spent
         /\ new = Execution(new.stage, new.ix, new.copy, new.todo, new.spent)
    <3> HIDE DEF copy, todo
    <3> QED BY DEF Execution
  <2>11. Progress(new, base)
    <3>1. InCpis(t.ix, base) /\ t.spent = Spent(t.ix, Opened(t.ix, base))
      BY <1>1, <2>1 DEF Progress
    <3> HIDE DEF new
    <3> QED BY <2>4, <2>8, <2>10, <3>1 DEF Progress, moves
  <2>12. Sound(new, Copy)
    <3> HIDE DEF new
    <3> QED BY <2>1, <2>3, <2>10, <2>11 DEF Sound
  <2> HIDE DEF new
  <2> QED BY <1>1, <1>3, <2>9, <2>10, <2>12, InnerStep
<1> QED BY <1>2, <1>3 DEF Invoke

-----------------------------------------------------------------------------
(* The steps that change the accounts.                                       *)
LEMMA OuterStep ==
    ASSUME TxInv, tx' = [r \in Slots |-> tx'[r]],
           \A r \in Slots : Running(r)' =>
               /\ Running(r) /\ tx'[r] = tx[r]
               /\ Agree(tx[r].ix, Copy, Copy')
    PROVE  TxInv'
<1>1. ASSUME NEW r \in Slots, Running(r)'
      PROVE  Sound(tx[r], Copy)'
  <2>1. Sound(tx[r], Copy) /\ Agree(tx[r].ix, Copy, Copy') /\ tx'[r] = tx[r]
    BY <1>1 DEF TxInv
  <2>2. Sound(tx[r], Copy')
    BY <2>1, SoundStays
  <2> QED BY <2>1, <2>2
<1>2. ASSUME NEW q \in Slots, NEW r \in Slots, q # r, Running(q)', Running(r)'
      PROVE  Compatible(tx'[q].ix, tx'[r].ix)
  BY <1>2 DEF TxInv
<1> QED BY <1>1, <1>2 DEF TxInv

(* The write-back at the end of a transaction that went through.             *)
Returned(s) == Settled(tx[s].ix, tx[s].copy)
Returns(s) ==
    /\ tx[s].stage = "cpi"
    /\ tx[s].todo = << >>
    /\ EventsFit(tx[s].ix, tx[s].copy, tx[s].spent)
    /\ balance' = Merge(tx[s].ix, Returned(s).balance, balance)
    /\ atas' = {a \in atas : Ata(a[1], a[2]) \notin Writes(tx[s].ix)}
               \cup {a \in Returned(s).atas : Ata(a[1], a[2]) \in Writes(tx[s].ix)}
    /\ mainState' = IF TheMainState \in Writes(tx[s].ix) THEN Returned(s).mainState
                    ELSE mainState
    /\ pool' = [m \in BaseMints |-> IF PoolOf(m) \in Writes(tx[s].ix)
                                    THEN Returned(s).pool[m] ELSE pool[m]]
    /\ UNCHANGED mint
    /\ tx' = [tx EXCEPT ![s] = Idle]

(* The rest of the handler fails or returns.                                 *)
LEMMA FinishFailsOrReturns ==
    ASSUME NEW s \in Slots, Finish(s)
    PROVE  (tx[s].stage = "cpi" /\ Fail(s, "Overflow")) \/ Returns(s)
<1>1. CASE Fail(s, "Overflow")
  BY <1>1 DEF Finish
<1>2. CASE ~Fail(s, "Overflow")
  BY <1>2, Zenon DEF Finish, Returns, Returned, Merge
<1> QED BY <1>1, <1>2

(* The token accounts that exist once the transaction has returned.          *)
LEMMA ReturnedAtas ==
    ASSUME NEW s \in Slots, Returns(s), NEW t, NEW h
    PROVE  <<t, h>> \in atas' <=>
             IF Ata(t, h) \in Writes(tx[s].ix) THEN <<t, h>> \in Returned(s).atas
             ELSE <<t, h>> \in atas
<1>1. <<t, h>>[1] = t /\ <<t, h>>[2] = h
  OBVIOUS
<1> QED BY <1>1 DEF Returns

(* Who runs beside a transaction sees nothing of its write-back: the locks   *)
(* keep their accounts apart.                                                *)
LEMMA ReturnLeavesOthersAlone ==
    ASSUME NEW s \in Slots, Returns(s), NEW ix, Compatible(ix, tx[s].ix)
    PROVE  Agree(ix, Copy, Copy')
<1> DEFINE written == Writes(tx[s].ix)
<1>1. \A a : a \in Used(ix) => a \notin written
  BY DEF Compatible, Used
<1>2. /\ Copy.balance = balance /\ Copy.atas = atas /\ Copy.mint = mint
      /\ Copy.mainState = mainState /\ Copy.pool = pool
      /\ (Copy').balance = balance' /\ (Copy').atas = atas' /\ (Copy').mint = mint'
      /\ (Copy').mainState = mainState' /\ (Copy').pool = pool'
  BY DEF Copy
<1>3. ASSUME NEW t \in Mints, NEW h \in Holders, Ata(t, h) \in Writes(ix)
      PROVE  balance[t][h] = balance'[t][h] /\ (<<t, h>> \in atas <=> <<t, h>> \in atas')
  <2>1. Ata(t, h) \notin written
    BY <1>1, <1>3 DEF Used
  <2> QED BY <2>1, MergeIsTable, ReturnedAtas DEF Returns
<1>4. \A m \in BaseMints : mint[m] = mint'[m]
  BY DEF Returns
<1>5. TheMainState \in Used(ix) => mainState = mainState'
  BY <1>1 DEF Returns
<1>6. \A m \in BaseMints : PoolOf(m) \in Used(ix) => pool[m] = pool'[m]
  BY <1>1 DEF Returns
<1> QED BY <1>2, <1>3, <1>4, <1>5, <1>6 DEF Agree

(* A write-back leaves the other transactions sound.                         *)
LEMMA FinishStep ==
    ASSUME TxInv, NEW s \in Slots, Finish(s)
    PROVE  TxInv'
<1>1. CASE tx[s].stage = "cpi" /\ Fail(s, "Overflow")
  BY <1>1, FailStep DEF Running
<1>2. CASE Returns(s)
  <2>1. /\ tx' = [r \in Slots |-> tx'[r]]
        /\ tx'[s] = Idle /\ \A r \in Slots : r # s => tx'[r] = tx[r]
    BY <1>2 DEF TxInv, Returns
  <2>2. Running(s)
    BY <1>2 DEF Returns, Running
  <2>3. ASSUME NEW r \in Slots, Running(r)'
        PROVE  /\ Running(r) /\ tx'[r] = tx[r]
               /\ Agree(tx[r].ix, Copy, Copy')
    <3>1. r # s
      BY <2>1, <2>3 DEF Running, Idle
    <3>2. Running(r) /\ tx'[r] = tx[r]
      BY <2>1, <2>3, <3>1 DEF Running
    <3>3. Compatible(tx[r].ix, tx[s].ix)
      BY <2>2, <3>1, <3>2 DEF TxInv
    <3> QED BY <1>2, <3>2, <3>3, ReturnLeavesOthersAlone
  <2> QED BY <2>1, <2>3, OuterStep
<1> QED BY <1>1, <1>2, FinishFailsOrReturns

(* So do other people's transactions of the token program.                   *)
LEMMA LedgerStepKeepsTxInv ==
    ASSUME TxInv, LedgerStep
    PROVE  TxInv'
<1>1. tx' = tx /\ mainState' = mainState /\ pool' = pool
  BY DEF LedgerStep
<1>2. \A r \in Slots : Running(r) => \A a \in Used(tx[r].ix) : a \in Locked
  BY DEF Locked, Used
<1>3. ASSUME NEW r \in Slots, Running(r)
      PROVE  Agree(tx[r].ix, Copy, Copy')
  <2>1. /\ Copy.balance = balance /\ Copy.atas = atas /\ Copy.mint = mint
        /\ Copy.mainState = mainState /\ Copy.pool = pool
        /\ (Copy').balance = balance' /\ (Copy').atas = atas' /\ (Copy').mint = mint'
        /\ (Copy').mainState = mainState' /\ (Copy').pool = pool'
    BY DEF Copy
  <2>2. ASSUME NEW t \in Mints, NEW h \in Holders, Ata(t, h) \in Writes(tx[r].ix)
        PROVE  balance[t][h] = balance'[t][h] /\ (<<t, h>> \in atas <=> <<t, h>> \in atas')
    <3>1. Ata(t, h) \in Locked
      BY <1>2, <1>3, <2>2 DEF Used
    <3> QED BY <3>1 DEF LedgerStep
  <2>3. \A m \in BaseMints : MintOf(m) \in Used(tx[r].ix) => mint[m] = mint'[m]
    BY <1>2, <1>3 DEF LedgerStep
  <2> QED BY <1>1, <2>1, <2>2, <2>3 DEF Agree
<1>4. \A r \in Slots : Running(r)' => Running(r)
  BY <1>1 DEF Running
<1>5. tx' = [r \in Slots |-> tx'[r]]
  BY <1>1 DEF TxInv
<1> QED BY <1>1, <1>3, <1>4, <1>5, OuterStep

-----------------------------------------------------------------------------
(* Which accounts of the program an instruction writes, and the token        *)
(* accounts it creates.                                                      *)
LEMMA ProgramAccounts ==
    ASSUME NEW ix \in Instructions
    PROVE  /\ \A m : PoolOf(m) \in Writes(ix) <=> OnPool(ix) /\ m = ix.m
           /\ TheMainState \in Writes(ix) <=> ~OnPool(ix)
           /\ TheMainState \in Used(ix)
<1>1. CASE ix.op \in Trades
  <2>1. OnPool(ix)
    BY <1>1, TradeShape
  <2> QED BY <1>1, <2>1, TradeAccounts, AddressFacts DEF Vaults, Used
<1>2. CASE ix.op = "create_pool"
  <2>1. OnPool(ix)
    BY <1>2, PoolShape
  <2> QED BY <1>2, <2>1, CreateAccounts, AddressFacts DEF Vaults, Used
<1>3. CASE ix.op = "withdraw"
  <2>1. OnPool(ix)
    BY <1>3, PoolShape
  <2> QED BY <1>3, <2>1, WithdrawAccounts, AddressFacts DEF Vaults, Used
<1>4. CASE ix.op \in {"init_main_state", "transfer_ownership", "update_main_state"}
  <2>1. ~OnPool(ix)
    BY <1>4, MainShape
  <2> QED BY <1>4, <2>1, MainAccounts, AddressFacts DEF Used
<1> QED BY <1>1, <1>2, <1>3, <1>4, InstructionKinds

(* A token account an instruction creates is one it writes.                  *)
LEMMA CreatedAtas ==
    ASSUME NEW ix \in Instructions, NEW a \in Inits(ix) \cup InitsIfNeeded(ix)
    PROVE  \E t \in Mints, h \in Holders : a = <<t, h>> /\ Ata(t, h) \in Writes(ix)
<1>1. CASE ix.op \in Trades
  <2>1. /\ ix.user \in Holders /\ ix.fee_recipient \in Holders
        /\ ix.m \in Mints /\ QuoteMint \in Mints
    BY <1>1, TradeShape, PdaFacts
  <2>2. a \in {<<QuoteMint, ix.fee_recipient>>, <<QuoteMint, ix.user>>, <<ix.m, ix.user>>}
    BY <1>1, TradeAccounts
  <2> QED BY <1>1, <2>1, <2>2, TradeAccounts
<1>2. CASE ix.op = "create_pool"
  <2>1. ix.m \in Mints /\ QuoteMint \in Mints /\ pool_pda(ix.m) \in Holders
    BY <1>2, PoolShape, PdaFacts
  <2> QED BY <1>2, <2>1, CreateAccounts DEF Vaults
<1>3. CASE ix.op = "withdraw"
  <2>1. ix.m \in Mints /\ QuoteMint \in Mints /\ ix.user \in Holders
    BY <1>3, PoolShape, PdaFacts
  <2> QED BY <1>3, <2>1, WithdrawAccounts
<1>4. CASE ix.op \in {"init_main_state", "transfer_ownership", "update_main_state"}
  <2>1. QuoteMint \in Mints /\ ix.user \in Holders
    BY <1>4, MainShape, PdaFacts
  <2>2. ix.op = "update_main_state" => ix.input.fee_recipient \in Holders
    BY <1>4, MainShape, ConfigAssumption DEF UpdateMainStateInput
  <2> QED BY <1>4, <2>1, <2>2, MainAccounts
<1> QED BY <1>1, <1>2, <1>3, <1>4, InstructionKinds

(* What is known when the handler of ix returns, w being the accounts the    *)
(* handler started from: nothing but the locked accounts counted, and these  *)
(* are still what they were.                                                 *)
Applies(ix, w) ==
    /\ ix \in Instructions
    /\ w.mainState = mainState
    /\ OnPool(ix) => w.pool[ix.m] = pool[ix.m]
    /\ ix.op = "create_pool" =>
           w.mint[ix.m] = mint[ix.m] /\ w.balance[ix.m][ix.user] = balance[ix.m][ix.user]
    /\ AccountError(ix, Copy) = "none"
    /\ HandlerError(ix, w) = "none"
    /\ AllPaid(balance, Transfers(ix, w), Len(Transfers(ix, w)))
    /\ Spent(ix, w) \in U64
    /\ ix.op \in Trades \cup {"create_pool"} => ReservesFit(BookedPool(ix, w))

(* What the write-back makes of the accounts.                                *)
Applied(ix, w) ==
    /\ balance' = After(balance, Transfers(ix, w), Len(Transfers(ix, w)))
    /\ atas' = atas \cup Inits(ix) \cup InitsIfNeeded(ix)
    /\ mainState' = IF OnPool(ix) THEN mainState ELSE UpdatedMainState(ix, w)
    /\ pool' = IF OnPool(ix)
               THEN [pool EXCEPT ![ix.m] = SettledPool(ix, BookedPool(ix, w))] ELSE pool
    /\ mint' = mint

(* The constraints say the same of two views that agree on the instruction's *)
(* accounts.                                                                 *)
LEMMA SameAccountError ==
    ASSUME NEW ix \in Instructions, NEW base \in Views, NEW now \in Views,
           Agree(ix, base, now)
    PROVE  AccountError(ix, base) = AccountError(ix, now)
<1>1. base.mainState = now.mainState
  BY ProgramAccounts DEF Agree
<1>2. OnPool(ix) => ix.m \in BaseMints /\ base.pool[ix.m] = now.pool[ix.m]
  <2>1. OnPool(ix) => ix.m \in BaseMints
    BY InstructionKinds, TradeShape, PoolShape, MainShape
  <2> QED BY <2>1, ProgramAccounts DEF Agree, Used
<1>3. Inits(ix) \cap base.atas = {} <=> Inits(ix) \cap now.atas = {}
  BY CreatedAtas DEF Agree
<1>4. ix.op \in {"sell", "create_pool"} =>
        (<<ix.m, ix.user>> \in base.atas <=> <<ix.m, ix.user>> \in now.atas)
  <2>1. ASSUME ix.op \in {"sell", "create_pool"}
        PROVE  ix.m \in Mints /\ ix.user \in Holders /\ Ata(ix.m, ix.user) \in Writes(ix)
    <3>1. ix.op = "sell" => ix.op \in Trades
      BY DEF Trades
    <3> QED BY <2>1, <3>1, TradeShape, PoolShape, PdaFacts, TradeAccounts, CreateAccounts
  <2> QED BY <2>1 DEF Agree
<1>5. ix.op = "sell" => base.balance[ix.m][ix.user] = now.balance[ix.m][ix.user]
  <2>1. ASSUME ix.op = "sell"
        PROVE  ix.m \in Mints /\ ix.user \in Holders /\ Ata(ix.m, ix.user) \in Writes(ix)
    <3>1. ix.op \in Trades
      BY <2>1 DEF Trades
    <3> QED BY <2>1, <3>1, TradeShape, PdaFacts, TradeAccounts
  <2> QED BY <2>1 DEF Agree
<1>6. AccountsHold(ix, base) <=> AccountsHold(ix, now)
  BY <1>1, <1>2, <1>3, <1>4 DEF AccountsHold
<1>7. ix.op = "sell" => (SellerCovers(ix, base) <=> SellerCovers(ix, now))
  BY <1>5 DEF SellerCovers, Covers
<1> QED BY <1>6, <1>7 DEF AccountError

(* Settling a copy changes nothing but the pool of the instruction.          *)
LEMMA SettledFacts ==
    ASSUME NEW ix \in Instructions, NEW b, NEW a, NEW mt, NEW ms, NEW pools
    PROVE  LET w == [balance |-> b, atas |-> a, mint |-> mt, mainState |-> ms, pool |-> pools]
           IN  /\ Settled(ix, w).balance = b
               /\ Settled(ix, w).atas = a
               /\ Settled(ix, w).mainState = ms
               /\ Settled(ix, w).pool =
                    IF OnPool(ix) THEN [pools EXCEPT ![ix.m] = SettledPool(ix, pools[ix.m])]
                    ELSE pools
<1> DEFINE w == [balance |-> b, atas |-> a, mint |-> mt, mainState |-> ms, pool |-> pools]
           new == [pools EXCEPT ![ix.m] = SettledPool(ix, pools[ix.m])]
<1>1. CASE OnPool(ix)
  <2>1. Settled(ix, w) = [w EXCEPT !.pool = new]
    BY <1>1 DEF Settled
  <2> HIDE DEF new
  <2>2. Settled(ix, w) = [balance |-> b, atas |-> a, mint |-> mt, mainState |-> ms, pool |-> new]
    BY <2>1
  <2> DEFINE settled == Settled(ix, w)
  <2> HIDE DEF settled
  <2>3. /\ settled.balance = b /\ settled.atas = a /\ settled.mainState = ms
        /\ settled.pool = new
    BY <2>2 DEF settled
  <2> QED BY <1>1, <2>3 DEF settled, new
<1>2. CASE ~OnPool(ix)
  BY <1>2 DEF Settled
<1> QED BY <1>1, <1>2

(* A transaction that returns has applied its whole instruction to the       *)
(* accounts as they are now.                                                 *)
LEMMA ReturnedFacts ==
    ASSUME IInv, NEW s \in Slots, Sound(tx[s], Copy), Returns(s)
    PROVE  \E w : Applies(tx[s].ix, w) /\ Applied(tx[s].ix, w)
<1> DEFINE t == tx[s]
           ix == t.ix
<1>1. PICK base \in Views : Agree(ix, base, Copy) /\ Progress(t, base)
  BY DEF Sound
<1> DEFINE w == Opened(ix, base)
           moves == Moves(ix, base)
           n == Len(moves)
           booked == Booked(ix, w)
           bal == After(base.balance, moves, n)
           new == SettledPool(ix, BookedPool(ix, w))
<1>2. ix \in Instructions
  BY DEF Sound
<1>3. /\ t.stage = "cpi" /\ t.todo = << >> /\ EventsFit(ix, t.copy, t.spent)
      /\ InCpis(ix, base) /\ t.spent = Spent(ix, w)
  BY <1>1 DEF Returns, Progress
<1>4. moves = Transfers(ix, w) /\ n \in 0 .. 3
      /\ \A i \in 1 .. n : Locks(ix, moves[i])
  BY <1>2, MovesAreLocked DEF Moves
<1>5. AllPaid(base.balance, moves, n) /\ t.copy = CopyAfter(ix, base, n)
  <2>1. PICK k \in 0 .. n :
             /\ AllPaid(base.balance, moves, k)
             /\ t.copy = CopyAfter(ix, base, k)
             /\ t.todo = SubSeq(moves, k + 1, n)
    BY <1>1, <1>3 DEF Progress
  <2>2. moves \in Seq({moves[i] : i \in 1 .. n})
    BY <1>2, MovesAreLocked DEF Moves
  <2> HIDE DEF moves
  <2>3. k = n
    BY <1>3, <1>4, <2>1, <2>2, RestOfMoves
  <2> QED BY <2>1, <2>3
<1>6. /\ Copy \in Views /\ Copy.balance = balance /\ Copy.atas = atas /\ Copy.mint = mint
      /\ Copy.mainState = mainState /\ Copy.pool = pool
  BY CopyIsView DEF Copy
<1>7. /\ w.balance = base.balance /\ w.mint = base.mint
      /\ w.mainState = base.mainState /\ w.pool = base.pool
      /\ w.atas = base.atas \cup Inits(ix) \cup InitsIfNeeded(ix)
  BY OpenedFacts
<1>8. t.copy = [balance |-> bal, atas |-> booked.atas, mint |-> booked.mint,
                mainState |-> booked.mainState, pool |-> booked.pool]
  BY <1>2, <1>5, CopyAfterFacts
<1>9. /\ booked.atas = w.atas
      /\ booked.mainState = IF OnPool(ix) THEN base.mainState ELSE UpdatedMainState(ix, w)
      /\ booked.pool = IF OnPool(ix) THEN [base.pool EXCEPT ![ix.m] = BookedPool(ix, w)]
                       ELSE base.pool
  BY <1>2, BookedFacts
<1>10. base.mainState = mainState
  BY <1>1, <1>2, <1>6, ProgramAccounts DEF Agree
<1>11. OnPool(ix) => ix.m \in BaseMints /\ base.pool[ix.m] = pool[ix.m]
                     /\ DOMAIN base.pool = BaseMints
  <2>1. OnPool(ix) => ix.m \in BaseMints
    BY <1>2, InstructionKinds, TradeShape, PoolShape, MainShape
  <2> QED BY <1>1, <1>2, <1>6, <2>1, ProgramAccounts DEF Agree, Used, Views
<1>12. ASSUME ix.op = "create_pool"
       PROVE  w.mint[ix.m] = mint[ix.m] /\ w.balance[ix.m][ix.user] = balance[ix.m][ix.user]
  <2>1. ix.m \in BaseMints /\ ix.m \in Mints /\ ix.user \in Holders
    BY <1>2, <1>12, PoolShape, PdaFacts
  <2>2. Ata(ix.m, ix.user) \in Writes(ix) /\ MintOf(ix.m) \in Used(ix)
    BY <1>12, CreateAccounts DEF Used
  <2> QED BY <1>1, <1>6, <1>7, <2>1, <2>2 DEF Agree
<1>13. AccountError(ix, Copy) = "none" /\ HandlerError(ix, w) = "none"
  BY <1>1, <1>2, <1>3, <1>6, SameAccountError DEF InCpis, InHandler
<1> HIDE DEF moves, booked
<1>14. Merge(ix, base.balance, balance) = balance
  <2>1. Table(balance)
    BY <1>6, BalancesAreTables DEF Views
  <2>2. ASSUME NEW u \in Mints, NEW h \in Holders
        PROVE  Merge(ix, base.balance, balance)[u][h] = balance[u][h]
    <3>1. Ata(u, h) \in Writes(ix) => base.balance[u][h] = balance[u][h]
      BY <1>1, <1>6 DEF Agree
    <3> HIDE DEF ix
    <3> QED BY <3>1, MergeIsTable
  <2> QED BY <2>1, <2>2, MergeIsTable, TableEquality
<1>15. Table(base.balance) /\ Table(balance)
  BY <1>6, BalancesAreTables DEF Views
<1>16. Merge(ix, bal, balance) = After(balance, moves, n)
  BY <1>4, <1>14, <1>15, MergeAfter
<1>17. AllPaid(balance, moves, n)
  <2>1. ASSUME NEW i \in 1 .. n
        PROVE  Pays(After(balance, moves, i - 1), moves[i])
    <3>0. PICK j \in 0 .. 2 : j = i - 1
      BY <1>4, <2>1
    <3>1. j < 3 /\ j + 1 = i /\ j \in 0 .. 3 /\ j < n
      BY <1>4, <3>0
    <3>2. Pays(After(base.balance, moves, j), moves[i])
      BY <1>5, <3>0 DEF AllPaid
    <3>3. \A l \in 1 .. j : Locks(ix, moves[l])
      BY <1>4, <3>1
    <3>4. Locks(ix, moves[j + 1])
      BY <1>4, <3>1
    <3>5. Pays(After(base.balance, moves, j), moves[j + 1])
              <=> Pays(After(balance, moves, j), moves[j + 1])
      BY <1>14, <1>15, <3>1, <3>3, <3>4, MergeAfter
    <3> QED BY <3>0, <3>1, <3>2, <3>5
  <2> QED BY <2>1 DEF AllPaid
<1>18. Spent(ix, w) \in U64
       /\ (ix.op \in Trades \cup {"create_pool"} => ReservesFit(t.copy.pool[ix.m]))
  BY <1>3 DEF EventsFit
<1>19. ASSUME OnPool(ix)
       PROVE  t.copy.pool[ix.m] = BookedPool(ix, w)
  BY <1>8, <1>9, <1>11, <1>19
<1>20. ix.op \in Trades \cup {"create_pool"} => ReservesFit(BookedPool(ix, w))
  <2>1. ix.op \in Trades \cup {"create_pool"} => OnPool(ix)
    BY <1>2, TradeShape, PoolShape
  <2> QED BY <1>18, <1>19, <2>1
<1>21. Applies(ix, w)
  <2> HIDE DEF w, n, ix
  <2> QED BY <1>2, <1>4, <1>7, <1>10, <1>11, <1>12, <1>13, <1>17, <1>18, <1>20
          DEF Applies, n
<1>22. /\ Returned(s).balance = bal
       /\ Returned(s).atas = w.atas
       /\ Returned(s).mainState = booked.mainState
       /\ Returned(s).pool =
            IF OnPool(ix)
            THEN [booked.pool EXCEPT ![ix.m] = SettledPool(ix, booked.pool[ix.m])]
            ELSE booked.pool
  <2>1. Returned(s) = Settled(ix, t.copy)
    BY DEF Returned
  <2> HIDE DEF bal, w, t, ix
  <2>2. /\ Settled(ix, t.copy).balance = bal
        /\ Settled(ix, t.copy).atas = booked.atas
        /\ Settled(ix, t.copy).mainState = booked.mainState
        /\ Settled(ix, t.copy).pool =
             IF OnPool(ix)
             THEN [booked.pool EXCEPT ![ix.m] = SettledPool(ix, booked.pool[ix.m])]
             ELSE booked.pool
    BY <1>2, <1>8, SettledFacts
  <2> QED BY <1>9, <2>1, <2>2
<1>23. balance' = After(balance, moves, n)
  BY <1>16, <1>22 DEF Returns
<1>24. atas' = atas \cup Inits(ix) \cup InitsIfNeeded(ix)
  <2>1. atas \subseteq Mints \X Holders /\ base.atas \subseteq Mints \X Holders
    BY <1>6 DEF Views
  <2>2. atas' \subseteq Mints \X Holders
    <3>1. Returned(s).atas \subseteq Mints \X Holders
      BY <1>2, <1>7, <1>22, <2>1, CreatedAtas
    <3> QED BY <2>1, <3>1 DEF Returns
  <2>3. ASSUME NEW u \in Mints, NEW h \in Holders
        PROVE  <<u, h>> \in atas' <=> <<u, h>> \in atas \cup Inits(ix) \cup InitsIfNeeded(ix)
    <3>1. CASE Ata(u, h) \in Writes(ix)
      <4>1. <<u, h>> \in atas' <=> <<u, h>> \in w.atas
        BY <1>22, <3>1, ReturnedAtas
      <4>2. <<u, h>> \in base.atas <=> <<u, h>> \in atas
        BY <1>1, <1>6, <3>1 DEF Agree
      <4> QED BY <1>7, <4>1, <4>2
    <3>2. CASE Ata(u, h) \notin Writes(ix)
      <4>1. <<u, h>> \in atas' <=> <<u, h>> \in atas
        BY <3>2, ReturnedAtas
      <4>2. <<u, h>> \notin Inits(ix) \cup InitsIfNeeded(ix)
        BY <1>2, <3>2, CreatedAtas
      <4> QED BY <4>1, <4>2
    <3> QED BY <3>1, <3>2
  <2>4. Inits(ix) \cup InitsIfNeeded(ix) \subseteq Mints \X Holders
    BY <1>2, CreatedAtas
  <2> QED BY <2>1, <2>2, <2>3, <2>4
<1>25. mainState' = IF OnPool(ix) THEN mainState ELSE UpdatedMainState(ix, w)
  BY <1>2, <1>9, <1>22, ProgramAccounts DEF Returns
<1>26. pool' = IF OnPool(ix) THEN [pool EXCEPT ![ix.m] = new] ELSE pool
  <2>0. pool' = [m \in BaseMints |-> IF PoolOf(m) \in Writes(ix)
                                     THEN Returned(s).pool[m] ELSE pool[m]]
    BY DEF Returns
  <2>1. pool = [m \in BaseMints |-> pool[m]]
    BY DEF IInv, TypeOK
  <2>2. CASE OnPool(ix)
    <3>1. Returned(s).pool[ix.m] = new
      BY <1>9, <1>11, <1>22, <2>2
    <3> HIDE DEF new, ix
    <3>2. pool' = [m \in BaseMints |-> IF m = ix.m THEN new ELSE pool[m]]
      BY <1>2, <2>0, <2>2, <3>1, ProgramAccounts
    <3> QED BY <2>1, <2>2, <3>2
  <2>3. CASE ~OnPool(ix)
    <3> HIDE DEF ix
    <3> QED BY <1>2, <2>0, <2>1, <2>3, ProgramAccounts
  <2> QED BY <2>2, <2>3
<1>27. Applied(ix, w)
  <2>1. mint' = mint
    BY DEF Returns
  <2> HIDE DEF w
  <2> QED BY <1>4, <1>23, <1>24, <1>25, <1>26, <2>1 DEF Applied
<1> QED BY <1>21, <1>27

-----------------------------------------------------------------------------
(* Instruction by instruction: what was applied is PumpFun's action.         *)
LEMMA PaidOneByOne ==
    ASSUME NEW b, NEW moves
    PROVE  /\ After(b, moves, 0) = b
           /\ After(b, moves, 1) = Apply(b, moves[1])
           /\ After(b, moves, 2) = Apply(Apply(b, moves[1]), moves[2])
           /\ After(b, moves, 3) = Apply(Apply(Apply(b, moves[1]), moves[2]), moves[3])
           /\ AllPaid(b, moves, 1) => Pays(b, moves[1])
           /\ AllPaid(b, moves, 2) =>
                Pays(b, moves[1]) /\ Pays(Apply(b, moves[1]), moves[2])
           /\ AllPaid(b, moves, 3) =>
                /\ Pays(b, moves[1]) /\ Pays(Apply(b, moves[1]), moves[2])
                /\ Pays(Apply(Apply(b, moves[1]), moves[2]), moves[3])
<1>1. /\ After(b, moves, 0) = b
      /\ After(b, moves, 1) = Apply(b, moves[1])
      /\ After(b, moves, 2) = Apply(Apply(b, moves[1]), moves[2])
      /\ After(b, moves, 3) = Apply(Apply(Apply(b, moves[1]), moves[2]), moves[3])
  BY DEF After
<1>2. ASSUME NEW k \in 1 .. 3, AllPaid(b, moves, k), NEW i \in 1 .. k
      PROVE  Pays(After(b, moves, i - 1), moves[i])
  BY <1>2 DEF AllPaid
<1>3. ASSUME NEW k \in 1 .. 3, AllPaid(b, moves, k) PROVE Pays(b, moves[1])
  <2>1. 1 \in 1 .. k /\ 1 - 1 = 0
    OBVIOUS
  <2> QED BY <1>1, <1>2, <1>3, <2>1
<1>4. ASSUME NEW k \in 2 .. 3, AllPaid(b, moves, k)
      PROVE  Pays(Apply(b, moves[1]), moves[2])
  <2>1. k \in 1 .. 3 /\ 2 \in 1 .. k /\ 2 - 1 = 1
    OBVIOUS
  <2> QED BY <1>1, <1>2, <1>4, <2>1
<1>5. ASSUME AllPaid(b, moves, 3)
      PROVE  Pays(Apply(Apply(b, moves[1]), moves[2]), moves[3])
  <2>1. 3 \in 1 .. 3 /\ 3 - 1 = 2
    OBVIOUS
  <2> QED BY <1>1, <1>2, <1>5, <2>1
<1> QED BY <1>1, <1>3, <1>4, <1>5

(* A CPI transfer is the ledger's transfer.                                  *)
LEMMA MoveFields ==
    ASSUME NEW b, NEW token, NEW from, NEW to, NEW amount
    PROVE  /\ Apply(b, Move(token, from, to, amount)) = Transfer(b, token, from, to, amount)
           /\ Pays(b, Move(token, from, to, amount)) <=> Covers(b, token, from, amount)
  BY DEF Apply, Pays, Move

(* What the constraints of the Accounts structs say of the accounts.         *)
LEMMA AccountFacts ==
    ASSUME NEW ix, AccountError(ix, Copy) = "none"
    PROVE  /\ mainState.exists = (ix.op # "init_main_state")
           /\ OnPool(ix) => pool[ix.m].exists = (ix.op # "create_pool")
           /\ Inits(ix) \cap atas = {}
           /\ ix.op \in Trades => mainState.fee_recipient = ix.fee_recipient
           /\ ix.op \in {"sell", "create_pool"} => <<ix.m, ix.user>> \in atas
           /\ ix.op = "withdraw" => mainState.withdrawer = ix.user
           /\ ix.op \in {"transfer_ownership", "update_main_state"} =>
                  mainState.owner = ix.user
           /\ ix.op = "init_main_state" => ix.user = DEFAULT_OWNER
           /\ ix.op = "sell" => Covers(balance, ix.m, ix.user, ix.amount)
<1>1. AccountsHold(ix, Copy)
  BY DEF AccountError
<1>2. /\ Copy.balance = balance /\ Copy.atas = atas /\ Copy.mint = mint
      /\ Copy.mainState = mainState /\ Copy.pool = pool
  BY DEF Copy
<1>3. ix.op = "init_main_state" => ix.user = DEFAULT_OWNER
  BY DEF AccountError
<1>4. ix.op = "sell" => SellerCovers(ix, Copy)
  BY <1>1 DEF AccountError
<1> QED BY <1>1, <1>2, <1>3, <1>4 DEF AccountsHold, SellerCovers

(* The arms of the definitions that go by the kind of instruction.           *)
LEMMA BookedPoolKinds ==
    ASSUME NEW ix, NEW w
    PROVE  /\ ix.op \in Buys => BookedPool(ix, w) =
                [AfterBuy(w.pool[ix.m], Fill(ix, w)) EXCEPT !.complete = w.pool[ix.m].complete]
           /\ ix.op = "sell" => BookedPool(ix, w) = AfterSell(w.pool[ix.m], Fill(ix, w))
           /\ ix.op = "create_pool" => BookedPool(ix, w) = On(w)!NewPool(ix.user)
           /\ ix.op = "withdraw" => BookedPool(ix, w) = w.pool[ix.m]
<1>1. ix.op \in Buys => ix.op # "sell" /\ ix.op # "create_pool" /\ ix.op # "withdraw"
  BY DEF Buys
<1>2. ASSUME ix.op \in Buys
      PROVE  BookedPool(ix, w) =
                [AfterBuy(w.pool[ix.m], Fill(ix, w)) EXCEPT !.complete = w.pool[ix.m].complete]
  BY <1>1, <1>2, Zenon DEF BookedPool
<1>3. ASSUME ix.op = "sell"
      PROVE  BookedPool(ix, w) = AfterSell(w.pool[ix.m], Fill(ix, w))
  BY <1>1, <1>3, Zenon DEF BookedPool
<1>4. ASSUME ix.op = "create_pool"
      PROVE  BookedPool(ix, w) = On(w)!NewPool(ix.user)
  BY <1>1, <1>4, Zenon DEF BookedPool
<1>5. ASSUME ix.op = "withdraw"
      PROVE  BookedPool(ix, w) = w.pool[ix.m]
  BY <1>1, <1>5, Zenon DEF BookedPool
<1> QED BY <1>2, <1>3, <1>4, <1>5

(* What the rest of the handler does to the pool.                            *)
LEMMA SettledPoolKinds ==
    ASSUME NEW ix, NEW p
    PROVE  /\ ix.op \in Buys => SettledPool(ix, p) =
                [p EXCEPT !.complete = p.real_quote_reserves >= p.real_quote_threshold]
           /\ ix.op = "withdraw" => SettledPool(ix, p) = AfterWithdraw(p)
           /\ ix.op \in {"sell", "create_pool"} => SettledPool(ix, p) = p
<1>1. ix.op \in Buys => ix.op # "sell" /\ ix.op # "create_pool" /\ ix.op # "withdraw"
  BY DEF Buys
<1>2. ASSUME ix.op \in Buys
      PROVE  SettledPool(ix, p) =
                [p EXCEPT !.complete = p.real_quote_reserves >= p.real_quote_threshold]
  BY <1>1, <1>2, Zenon DEF SettledPool
<1>3. ASSUME ix.op = "withdraw"
      PROVE  SettledPool(ix, p) = AfterWithdraw(p)
  BY <1>1, <1>3, Zenon DEF SettledPool
<1>4. ASSUME ix.op \in {"sell", "create_pool"}
      PROVE  SettledPool(ix, p) = p
  <2>1. ix.op \notin Buys /\ ix.op # "withdraw"
    BY <1>4 DEF Buys
  <2> QED BY <2>1, Zenon DEF SettledPool
<1> QED BY <1>2, <1>3, <1>4

(* The fill of each kind of trade.                                           *)
LEMMA FillKinds ==
    ASSUME NEW ix, NEW w
    PROVE  /\ ix.op = "buy_tokens_from_exact_quote" => Fill(ix, w) =
                ExactQuoteFill(w.pool[ix.m], w.mainState.trading_fee, ix.amount)
           /\ ix.op = "buy_exact_tokens_from_quote" => Fill(ix, w) =
                ExactBaseFill(w.pool[ix.m], w.mainState.trading_fee, ix.amount)
           /\ ix.op = "sell" => Fill(ix, w) =
                SellFill(w.pool[ix.m], w.mainState.trading_fee, ix.amount)
<1>1. ASSUME ix.op = "buy_tokens_from_exact_quote"
      PROVE  Fill(ix, w) = ExactQuoteFill(w.pool[ix.m], w.mainState.trading_fee, ix.amount)
  BY <1>1, Zenon DEF Fill
<1>2. ASSUME ix.op = "buy_exact_tokens_from_quote"
      PROVE  Fill(ix, w) = ExactBaseFill(w.pool[ix.m], w.mainState.trading_fee, ix.amount)
  BY <1>2, Zenon DEF Fill
<1>3. ASSUME ix.op = "sell"
      PROVE  Fill(ix, w) = SellFill(w.pool[ix.m], w.mainState.trading_fee, ix.amount)
  BY <1>3, Zenon DEF Fill
<1> QED BY <1>1, <1>2, <1>3

(* What a handler has checked when it reports no error.                      *)
LEMMA HandlerErrorKinds ==
    ASSUME NEW ix, NEW w, HandlerError(ix, w) = "none"
    PROVE  /\ ix.op = "buy_tokens_from_exact_quote" =>
                ExactQuoteError(ix, w, w.pool[ix.m]) = "none"
           /\ ix.op = "buy_exact_tokens_from_quote" =>
                ExactBaseError(ix, w, w.pool[ix.m]) = "none"
           /\ ix.op = "sell" => SellError(ix, w, w.pool[ix.m]) = "none"
           /\ ix.op = "withdraw" => WithdrawError(w.pool[ix.m]) = "none"
           /\ ix.op = "create_pool" => CreateError(ix, w) = "none"
           /\ ix.op = "transfer_ownership" => w.mainState.owner # ix.new_owner
           /\ ix.op = "update_main_state" => UpdateError(ix.input) = "none"
<1>1. ASSUME ix.op = "buy_tokens_from_exact_quote"
      PROVE  ExactQuoteError(ix, w, w.pool[ix.m]) = "none"
  BY <1>1, Zenon DEF HandlerError
<1>2. ASSUME ix.op = "buy_exact_tokens_from_quote"
      PROVE  ExactBaseError(ix, w, w.pool[ix.m]) = "none"
  BY <1>2, Zenon DEF HandlerError
<1>3. ASSUME ix.op = "sell" PROVE SellError(ix, w, w.pool[ix.m]) = "none"
  BY <1>3, Zenon DEF HandlerError
<1>4. ASSUME ix.op = "withdraw" PROVE WithdrawError(w.pool[ix.m]) = "none"
  BY <1>4, Zenon DEF HandlerError
<1>5. ASSUME ix.op = "create_pool" PROVE CreateError(ix, w) = "none"
  BY <1>5, Zenon DEF HandlerError
<1>6. ASSUME ix.op = "transfer_ownership" PROVE w.mainState.owner # ix.new_owner
  <2>1. HandlerError(ix, w) =
          IF w.mainState.owner = ix.new_owner THEN "AlreadyBecameOwner" ELSE "none"
    BY <1>6, Zenon DEF HandlerError
  <2> QED BY <2>1
<1>7. ASSUME ix.op = "update_main_state" PROVE UpdateError(ix.input) = "none"
  BY <1>7, Zenon DEF HandlerError
<1> QED BY <1>1, <1>2, <1>3, <1>4, <1>5, <1>6, <1>7

(* What each of the configuration's instructions assigns.                    *)
LEMMA UpdatedMainStateKinds ==
    ASSUME NEW ix, NEW w
    PROVE  /\ ix.op = "init_main_state" => UpdatedMainState(ix, w) = DefaultMainState
           /\ ix.op = "transfer_ownership" => UpdatedMainState(ix, w) =
                [w.mainState EXCEPT !.owner = ix.new_owner]
           /\ ix.op = "update_main_state" => UpdatedMainState(ix, w) =
                [w.mainState EXCEPT
                    !.withdrawer = ix.input.withdrawer,
                    !.fee_recipient = ix.input.fee_recipient,
                    !.trading_fee = ix.input.trading_fee,
                    !.total_supply = OrElse(ix.input.total_supply, @),
                    !.init_virt_base_reserves =
                        OrElse(ix.input.init_virt_base_reserves, @),
                    !.init_virt_quote_reserves =
                        OrElse(ix.input.init_virt_quote_reserves, @),
                    !.real_quote_threshold = OrElse(ix.input.real_quote_threshold, @)]
<1>1. ASSUME ix.op = "init_main_state" PROVE UpdatedMainState(ix, w) = DefaultMainState
  BY <1>1, Zenon DEF UpdatedMainState
<1>2. ASSUME ix.op = "transfer_ownership"
      PROVE  UpdatedMainState(ix, w) = [w.mainState EXCEPT !.owner = ix.new_owner]
  BY <1>2, Zenon DEF UpdatedMainState
<1>3. ASSUME ix.op = "update_main_state"
      PROVE  UpdatedMainState(ix, w) =
                [w.mainState EXCEPT
                    !.withdrawer = ix.input.withdrawer,
                    !.fee_recipient = ix.input.fee_recipient,
                    !.trading_fee = ix.input.trading_fee,
                    !.total_supply = OrElse(ix.input.total_supply, @),
                    !.init_virt_base_reserves =
                        OrElse(ix.input.init_virt_base_reserves, @),
                    !.init_virt_quote_reserves =
                        OrElse(ix.input.init_virt_quote_reserves, @),
                    !.real_quote_threshold = OrElse(ix.input.real_quote_threshold, @)]
  BY <1>3, Zenon DEF UpdatedMainState
<1> QED BY <1>1, <1>2, <1>3

(* The transfers of a buy are those of buy_finalize.                         *)
LEMMA BuyIsFinalized ==
    ASSUME IInv, NEW ix, NEW w, Applies(ix, w), Applied(ix, w), ix.op \in Buys,
           NEW fill, Fill(ix, w) = fill, AfterBuy(pool[ix.m], fill) \in PoolState
    PROVE  ABuy(ix.user, ix.m) /\ buy_finalize(ix.user, ix.m, fill)
<1> DEFINE moves == Transfers(ix, w)
           p == pool[ix.m]
           after == AfterBuy(p, fill)
           vault == pool_pda(ix.m)
           first == Move(QuoteMint, ix.user, ix.fee_recipient, fill.fee)
           second == Move(QuoteMint, ix.user, vault, fill.quote)
           third == Move(ix.m, vault, ix.user, fill.base)
<1>1. ix.op \in Trades /\ OnPool(ix) /\ ix.op # "create_pool" /\ ix.m \in BaseMints
  <2>1. ix.op \in Trades /\ ix.op # "create_pool" /\ ix \in Instructions
    BY DEF Trades, Buys, Applies
  <2> QED BY <2>1, TradeShape
<1>2. /\ mainState.exists /\ p.exists /\ mainState.fee_recipient = ix.fee_recipient
      /\ Inits(ix) = {}
      /\ InitsIfNeeded(ix) = {<<QuoteMint, mainState.fee_recipient>>,
                              <<ix.m, ix.user>>, <<QuoteMint, ix.user>>}
  <2>1. ix.op # "init_main_state"
    BY DEF Buys
  <2> QED BY <1>1, <2>1, AccountFacts, TradeAccounts DEF Applies
<1>3. ABuy(ix.user, ix.m)
  BY <1>2 DEF ABuy, Applied
<1>4. moves = <<first, second, third>>
  BY BuyMoves3
<1>5. Len(moves) = 3 /\ moves[1] = first /\ moves[2] = second /\ moves[3] = third
  <2> HIDE DEF first, second, third, moves
  <2> QED BY <1>4
<1>6. /\ balance' = Apply(Apply(Apply(balance, first), second), third)
      /\ Pays(balance, first) /\ Pays(Apply(balance, first), second)
      /\ Pays(Apply(Apply(balance, first), second), third)
  <2> HIDE DEF first, second, third
  <2> QED BY <1>5, PaidOneByOne DEF Applies, Applied
<1>7. p \in PoolState /\ pool = [m \in BaseMints |-> pool[m]]
  BY <1>1 DEF IInv, TypeOK
<1>8. BookedPool(ix, w) = [after EXCEPT !.complete = p.complete]
  <2>1. w.pool[ix.m] = p
    BY <1>1 DEF Applies
  <2> QED BY <2>1, BookedPoolKinds
<1>9. SettledPool(ix, BookedPool(ix, w)) = after
  <2> DEFINE booked == BookedPool(ix, w)
  <2>1. SettledPool(ix, booked) = [booked EXCEPT
             !.complete = booked.real_quote_reserves >= booked.real_quote_threshold]
    BY SettledPoolKinds
  <2>2. /\ after.complete = (after.real_quote_reserves >= after.real_quote_threshold)
        /\ after \in PoolState
    BY <1>7 DEF AfterBuy, PoolState
  <2> HIDE DEF booked, after
  <2>3. /\ booked = [after EXCEPT !.complete = p.complete]
    BY <1>8 DEF booked
  <2>4. /\ booked.real_quote_reserves = after.real_quote_reserves
        /\ booked.real_quote_threshold = after.real_quote_threshold
    BY <2>2, <2>3 DEF PoolState
  <2>5. SettledPool(ix, booked) = [booked EXCEPT !.complete = after.complete]
    BY <2>1, <2>2, <2>4
  <2>6. [booked EXCEPT !.complete = after.complete] = after
    BY <2>2, <2>3 DEF PoolState
  <2> QED BY <2>5, <2>6 DEF booked
<1>10. ReservesFit(after)
  <2>1. ReservesFit(BookedPool(ix, w))
    BY <1>1 DEF Applies
  <2> HIDE DEF after
  <2> QED BY <1>8, <2>1 DEF ReservesFit, BaseReserves, QuoteReserves, PoolState, after
<1>11. fill.fee + fill.quote \in U64
  BY DEF Applies, Spent
<1>12. pool' = [pool EXCEPT ![ix.m] = after] /\ mainState' = mainState /\ mint' = mint
  BY <1>1, <1>9 DEF Applied
<1>13. buy_finalize(ix.user, ix.m, fill)
  <2> HIDE DEF after
  <2>1. /\ balance' = Transfer(Transfer(Transfer(balance, QuoteMint, ix.user,
                          mainState.fee_recipient, fill.fee), QuoteMint, ix.user, vault,
                          fill.quote), ix.m, vault, ix.user, fill.base)
        /\ Covers(balance, QuoteMint, ix.user, fill.fee)
        /\ Covers(Transfer(balance, QuoteMint, ix.user, mainState.fee_recipient, fill.fee),
                  QuoteMint, ix.user, fill.quote)
        /\ Covers(Transfer(Transfer(balance, QuoteMint, ix.user, mainState.fee_recipient,
                                    fill.fee), QuoteMint, ix.user, vault, fill.quote),
                  ix.m, vault, fill.base)
    BY <1>2, <1>6, MoveFields
  <2>2. AfterBuy(pool[ix.m], fill) = after
    BY DEF after
  <2>3. UNCHANGED <<mint, mainState>>
    BY <1>12
  <2> QED BY <1>10, <1>11, <1>12, <2>1, <2>2, <2>3, Zenon DEF buy_finalize
<1> QED BY <1>3, <1>13

(* What a trade trades on.                                                   *)
LEMMA TradedPool ==
    ASSUME IInv, NEW ix, NEW w, Applies(ix, w), ix.op \in Trades
    PROVE  /\ ix \in Instructions /\ ix.user \in Users /\ ix.m \in BaseMints
           /\ OnPool(ix)
           /\ w.mainState = mainState /\ w.pool[ix.m] = pool[ix.m]
           /\ mainState.exists /\ pool[ix.m].exists
           /\ mainState.fee_recipient = ix.fee_recipient
           /\ Listed(pool[ix.m]) /\ mainState.trading_fee \in Fees
           /\ ix.amount \in U64 /\ ix.limit \in U64
<1>1. ix \in Instructions /\ OnPool(ix) /\ ix.m \in BaseMints /\ ix.user \in Users
  BY TradeShape DEF Applies
<1>2. ix.op # "init_main_state" /\ ix.op # "create_pool"
  BY DEF Trades, Buys
<1>3. mainState.exists /\ pool[ix.m].exists /\ mainState.fee_recipient = ix.fee_recipient
  BY <1>1, <1>2, AccountFacts DEF Applies
<1>4. Listed(pool[ix.m]) /\ mainState.trading_fee \in Fees
  BY <1>1, <1>3, IInvParts, MainFacts DEF PoolsOK
<1>5. ix.amount \in U64 /\ ix.limit \in U64
  BY <1>1, TradeShape, InputAssumption DEF Trades, Buys
<1> QED BY <1>1, <1>3, <1>4, <1>5 DEF Applies

(* An applied buy for an exact quote is PumpFun's.                           *)
LEMMA ExactQuoteBuyApplied ==
    ASSUME IInv, NEW ix, NEW w, Applies(ix, w), Applied(ix, w),
           ix.op = "buy_tokens_from_exact_quote"
    PROVE  BuyTokensFromExactQuote(ix.user, ix.m, ix.amount, ix.limit)
<1> DEFINE p == pool[ix.m]
           fill == ExactQuoteFill(p, mainState.trading_fee, ix.amount)
<1>1. /\ ix.op \in Buys /\ Listed(p) /\ mainState.trading_fee \in Fees
      /\ w.mainState = mainState /\ w.pool[ix.m] = p
      /\ ix.amount \in U64 /\ ix.limit \in U64
  <2>1. ix.op \in Trades /\ ix.op \in Buys
    BY DEF Trades, Buys
  <2> QED BY <2>1, TradedPool
<1>2. Fill(ix, w) = fill
  BY <1>1, FillKinds
<1>3. ExactQuoteError(ix, w, p) = "none"
  BY <1>1, HandlerErrorKinds DEF Applies
<1> HIDE DEF p, fill
<1>4. /\ ix.amount # 0 /\ ~p.complete
      /\ p.real_quote_reserves + NetOfFee(mainState.trading_fee, ix.amount) \in U64
      /\ Headroom(p) \in U64 /\ ReservesFit(p)
      /\ ~(fill.base < ix.limit) /\ AfterBuy(p, fill) \in PoolState
  BY <1>1, <1>2, <1>3 DEF ExactQuoteError
<1>5. fill.base >= ix.limit
  <2>1. Priced(p)
    BY <1>1, <1>4, ListedIsPriced
  <2>2. fill.base \in Nat
    BY <1>1, <1>4, <2>1, ExactQuoteFillFacts DEF fill
  <2>3. ix.limit \in Nat /\ ~(fill.base < ix.limit)
    BY <1>1, <1>4, U64Facts
  <2> QED BY <2>2, <2>3
<1>6. ABuy(ix.user, ix.m) /\ buy_finalize(ix.user, ix.m, fill)
  BY <1>1, <1>2, <1>4, BuyIsFinalized DEF p
<1>7. ix.amount > 0
  <2>1. ix.amount \in Nat /\ ix.amount # 0
    BY <1>1, <1>4, U64Facts
  <2> QED BY <2>1
<1> QED BY <1>4, <1>5, <1>6, <1>7, Zenon DEF BuyTokensFromExactQuote, p, fill

(* An applied buy of an exact number of tokens is PumpFun's.                 *)
LEMMA ExactBaseBuyApplied ==
    ASSUME IInv, NEW ix, NEW w, Applies(ix, w), Applied(ix, w),
           ix.op = "buy_exact_tokens_from_quote"
    PROVE  BuyExactTokensFromQuote(ix.user, ix.m, ix.amount, ix.limit)
<1> DEFINE p == pool[ix.m]
           fill == ExactBaseFill(p, mainState.trading_fee, ix.amount)
<1>1. /\ ix.op \in Buys /\ Listed(p) /\ mainState.trading_fee \in Fees
      /\ w.mainState = mainState /\ w.pool[ix.m] = p
      /\ ix.amount \in U64 /\ ix.limit \in U64
  <2>1. ix.op \in Trades /\ ix.op \in Buys
    BY DEF Trades, Buys
  <2> QED BY <2>1, TradedPool
<1>2. Fill(ix, w) = fill
  BY <1>1, FillKinds
<1>3. ExactBaseError(ix, w, p) = "none"
  BY <1>1, HandlerErrorKinds DEF Applies
<1> HIDE DEF p, fill
<1>4. /\ ~p.complete /\ ix.amount # 0 /\ ~(ix.amount > p.real_base_reserves)
      /\ ReservesFit(p)
      /\ p.real_quote_reserves + compute_required_amount_on_buy(p, ix.amount) \in U64
      /\ Headroom(p) \in U64
      /\ WithinMaximum(fill, ix.limit) /\ AfterBuy(p, fill) \in PoolState
  BY <1>1, <1>2, <1>3 DEF ExactBaseError
<1>5. ix.amount > 0 /\ ix.amount <= p.real_base_reserves
  <2>1. ix.amount \in Nat /\ ix.amount # 0 /\ ~(ix.amount > p.real_base_reserves)
    BY <1>1, <1>4, U64Facts
  <2>2. p.real_base_reserves \in Nat
    BY <1>1, <1>4, ListedIsPriced, ReserveFacts
  <2> QED BY <2>1, <2>2
<1>6. ABuy(ix.user, ix.m) /\ buy_finalize(ix.user, ix.m, fill)
  BY <1>1, <1>2, <1>4, BuyIsFinalized DEF p
<1> QED BY <1>4, <1>5, <1>6, Zenon DEF BuyExactTokensFromQuote, p, fill

(* An applied sell is PumpFun's.                                             *)
LEMMA SellApplied ==
    ASSUME IInv, NEW ix, NEW w, Applies(ix, w), Applied(ix, w), ix.op = "sell"
    PROVE  Sell(ix.user, ix.m, ix.amount, ix.limit)
<1> DEFINE p == pool[ix.m]
           fill == SellFill(p, mainState.trading_fee, ix.amount)
           after == AfterSell(p, fill)
           moves == Transfers(ix, w)
           vault == pool_pda(ix.m)
           first == Move(ix.m, ix.user, vault, fill.base)
           second == Move(QuoteMint, vault, ix.fee_recipient, fill.fee)
           third == Move(QuoteMint, vault, ix.user, fill.quote)
<1>0. ix.op \in Trades /\ ix.op \notin Buys
  BY DEF Trades, Buys
<1>1. /\ Listed(p) /\ mainState.trading_fee \in Fees
      /\ w.mainState = mainState /\ w.pool[ix.m] = p
      /\ ix.amount \in U64 /\ ix.limit \in U64
      /\ mainState.exists /\ p.exists /\ mainState.fee_recipient = ix.fee_recipient
      /\ OnPool(ix)
  BY <1>0, TradedPool
<1>2. Fill(ix, w) = fill
  BY <1>1, FillKinds
<1>3. SellError(ix, w, p) = "none"
  BY <1>1, HandlerErrorKinds DEF Applies
<1>4. moves = <<first, second, third>>
  BY <1>2, SellMoves3
<1>5. Len(moves) = 3 /\ moves[1] = first /\ moves[2] = second /\ moves[3] = third
  <2> HIDE DEF first, second, third, moves
  <2> QED BY <1>4
<1>6. /\ balance' = Apply(Apply(Apply(balance, first), second), third)
      /\ Pays(balance, first) /\ Pays(Apply(balance, first), second)
      /\ Pays(Apply(Apply(balance, first), second), third)
  <2> HIDE DEF first, second, third
  <2> QED BY <1>5, PaidOneByOne DEF Applies, Applied
<1>7. SettledPool(ix, BookedPool(ix, w)) = after /\ BookedPool(ix, w) = after
  BY <1>1, <1>2, BookedPoolKinds, SettledPoolKinds
<1>8. pool' = [pool EXCEPT ![ix.m] = after] /\ mainState' = mainState /\ mint' = mint
      /\ ReservesFit(after)
  BY <1>0, <1>1, <1>7 DEF Applied, Applies
<1>9. ASell(ix.user, ix.m, ix.amount)
  <2>1. /\ <<ix.m, ix.user>> \in atas /\ Covers(balance, ix.m, ix.user, ix.amount)
    BY AccountFacts DEF Applies
  <2>2. atas' = atas \cup {<<QuoteMint, mainState.fee_recipient>>, <<QuoteMint, ix.user>>}
    BY <1>0, <1>1, TradeAccounts DEF Applied
  <2> QED BY <1>1, <2>1, <2>2 DEF ASell
<1>10. /\ balance' = Transfer(Transfer(Transfer(balance, ix.m, ix.user, vault, fill.base),
                          QuoteMint, vault, mainState.fee_recipient, fill.fee),
                          QuoteMint, vault, ix.user, fill.quote)
       /\ Covers(Transfer(balance, ix.m, ix.user, vault, fill.base),
                 QuoteMint, vault, fill.fee)
       /\ Covers(Transfer(Transfer(balance, ix.m, ix.user, vault, fill.base),
                          QuoteMint, vault, mainState.fee_recipient, fill.fee),
                 QuoteMint, vault, fill.quote)
  <2> HIDE DEF fill, vault
  <2> QED BY <1>1, <1>6, MoveFields
<1> HIDE DEF p, fill, after
<1>11. /\ ix.amount # 0 /\ ~p.complete /\ ReservesFit(p)
       /\ ~(fill.quote < ix.limit) /\ after \in PoolState
  BY <1>1, <1>2, <1>3 DEF SellError, after
<1>12. ix.amount > 0 /\ fill.quote >= ix.limit
  <2>1. ix.amount \in Nat /\ ix.amount # 0 /\ ix.limit \in Nat /\ ~(fill.quote < ix.limit)
    BY <1>1, <1>11, U64Facts
  <2>2. fill.quote \in Nat
    BY <1>1, <1>11, ListedIsPriced, SellFillFacts DEF fill
  <2> QED BY <2>1, <2>2
<1>13. UNCHANGED <<mint, mainState>>
  BY <1>8
<1> QED BY <1>8, <1>9, <1>10, <1>11, <1>12, <1>13, Zenon DEF Sell, p, fill, after

(* An applied create_pool is PumpFun's.                                      *)
LEMMA CreateApplied ==
    ASSUME IInv, NEW ix, NEW w, Applies(ix, w), Applied(ix, w), ix.op = "create_pool"
    PROVE  CreatePool(ix.user, ix.m)
<1> DEFINE after == NewPool(ix.user)
           moves == Transfers(ix, w)
           vault == pool_pda(ix.m)
           amount == balance[ix.m][ix.user]
           first == Move(ix.m, ix.user, vault, amount)
<1>0. ix.op \notin Trades /\ ix.op \notin Buys
  BY DEF Trades, Buys
<1>1. /\ ix \in Instructions /\ OnPool(ix) /\ w.mainState = mainState
      /\ w.mint[ix.m] = mint[ix.m] /\ w.balance[ix.m][ix.user] = amount
  BY PoolShape DEF Applies
<1>2. ACreatePool(ix.user, ix.m)
  <2>1. /\ mainState.exists /\ ~pool[ix.m].exists /\ <<ix.m, ix.user>> \in atas
        /\ Inits(ix) \cap atas = {}
    BY <1>1, AccountFacts DEF Applies
  <2> QED BY <2>1, CreateAccounts DEF ACreatePool, Applied
<1>3. CreateError(ix, w) = "none"
  BY HandlerErrorKinds DEF Applies
<1>4. /\ amount = mint[ix.m].supply /\ amount = mainState.total_supply
      /\ ~mint[ix.m].mint_authority /\ ~mint[ix.m].freeze_authority
  BY <1>1, <1>3 DEF CreateError
<1>5. moves = <<first>>
  BY <1>1, CreateMoves1
<1>6. Len(moves) = 1 /\ moves[1] = first
  <2> HIDE DEF first, moves
  <2> QED BY <1>5
<1>7. balance' = Transfer(balance, ix.m, ix.user, vault, amount)
  <2>1. balance' = Apply(balance, first)
    BY <1>6, PaidOneByOne DEF Applied
  <2> QED BY <2>1, MoveFields
<1>8. On(w)!NewPool(ix.user) = after
  BY <1>1 DEF On!NewPool, NewPool
<1>9. SettledPool(ix, BookedPool(ix, w)) = after /\ BookedPool(ix, w) = after
  BY <1>8, BookedPoolKinds, SettledPoolKinds
<1>10. pool' = [pool EXCEPT ![ix.m] = after] /\ mainState' = mainState /\ mint' = mint
       /\ ReservesFit(after)
  <2> HIDE DEF after
  <2> QED BY <1>1, <1>9 DEF Applied, Applies
<1>11. BaseReserves(after) \in U64 /\ UNCHANGED <<mint, mainState>>
  BY <1>10 DEF ReservesFit
<1> QED BY <1>2, <1>4, <1>7, <1>10, <1>11, Zenon DEF CreatePool, MintIsFinal

(* An applied withdrawal is PumpFun's.                                       *)
LEMMA WithdrawApplied ==
    ASSUME IInv, NEW ix, NEW w, Applies(ix, w), Applied(ix, w), ix.op = "withdraw"
    PROVE  Withdraw(ix.user, ix.m)
<1> DEFINE p == pool[ix.m]
           moves == Transfers(ix, w)
           vault == pool_pda(ix.m)
           first == Move(ix.m, vault, ix.user, p.real_base_reserves)
           second == Move(QuoteMint, vault, ix.user, p.real_quote_reserves)
<1>1. ix \in Instructions /\ OnPool(ix) /\ w.pool[ix.m] = p
  BY PoolShape DEF Applies
<1>2. AWithdraw(ix.user, ix.m)
  <2>1. mainState.exists /\ p.exists /\ mainState.withdrawer = ix.user
    BY <1>1, AccountFacts DEF Applies
  <2>2. atas' = atas \cup {<<ix.m, ix.user>>, <<QuoteMint, ix.user>>}
    BY WithdrawAccounts DEF Applied
  <2> QED BY <2>1, <2>2 DEF AWithdraw
<1>3. p.complete /\ NotWithdrawn(p)
  <2>1. WithdrawError(p) = "none"
    BY <1>1, HandlerErrorKinds DEF Applies
  <2> QED BY <2>1 DEF WithdrawError
<1>4. moves = <<first, second>>
  BY <1>1, WithdrawMoves2
<1>5. Len(moves) = 2 /\ moves[1] = first /\ moves[2] = second
  <2> HIDE DEF first, second, moves
  <2> QED BY <1>4
<1>6. /\ balance' = Apply(Apply(balance, first), second)
      /\ Pays(balance, first) /\ Pays(Apply(balance, first), second)
  <2> HIDE DEF first, second
  <2> QED BY <1>5, PaidOneByOne DEF Applies, Applied
<1>7. /\ balance' = Transfer(Transfer(balance, ix.m, vault, ix.user, p.real_base_reserves),
                         QuoteMint, vault, ix.user, p.real_quote_reserves)
      /\ Covers(balance, ix.m, vault, p.real_base_reserves)
      /\ Covers(Transfer(balance, ix.m, vault, ix.user, p.real_base_reserves),
                QuoteMint, vault, p.real_quote_reserves)
  <2> HIDE DEF p, vault
  <2> QED BY <1>6, MoveFields
<1>8. SettledPool(ix, BookedPool(ix, w)) = AfterWithdraw(p)
  BY <1>1, BookedPoolKinds, SettledPoolKinds
<1>9. pool' = [pool EXCEPT ![ix.m] = AfterWithdraw(p)] /\ UNCHANGED <<mint, mainState>>
  BY <1>1, <1>8 DEF Applied
<1> QED BY <1>2, <1>3, <1>7, <1>9, Zenon DEF Withdraw

(* An applied instruction of the configuration is PumpFun's.                 *)
LEMMA MainApplied ==
    ASSUME IInv, NEW ix, NEW w, Applies(ix, w), Applied(ix, w),
           ix.op \in {"init_main_state", "transfer_ownership", "update_main_state"}
    PROVE  MainNext /\ UNCHANGED pool
<1>1. /\ ix \in Instructions /\ ~OnPool(ix) /\ w.mainState = mainState /\ ix.user \in Users
      /\ ix.op = "transfer_ownership" => ix.new_owner \in NewOwners
      /\ ix.op = "update_main_state" => ix.input \in UpdateInputs
  BY MainShape DEF Applies
<1>2. balance' = balance
  <2>1. Transfers(ix, w) = << >>
    BY MainMoves0
  <2>2. Len(Transfers(ix, w)) = 0
    BY <2>1
  <2> QED BY <2>2, PaidOneByOne DEF Applied
<1>3. /\ pool' = pool /\ mint' = mint /\ mainState' = UpdatedMainState(ix, w)
      /\ atas' = atas \cup Inits(ix) \cup InitsIfNeeded(ix)
  BY <1>1 DEF Applied
<1>4. CASE ix.op = "init_main_state"
  <2>1. ~mainState.exists /\ ix.user = DEFAULT_OWNER /\ Inits(ix) \cap atas = {}
    BY <1>4, AccountFacts DEF Applies
  <2>2. AInitMainState(ix.user)
    BY <1>3, <1>4, <2>1, MainAccounts DEF AInitMainState
  <2>3. mainState' = DefaultMainState
    BY <1>3, <1>4, UpdatedMainStateKinds
  <2>4. InitMainState(ix.user)
    BY <1>2, <1>3, <2>2, <2>3 DEF InitMainState
  <2> QED BY <1>1, <1>3, <2>4 DEF MainNext
<1>5. CASE ix.op = "transfer_ownership"
  <2>1. SignedByOwner(ix.user)
    BY <1>5, AccountFacts DEF Applies, SignedByOwner
  <2>2. mainState.owner # ix.new_owner
    BY <1>1, <1>5, HandlerErrorKinds DEF Applies
  <2>3. mainState' = [mainState EXCEPT !.owner = ix.new_owner]
    BY <1>1, <1>3, <1>5, UpdatedMainStateKinds
  <2>4. atas' = atas
    BY <1>3, <1>5, MainAccounts
  <2>5. TransferOwnership(ix.user, ix.new_owner)
    BY <1>2, <1>3, <2>1, <2>2, <2>3, <2>4 DEF TransferOwnership, ledgerVars
  <2> QED BY <1>1, <1>3, <1>5, <2>5 DEF MainNext
<1>6. CASE ix.op = "update_main_state"
  <2>1. SignedByOwner(ix.user)
    BY <1>6, AccountFacts DEF Applies, SignedByOwner
  <2>2. AUpdateMainState(ix.user, ix.input)
    BY <1>3, <1>6, <2>1, MainAccounts DEF AUpdateMainState
  <2>3. UpdateError(ix.input) = "none"
    BY <1>6, HandlerErrorKinds DEF Applies
  <2>4. ~(ix.input.trading_fee > MAX_TRADING_FEE)
        /\ Acceptable(ix.input.total_supply)
        /\ Acceptable(ix.input.init_virt_base_reserves)
        /\ Acceptable(ix.input.init_virt_quote_reserves)
        /\ Acceptable(ix.input.real_quote_threshold)
    BY <2>3 DEF UpdateError
  <2>5. ix.input.trading_fee <= MAX_TRADING_FEE
    <3>1. ix.input.trading_fee \in Nat
      BY <1>1, <1>6, ConfigAssumption, U64Facts DEF UpdateMainStateInput
    <3>2. MAX_TRADING_FEE \in Int
      BY FeeAssumption DEF MAX_TRADING_FEE
    <3> QED BY <2>4, <3>1, <3>2
  <2>6. mainState' = [mainState EXCEPT
           !.withdrawer = ix.input.withdrawer,
           !.fee_recipient = ix.input.fee_recipient,
           !.trading_fee = ix.input.trading_fee,
           !.total_supply = OrElse(ix.input.total_supply, @),
           !.init_virt_base_reserves = OrElse(ix.input.init_virt_base_reserves, @),
           !.init_virt_quote_reserves = OrElse(ix.input.init_virt_quote_reserves, @),
           !.real_quote_threshold = OrElse(ix.input.real_quote_threshold, @)]
    <3>1. mainState' = UpdatedMainState(ix, w)
      BY <1>3
    <3> QED BY <1>1, <1>6, <3>1, UpdatedMainStateKinds, Zenon
  <2>7. UNCHANGED <<balance, mint>>
    BY <1>2, <1>3
  <2>8. UpdateMainState(ix.user, ix.input)
    BY <2>2, <2>4, <2>5, <2>6, <2>7, Zenon DEF UpdateMainState
  <2> QED BY <1>1, <1>3, <1>6, <2>8 DEF MainNext
<1> QED BY <1>4, <1>5, <1>6

-----------------------------------------------------------------------------
(* Every step of the runtime is a step of PumpFun or leaves the accounts     *)
(* alone.                                                                    *)
LEMMA ReturnIsNext ==
    ASSUME IInv, NEW s \in Slots, Sound(tx[s], Copy), Returns(s)
    PROVE  Next
<1> DEFINE ix == tx[s].ix
<1>1. PICK w : Applies(ix, w) /\ Applied(ix, w)
  BY ReturnedFacts
<1>2. ix \in Instructions
  BY DEF Sound
<1> HIDE DEF ix
<1>3. CASE ix.op \in Trades
  <2>1. ix.m \in BaseMints /\ ix.user \in Users
    BY <1>2, <1>3, TradeShape
  <2>2. CASE ix.op = "buy_tokens_from_exact_quote"
    <3>1. ix.amount \in QuoteAmounts /\ ix.limit \in MinOutputs
      BY <1>2, <1>3, <2>2, TradeShape
    <3>2. BuyTokensFromExactQuote(ix.user, ix.m, ix.amount, ix.limit)
      BY <1>1, <2>2, ExactQuoteBuyApplied
    <3> QED BY <2>1, <3>1, <3>2 DEF Next, PoolNext
  <2>3. CASE ix.op = "buy_exact_tokens_from_quote"
    <3>1. ix.amount \in BaseAmounts /\ ix.limit \in MaxInputs
      BY <1>2, <1>3, <2>3, TradeShape
    <3>2. BuyExactTokensFromQuote(ix.user, ix.m, ix.amount, ix.limit)
      BY <1>1, <2>3, ExactBaseBuyApplied
    <3> QED BY <2>1, <3>1, <3>2 DEF Next, PoolNext
  <2>4. CASE ix.op = "sell"
    <3>1. ix.amount \in SellAmounts /\ ix.limit \in MinOutputs
      BY <1>2, <1>3, <2>4, TradeShape
    <3>2. Sell(ix.user, ix.m, ix.amount, ix.limit)
      BY <1>1, <2>4, SellApplied
    <3> QED BY <2>1, <3>1, <3>2 DEF Next, PoolNext
  <2> QED BY <1>3, <2>2, <2>3, <2>4 DEF Trades, Buys
<1>4. CASE ix.op = "create_pool"
  <2>1. ix.m \in BaseMints /\ ix.user \in Users
    BY <1>2, <1>4, PoolShape
  <2>2. CreatePool(ix.user, ix.m)
    BY <1>1, <1>4, CreateApplied
  <2> QED BY <2>1, <2>2 DEF Next, PoolNext
<1>5. CASE ix.op = "withdraw"
  <2>1. ix.m \in BaseMints /\ ix.user \in Users
    BY <1>2, <1>5, PoolShape
  <2>2. Withdraw(ix.user, ix.m)
    BY <1>1, <1>5, WithdrawApplied
  <2> QED BY <2>1, <2>2 DEF Next, PoolNext
<1>6. CASE ix.op \in {"init_main_state", "transfer_ownership", "update_main_state"}
  BY <1>1, <1>6, MainApplied DEF Next
<1> QED BY <1>2, <1>3, <1>4, <1>5, <1>6, InstructionKinds

(* Every step of the runtime is one instruction, or a step of the token      *)
(* program, or none at all.                                                  *)
LEMMA TxStepIsAStep ==
    ASSUME IInv, TxInv, [TxNext]_txVars
    PROVE  [Next]_vars
<1>1. ASSUME NEW s \in Slots, NEW ix \in Instructions, Begin(s, ix)
      PROVE  UNCHANGED vars
  BY <1>1 DEF Begin
<1>2. ASSUME NEW s \in Slots, CheckAccounts(s)
      PROVE  UNCHANGED vars
  BY <1>2 DEF CheckAccounts, Fail
<1>3. ASSUME NEW s \in Slots, Handle(s)
      PROVE  UNCHANGED vars
  BY <1>3 DEF Handle, Fail
<1>4. ASSUME NEW s \in Slots, Invoke(s)
      PROVE  UNCHANGED vars
  BY <1>4 DEF Invoke, Fail
<1>5. ASSUME NEW s \in Slots, Finish(s)
      PROVE  [Next]_vars
  <2>1. CASE Fail(s, "Overflow")
    BY <2>1 DEF Fail
  <2>2. CASE Returns(s)
    <3>1. Sound(tx[s], Copy)
      BY <2>2 DEF TxInv, Running, Returns
    <3> QED BY <2>2, <3>1, ReturnIsNext
  <2> QED BY <1>5, <2>1, <2>2, FinishFailsOrReturns
<1>6. ASSUME NEW s \in Slots, RunOutOfCompute(s)
      PROVE  UNCHANGED vars
  BY <1>6 DEF RunOutOfCompute
<1>7. ASSUME LedgerStep
      PROVE  Next
  BY <1>7 DEF LedgerStep, Next
<1>8. ASSUME UNCHANGED txVars
      PROVE  UNCHANGED vars
  BY <1>8 DEF txVars
<1> QED BY <1>1, <1>2, <1>3, <1>4, <1>5, <1>6, <1>7, <1>8 DEF TxNext, Advance

(* Every step of the runtime keeps every running transaction sound.          *)
LEMMA TxStepKeepsTxInv ==
    ASSUME IInv, TxInv, [TxNext]_txVars
    PROVE  TxInv'
<1>1. ASSUME UNCHANGED txVars
      PROVE  TxInv'
  <2>1. Copy' = Copy /\ tx' = tx
    BY <1>1 DEF txVars, vars, Copy
  <2>2. \A r \in Slots : Running(r)' => Running(r) /\ tx'[r] = tx[r]
                                       /\ Agree(tx[r].ix, Copy, Copy')
    BY <2>1, AgreeWithOneself DEF Running
  <2>3. tx' = [r \in Slots |-> tx'[r]]
    BY <2>1 DEF TxInv
  <2> QED BY <2>2, <2>3, OuterStep
<1>2. CASE TxNext
  BY <1>2, BeginStep, CheckAccountsStep, HandleStep, InvokeStep, FinishStep, ComputeStep,
     LedgerStepKeepsTxInv DEF TxNext, Advance
<1> QED BY <1>1, <1>2

(* Initially no transaction runs.                                            *)
LEMMA TxInitIsInit == TxInit => Init /\ TxInv
  BY DEF TxInit, TxInv, Running, Idle

(* Along every behaviour the accounts keep the invariant of the instructions *)
(* taken one by one, and every transaction stands where its own instruction  *)
(* has got to on accounts nobody else has touched since it began.            *)
THEOREM TxInvariant == TxSpec => [](IInv /\ TxInv)
<1>1. TxInit => IInv /\ TxInv
  BY TxInitIsInit, InitIInv
<1>2. IInv /\ TxInv /\ [TxNext]_txVars => (IInv /\ TxInv)'
  <2> SUFFICES ASSUME IInv, TxInv, [TxNext]_txVars
               PROVE  (IInv /\ TxInv)'
    OBVIOUS
  <2>1. [Next]_vars
    BY TxStepIsAStep
  <2> QED BY <2>1, NextIInv, TxStepKeepsTxInv
<1> QED BY <1>1, <1>2, PTL DEF TxSpec

(* Transactions that run side by side on the accounts they locked, fail at   *)
(* any point and write back only what their Accounts structs declare mut     *)
(* (pool/ixs/*.rs, main_state/ixs/*.rs) implement the specification in which *)
(* every instruction is one step.                                            *)
THEOREM TransactionsAreAtomic == TxSpec => AppliedAtomically
<1>1. TxInit => Init
  BY TxInitIsInit
<1>2. IInv /\ TxInv /\ [TxNext]_txVars => [Next]_vars
  BY TxStepIsAStep
<1>3. TxSpec => Spec
  BY <1>1, <1>2, TxInvariant, PTL DEF TxSpec, Spec
<1> QED BY <1>3 DEF AppliedAtomically

-----------------------------------------------------------------------------
(* A transfer that is still due, and the accounts the transaction began with:*)
(* on what it locks these are the accounts as they are.                      *)
LEMMA DueTransfer ==
    ASSUME NEW s \in Slots, Running(s), Sound(tx[s], Copy), tx[s].todo # << >>
    PROVE  \E base \in Views :
             /\ tx[s].ix \in Instructions
             /\ Agree(tx[s].ix, base, Copy) /\ InCpis(tx[s].ix, base)
             /\ \E k \in 0 .. Len(Moves(tx[s].ix, base)) :
                  /\ k < Len(Moves(tx[s].ix, base))
                  /\ Head(tx[s].todo) = Moves(tx[s].ix, base)[k + 1]
                  /\ tx[s].copy.balance = After(base.balance, Moves(tx[s].ix, base), k)
<1> DEFINE t == tx[s]
           ix == t.ix
<1>1. PICK base \in Views : Agree(ix, base, Copy) /\ Progress(t, base)
  BY DEF Sound
<1>2. ix \in Instructions
  BY DEF Sound
<1> DEFINE moves == Moves(ix, base)
           n == Len(moves)
<1>3. InCpis(ix, base)
  BY <1>1 DEF Progress
<1>4. PICK k \in 0 .. n : /\ t.copy = CopyAfter(ix, base, k)
                          /\ t.todo = SubSeq(moves, k + 1, n)
  BY <1>1 DEF Progress
<1>5. moves \in Seq({moves[i] : i \in 1 .. n})
  BY <1>2, MovesAreLocked DEF Moves
<1>6. t.copy.balance = After(base.balance, moves, k)
  <2> HIDE DEF moves
  <2> QED BY <1>2, <1>4, CopyAfterFacts DEF moves
<1>7. k < n /\ Head(t.todo) = moves[k + 1]
  <2> HIDE DEF moves
  <2>1. SubSeq(moves, k + 1, n) # << >>
    BY <1>4
  <2> QED BY <1>4, <1>5, <2>1, RestOfMoves
<1> QED BY <1>1, <1>2, <1>3, <1>4, <1>6, <1>7

(* What a transaction in its CPIs has found in the accounts it began with is *)
(* what they still hold.                                                     *)
Due(ix, base) == ix \in Instructions /\ Agree(ix, base, Copy) /\ InCpis(ix, base)

(* The pool, the fee and the vaults such a transaction computed with are     *)
(* those of the accounts as they are now.                                    *)
LEMMA DuePool ==
    ASSUME IInv, NEW base \in Views, NEW ix, Due(ix, base), OnPool(ix)
    PROVE  /\ ix.m \in BaseMints /\ ix.user \in Users
           /\ Opened(ix, base).mainState = mainState
           /\ Opened(ix, base).pool[ix.m] = pool[ix.m]
           /\ ix.op # "create_pool" => Listed(pool[ix.m]) /\ pool[ix.m].exists
           /\ mainState.trading_fee \in Fees
           /\ HandlerError(ix, Opened(ix, base)) = "none"
           /\ AccountError(ix, Copy) = "none"
           /\ \A t \in Mints : Ata(t, pool_pda(ix.m)) \in Writes(ix) =>
                  /\ base.balance[t][pool_pda(ix.m)] = balance[t][pool_pda(ix.m)]
                  /\ balance[t][pool_pda(ix.m)] \in Nat
<1>1. ix \in Instructions /\ Agree(ix, base, Copy) /\ InCpis(ix, base)
  BY DEF Due
<1>2. ix.m \in BaseMints /\ ix.user \in Users
  BY <1>1, InstructionKinds, TradeShape, PoolShape, MainShape
<1>3. Copy \in Views /\ Copy.balance = balance /\ Copy.mainState = mainState /\ Copy.pool = pool
  BY CopyIsView DEF Copy
<1>4. base.mainState = mainState /\ base.pool[ix.m] = pool[ix.m]
  BY <1>1, <1>2, <1>3, ProgramAccounts DEF Agree, Used
<1>5. Opened(ix, base).mainState = mainState /\ Opened(ix, base).pool[ix.m] = pool[ix.m]
  BY <1>4, OpenedFacts
<1>6. AccountError(ix, Copy) = "none" /\ HandlerError(ix, Opened(ix, base)) = "none"
  BY <1>1, <1>3, SameAccountError DEF InCpis, InHandler
<1>7. ix.op # "create_pool" => pool[ix.m].exists
  BY <1>6, AccountFacts
<1>8. ix.op # "create_pool" => Listed(pool[ix.m])
  BY <1>2, <1>7, IInvParts DEF PoolsOK
<1>9. mainState.trading_fee \in Fees
  BY IInvParts, MainFacts
<1>10. ASSUME NEW t \in Mints, Ata(t, pool_pda(ix.m)) \in Writes(ix)
       PROVE  /\ base.balance[t][pool_pda(ix.m)] = balance[t][pool_pda(ix.m)]
              /\ balance[t][pool_pda(ix.m)] \in Nat
  <2>1. pool_pda(ix.m) \in Holders
    BY <1>2, PdaFacts
  <2>2. balance \in Balances
    BY <1>3 DEF Views
  <2> QED BY <1>1, <1>3, <1>10, <2>1, <2>2 DEF Agree, Balances
<1> QED BY <1>2, <1>5, <1>6, <1>7, <1>8, <1>9, <1>10

(* The fill a trade in its CPIs pays out is covered by what the pool booked. *)
LEMMA DueBuy ==
    ASSUME IInv, NEW base \in Views, NEW ix, Due(ix, base), ix.op \in Buys
    PROVE  LET fill == Fill(ix, Opened(ix, base))
           IN  /\ fill.fee \in Nat /\ fill.quote \in Nat /\ fill.base \in Nat
               /\ fill.base <= pool[ix.m].real_base_reserves
<1> DEFINE w == Opened(ix, base)
           p == pool[ix.m]
           fill == Fill(ix, w)
<1>1. ix.op \in Trades /\ ix \in Instructions /\ ix.op # "create_pool"
  BY DEF Due, Trades, Buys
<1>2. OnPool(ix) /\ ix.amount \in U64
  BY <1>1, TradeShape, InputAssumption DEF Buys
<1>3. /\ ix.m \in BaseMints /\ w.mainState = mainState /\ w.pool[ix.m] = p
      /\ Listed(p) /\ mainState.trading_fee \in Fees /\ HandlerError(ix, w) = "none"
  BY <1>1, <1>2, DuePool
<1>4. p.real_base_reserves \in Nat
  BY <1>3, U64Facts DEF Listed, PoolState
<1> HIDE DEF w, p
<1>5. ASSUME fill.base \in Nat, AfterBuy(p, fill) \in PoolState
      PROVE  fill.base <= p.real_base_reserves
  <2>1. AfterBuy(p, fill).real_base_reserves = p.real_base_reserves - fill.base
    BY <1>3 DEF AfterBuy, Listed, PoolState
  <2>2. AfterBuy(p, fill).real_base_reserves \in U64
    BY <1>5 DEF PoolState
  <2>3. p.real_base_reserves - fill.base \in Nat
    BY <2>1, <2>2, U64Facts
  <2> HIDE DEF fill
  <2> QED BY <1>4, <1>5, <2>3
<1>6. CASE ix.op = "buy_tokens_from_exact_quote"
  <2>1. fill = ExactQuoteFill(p, mainState.trading_fee, ix.amount)
    BY <1>3, <1>6, FillKinds
  <2>2. ExactQuoteError(ix, w, p) = "none"
    BY <1>3, <1>6, HandlerErrorKinds
  <2>3. Headroom(p) \in U64 /\ ReservesFit(p) /\ AfterBuy(p, fill) \in PoolState
    BY <2>2 DEF ExactQuoteError
  <2>4. fill.fee \in Nat /\ fill.quote \in Nat /\ fill.base \in Nat
    BY <1>2, <1>3, <2>1, <2>3, ListedIsPriced, ExactQuoteFillFacts
  <2> QED BY <1>5, <2>3, <2>4 DEF w, p
<1>7. CASE ix.op = "buy_exact_tokens_from_quote"
  <2>1. fill = ExactBaseFill(p, mainState.trading_fee, ix.amount)
    BY <1>3, <1>7, FillKinds
  <2>2. ExactBaseError(ix, w, p) = "none"
    BY <1>3, <1>7, HandlerErrorKinds
  <2>3. /\ Headroom(p) \in U64 /\ ReservesFit(p) /\ AfterBuy(p, fill) \in PoolState
        /\ ~(ix.amount > p.real_base_reserves)
    BY <2>2 DEF ExactBaseError
  <2>4. ix.amount <= p.real_base_reserves
    <3>1. ix.amount \in Nat
      BY <1>2, U64Facts
    <3> QED BY <1>4, <2>3, <3>1
  <2>5. fill.fee \in Nat /\ fill.quote \in Nat /\ fill.base \in Nat
    BY <1>2, <1>3, <2>1, <2>3, <2>4, ListedIsPriced, ExactBaseFillFacts
  <2> QED BY <1>5, <2>3, <2>5 DEF w, p
<1> QED BY <1>6, <1>7 DEF Buys

(* A sell pays out no more quote than its pool has booked.                   *)
LEMMA DueSell ==
    ASSUME IInv, NEW base \in Views, NEW ix, Due(ix, base), ix.op = "sell"
    PROVE  LET fill == Fill(ix, Opened(ix, base))
           IN  /\ fill.fee \in Nat /\ fill.quote \in Nat /\ fill.base \in Nat
               /\ fill.fee + fill.quote <= pool[ix.m].real_quote_reserves
<1> DEFINE w == Opened(ix, base)
           p == pool[ix.m]
           fill == Fill(ix, w)
<1>1. ix.op \in Trades /\ ix \in Instructions /\ ix.op # "create_pool"
  BY DEF Due, Trades, Buys
<1>2. OnPool(ix) /\ ix.amount \in U64
  BY <1>1, TradeShape, InputAssumption DEF Buys
<1>3. /\ ix.m \in BaseMints /\ w.mainState = mainState /\ w.pool[ix.m] = p
      /\ Listed(p) /\ mainState.trading_fee \in Fees /\ HandlerError(ix, w) = "none"
  BY <1>1, <1>2, DuePool
<1>4. p.real_quote_reserves \in Nat
  BY <1>3, U64Facts DEF Listed, PoolState
<1> HIDE DEF w, p
<1>5. fill = SellFill(p, mainState.trading_fee, ix.amount)
  BY <1>3, FillKinds
<1>6. SellError(ix, w, p) = "none"
  BY <1>3, HandlerErrorKinds
<1>7. ReservesFit(p) /\ AfterSell(p, fill) \in PoolState
  BY <1>6 DEF SellError
<1>8. /\ fill.fee \in Nat /\ fill.quote \in Nat /\ fill.base \in Nat
      /\ fill.fee + fill.quote = fill.total
  BY <1>2, <1>3, <1>5, <1>7, ListedIsPriced, SellFillFacts
<1>9. AfterSell(p, fill).real_quote_reserves = p.real_quote_reserves - fill.total
  BY <1>3 DEF AfterSell, Listed, PoolState
<1>10. AfterSell(p, fill).real_quote_reserves \in Nat
  BY <1>7, U64Facts DEF PoolState
<1>11. fill.fee + fill.quote <= p.real_quote_reserves
  <2> HIDE DEF fill
  <2> QED BY <1>4, <1>8, <1>9, <1>10
<1> QED BY <1>8, <1>11 DEF w, p

(* Transfers of one token leave the accounts of another alone.               *)
LEMMA OtherToken ==
    ASSUME NEW b, Table(b), NEW move, move.token \in Mints,
           move.from \in Holders, move.to \in Holders,
           NEW t \in Mints, NEW h \in Holders, move.token # t
    PROVE  Apply(b, move)[t][h] = b[t][h]
  BY ApplyFacts DEF Moved

(* A vault that pays an amount keeps at least the rest.                      *)
LEMMA VaultKeepsTheRest ==
    ASSUME NEW b, Table(b), NEW move, move.token \in Mints,
           move.from \in Holders, move.to \in Holders, move.amount \in Nat,
           b[move.token][move.from] \in Nat
    PROVE  /\ Apply(b, move)[move.token][move.from] \in Int
           /\ Apply(b, move)[move.token][move.from] >= b[move.token][move.from] - move.amount
<1>1. Apply(b, move)[move.token][move.from] = Moved(b[move.token][move.from], move, move.token, move.from)
  BY ApplyFacts
<1> QED BY <1>1 DEF Moved

(* The base vault pays what was bought.                                      *)
LEMMA BuyVaultPays ==
    ASSUME BackedInv, NEW base \in Views, NEW ix, Due(ix, base), ix.op \in Buys,
           NEW k \in 0 .. Len(Moves(ix, base)), k < Len(Moves(ix, base)),
           Moves(ix, base)[k + 1].from \notin Users
    PROVE  Pays(After(base.balance, Moves(ix, base), k), Moves(ix, base)[k + 1])
<1> DEFINE w == Opened(ix, base)
           fill == Fill(ix, w)
           vault == pool_pda(ix.m)
           first == Move(QuoteMint, ix.user, ix.fee_recipient, fill.fee)
           second == Move(QuoteMint, ix.user, vault, fill.quote)
           third == Move(ix.m, vault, ix.user, fill.base)
           b1 == Apply(base.balance, first)
           b2 == Apply(b1, second)
<1>1. ix.op \in Trades /\ ix.op # "create_pool" /\ ix \in Instructions /\ OnPool(ix)
  BY TradeShape DEF Due, Trades, Buys
<1>2. IInv /\ VaultsBacked
  BY DEF BackedInv
<1>3. /\ ix.m \in BaseMints /\ ix.user \in Users /\ pool[ix.m].exists
      /\ Ata(ix.m, vault) \in Writes(ix) =>
             base.balance[ix.m][vault] = balance[ix.m][vault] /\ balance[ix.m][vault] \in Nat
  BY <1>1, <1>2, DuePool, PdaFacts
<1>4. /\ ix.user \in Holders /\ vault \in Holders /\ ix.fee_recipient \in Holders
      /\ ix.m \in Mints /\ QuoteMint \in Mints /\ ix.m # QuoteMint
  BY <1>1, <1>3, TradeShape, PdaFacts
<1>5. Ata(ix.m, vault) \in Writes(ix)
  BY <1>1, TradeAccounts DEF Vaults
<1>6. fill.base \in Nat /\ fill.base <= balance[ix.m][vault] /\ balance[ix.m][vault] \in Nat
      /\ base.balance[ix.m][vault] = balance[ix.m][vault]
  <2>1. fill.base \in Nat /\ fill.base <= pool[ix.m].real_base_reserves
    BY <1>2, DueBuy
  <2>2. balance[ix.m][vault] >= pool[ix.m].real_base_reserves
    BY <1>2, <1>3 DEF VaultsBacked, Vault
  <2>3. pool[ix.m].real_base_reserves \in Nat
    BY <1>1, <1>2, <1>3, DuePool, U64Facts DEF Listed, PoolState
  <2> HIDE DEF fill, vault
  <2> QED BY <1>3, <1>5, <2>1, <2>2, <2>3
<1>7. Moves(ix, base) = <<first, second, third>>
  BY BuyMoves3 DEF Moves
<1> HIDE DEF w, fill, vault
<1>8. k = 2
  <2>1. first.from = ix.user /\ second.from = ix.user
    BY DEF Move
  <2>2. k # 0 /\ k # 1
    BY <1>3, <1>7, <2>1
  <2> QED BY <1>7, <2>2
<1>9. b2[ix.m][vault] = balance[ix.m][vault]
  <2>1. Table(base.balance)
    BY BalancesAreTables DEF Views
  <2>2. /\ first.token = QuoteMint /\ first.from = ix.user /\ first.to = ix.fee_recipient
        /\ second.token = QuoteMint /\ second.from = ix.user /\ second.to = vault
    BY DEF Move
  <2> HIDE DEF first, second
  <2>3. Table(b1) /\ b1[ix.m][vault] = base.balance[ix.m][vault]
    BY <1>4, <2>1, <2>2, ApplyFacts, OtherToken
  <2> HIDE DEF b1
  <2>4. b2[ix.m][vault] = b1[ix.m][vault]
    BY <1>4, <2>2, <2>3, OtherToken
  <2> QED BY <1>6, <2>3, <2>4
<1>10. After(base.balance, Moves(ix, base), 2) = b2
  BY <1>7 DEF After
<1>11. Pays(b2, third)
  <2> HIDE DEF b2
  <2> QED BY <1>6, <1>9 DEF Pays, Covers, Move
<1>12. Moves(ix, base)[3] = third
  BY <1>7
<1> HIDE DEF b2, third
<1> QED BY <1>8, <1>10, <1>11, <1>12

(* The quote vault pays the fee and the seller.                              *)
LEMMA SellVaultPays ==
    ASSUME BackedInv, NEW base \in Views, NEW ix, Due(ix, base), ix.op = "sell",
           NEW k \in 0 .. Len(Moves(ix, base)), k < Len(Moves(ix, base)),
           Moves(ix, base)[k + 1].from \notin Users
    PROVE  Pays(After(base.balance, Moves(ix, base), k), Moves(ix, base)[k + 1])
<1> DEFINE w == Opened(ix, base)
           fill == Fill(ix, w)
           vault == pool_pda(ix.m)
           first == Move(ix.m, ix.user, vault, fill.base)
           second == Move(QuoteMint, vault, ix.fee_recipient, fill.fee)
           third == Move(QuoteMint, vault, ix.user, fill.quote)
           b1 == Apply(base.balance, first)
           b2 == Apply(b1, second)
<1>1. ix.op \in Trades /\ ix.op # "create_pool" /\ ix \in Instructions /\ OnPool(ix)
  BY TradeShape DEF Due, Trades, Buys
<1>2. IInv /\ VaultsBacked
  BY DEF BackedInv
<1>3. /\ ix.m \in BaseMints /\ ix.user \in Users /\ pool[ix.m].exists
      /\ Ata(QuoteMint, vault) \in Writes(ix) =>
             /\ base.balance[QuoteMint][vault] = balance[QuoteMint][vault]
             /\ balance[QuoteMint][vault] \in Nat
  BY <1>1, <1>2, DuePool, PdaFacts
<1>4. /\ ix.user \in Holders /\ vault \in Holders /\ ix.fee_recipient \in Holders
      /\ ix.m \in Mints /\ QuoteMint \in Mints /\ ix.m # QuoteMint
  BY <1>1, <1>3, TradeShape, PdaFacts
<1>5. Ata(QuoteMint, vault) \in Writes(ix)
  BY <1>1, TradeAccounts DEF Vaults
<1>6. /\ fill.fee \in Nat /\ fill.quote \in Nat
      /\ fill.fee + fill.quote <= balance[QuoteMint][vault]
      /\ balance[QuoteMint][vault] \in Nat
      /\ base.balance[QuoteMint][vault] = balance[QuoteMint][vault]
  <2>1. /\ fill.fee \in Nat /\ fill.quote \in Nat
        /\ fill.fee + fill.quote <= pool[ix.m].real_quote_reserves
    BY <1>2, DueSell
  <2>2. balance[QuoteMint][vault] >= pool[ix.m].real_quote_reserves
    BY <1>2, <1>3 DEF VaultsBacked, Vault
  <2>3. pool[ix.m].real_quote_reserves \in Nat
    BY <1>1, <1>2, <1>3, DuePool, U64Facts DEF Listed, PoolState
  <2> HIDE DEF fill, vault
  <2> QED BY <1>3, <1>5, <2>1, <2>2, <2>3
<1>7. Moves(ix, base) = <<first, second, third>>
  BY SellMoves3 DEF Moves
<1> HIDE DEF w, fill, vault
<1>8. k = 1 \/ k = 2
  <2>1. first.from = ix.user
    BY DEF Move
  <2>2. k # 0
    BY <1>3, <1>7, <2>1
  <2> QED BY <1>7, <2>2
<1>9. /\ b1[QuoteMint][vault] = balance[QuoteMint][vault]
      /\ b2[QuoteMint][vault] \in Int
      /\ b2[QuoteMint][vault] >= balance[QuoteMint][vault] - fill.fee
  <2>1. Table(base.balance)
    BY BalancesAreTables DEF Views
  <2>2. /\ first.token = ix.m /\ first.from = ix.user /\ first.to = vault
        /\ second.token = QuoteMint /\ second.from = vault /\ second.to = ix.fee_recipient
        /\ second.amount = fill.fee
    BY DEF Move
  <2> HIDE DEF first, second
  <2>3. Table(b1) /\ b1[QuoteMint][vault] = base.balance[QuoteMint][vault]
    BY <1>4, <2>1, <2>2, ApplyFacts, OtherToken
  <2> HIDE DEF b1
  <2>4. /\ b2[QuoteMint][vault] \in Int
        /\ b2[QuoteMint][vault] >= b1[QuoteMint][vault] - fill.fee
    BY <1>4, <1>6, <2>2, <2>3, VaultKeepsTheRest
  <2> HIDE DEF b2
  <2> QED BY <1>6, <2>3, <2>4
<1>10. /\ After(base.balance, Moves(ix, base), 1) = b1
       /\ After(base.balance, Moves(ix, base), 2) = b2
       /\ Moves(ix, base)[2] = second /\ Moves(ix, base)[3] = third
  BY <1>7 DEF After
<1> HIDE DEF b2, b1
<1>11. Pays(b1, second)
  BY <1>6, <1>9 DEF Pays, Covers, Move
<1>12. Pays(b2, third)
  BY <1>6, <1>9 DEF Pays, Covers, Move
<1> HIDE DEF second, third
<1> QED BY <1>8, <1>10, <1>11, <1>12

(* The vaults pay what is booked to the withdrawer.                          *)
LEMMA WithdrawVaultPays ==
    ASSUME BackedInv, NEW base \in Views, NEW ix, Due(ix, base), ix.op = "withdraw",
           NEW k \in 0 .. Len(Moves(ix, base)), k < Len(Moves(ix, base))
    PROVE  Pays(After(base.balance, Moves(ix, base), k), Moves(ix, base)[k + 1])
<1> DEFINE w == Opened(ix, base)
           p == pool[ix.m]
           vault == pool_pda(ix.m)
           first == Move(ix.m, vault, ix.user, p.real_base_reserves)
           second == Move(QuoteMint, vault, ix.user, p.real_quote_reserves)
           b1 == Apply(base.balance, first)
<1>1. ix \in Instructions /\ OnPool(ix) /\ ix.op # "create_pool"
  BY PoolShape DEF Due
<1>2. IInv /\ VaultsBacked
  BY DEF BackedInv
<1>3. /\ ix.m \in BaseMints /\ ix.user \in Users /\ p.exists /\ Listed(p)
      /\ w.pool[ix.m] = p
      /\ \A t \in Mints : Ata(t, vault) \in Writes(ix) =>
             base.balance[t][vault] = balance[t][vault] /\ balance[t][vault] \in Nat
  BY <1>1, <1>2, DuePool
<1>4. /\ ix.user \in Holders /\ vault \in Holders
      /\ ix.m \in Mints /\ QuoteMint \in Mints /\ ix.m # QuoteMint
  BY <1>1, <1>3, PdaFacts
<1>5. Ata(QuoteMint, vault) \in Writes(ix) /\ Ata(ix.m, vault) \in Writes(ix)
  BY <1>1, WithdrawAccounts DEF Vaults
<1>6. /\ balance[ix.m][vault] >= p.real_base_reserves
      /\ balance[QuoteMint][vault] >= p.real_quote_reserves
  BY <1>2, <1>3 DEF VaultsBacked, Vault
<1>7. p.real_base_reserves \in Nat /\ p.real_quote_reserves \in Nat
  BY <1>3, U64Facts DEF Listed, PoolState
<1>8. Moves(ix, base) = <<first, second>>
  BY <1>3, WithdrawMoves2 DEF Moves
<1> HIDE DEF w, p, vault
<1>9. k = 0 \/ k = 1
  BY <1>8
<1>10. b1[QuoteMint][vault] = balance[QuoteMint][vault]
  <2>1. Table(base.balance)
    BY BalancesAreTables DEF Views
  <2>2. first.token = ix.m /\ first.from = vault /\ first.to = ix.user
    BY DEF Move
  <2> HIDE DEF first
  <2>3. b1[QuoteMint][vault] = base.balance[QuoteMint][vault]
    BY <1>4, <2>1, <2>2, OtherToken
  <2> QED BY <1>3, <1>4, <1>5, <2>3
<1>11. /\ After(base.balance, Moves(ix, base), 0) = base.balance
       /\ After(base.balance, Moves(ix, base), 1) = b1
       /\ Moves(ix, base)[1] = first /\ Moves(ix, base)[2] = second
  BY <1>8 DEF After
<1>12. Pays(base.balance, first)
  BY <1>3, <1>4, <1>5, <1>6, <1>7 DEF Pays, Covers, Move
<1> HIDE DEF b1
<1>13. Pays(b1, second)
  BY <1>3, <1>4, <1>6, <1>10 DEF Pays, Covers, Move
<1> HIDE DEF second, first
<1> QED BY <1>9, <1>11, <1>12, <1>13

(* Every transfer that is due from a vault is covered.                       *)
LEMMA DueTransfersArePaid == BackedInv /\ TxInv => VaultsCanPay
<1> SUFFICES ASSUME BackedInv, TxInv, NEW s \in Slots, Running(s), tx[s].todo # << >>,
                    Head(tx[s].todo).from \notin Users
             PROVE  Pays(tx[s].copy.balance, Head(tx[s].todo))
  BY DEF VaultsCanPay, Pays
<1> DEFINE ix == tx[s].ix
<1>1. Sound(tx[s], Copy)
  BY DEF TxInv
<1>2. PICK base \in Views :
        /\ ix \in Instructions /\ Agree(ix, base, Copy) /\ InCpis(ix, base)
        /\ \E k \in 0 .. Len(Moves(ix, base)) :
             /\ k < Len(Moves(ix, base))
             /\ Head(tx[s].todo) = Moves(ix, base)[k + 1]
             /\ tx[s].copy.balance = After(base.balance, Moves(ix, base), k)
  BY <1>1, DueTransfer
<1>3. PICK k \in 0 .. Len(Moves(ix, base)) :
        /\ k < Len(Moves(ix, base))
        /\ Head(tx[s].todo) = Moves(ix, base)[k + 1]
        /\ tx[s].copy.balance = After(base.balance, Moves(ix, base), k)
  BY <1>2
<1>4. Due(ix, base)
  BY <1>2 DEF Due
<1> HIDE DEF ix
<1>5. CASE ix.op \in Buys
  BY <1>3, <1>4, <1>5, BuyVaultPays
<1>6. CASE ix.op = "sell"
  BY <1>3, <1>4, <1>6, SellVaultPays
<1>7. CASE ix.op = "withdraw"
  BY <1>3, <1>4, <1>7, WithdrawVaultPays
<1>8. CASE ix.op = "create_pool"
  <2>1. ix.user \in Users
    BY <1>2, <1>8, PoolShape
  <2>2. Len(Moves(ix, base)) = 1 /\ Moves(ix, base)[1].from = ix.user
    <3> DEFINE amount == Opened(ix, base).balance[ix.m][ix.user]
               only == Move(ix.m, ix.user, pool_pda(ix.m), amount)
    <3>1. Moves(ix, base) = <<only>>
      BY <1>8, CreateMoves1 DEF Moves
    <3>2. only.from = ix.user
      BY DEF Move
    <3> HIDE DEF only
    <3> QED BY <3>1, <3>2
  <2>3. k = 0
    BY <1>3, <2>2
  <2> QED BY <1>3, <2>1, <2>2, <2>3
<1>9. CASE ix.op \in {"init_main_state", "transfer_ownership", "update_main_state"}
  <2>1. Len(Moves(ix, base)) = 0
    BY <1>9, MainMoves0 DEF Moves
  <2> QED BY <1>3, <2>1
<1> QED BY <1>2, <1>5, <1>6, <1>7, <1>8, <1>9, InstructionKinds DEF Trades

(* No transfer out of a vault ever fails, whatever else runs, in any slot:   *)
(* the books are the vault's since the transaction began (VaultsBacked), and *)
(* no fill, and no withdrawal, takes more than is booked.                    *)
THEOREM VaultsAlwaysPay == TxSpec => []VaultsCanPay
<1>1. TxInit => BackedInv /\ TxInv
  <2>1. Init => VaultsBacked
    BY DEF Init, VaultsBacked, NoPool
  <2> QED BY <2>1, TxInitIsInit, InitIInv DEF BackedInv
<1>2. BackedInv /\ TxInv /\ [TxNext]_txVars => (BackedInv /\ TxInv)'
  BY TxStepIsAStep, TxStepKeepsTxInv, NextBacked DEF BackedInv
<1> QED BY <1>1, <1>2, DueTransfersArePaid, PTL DEF TxSpec

-----------------------------------------------------------------------------
(* A complete curve stays complete: AbstractCurve has no way back to trading.*)
LEMMA CompleteForGood ==
    ASSUME IInv, [Next]_vars, NEW m \in BaseMints, pool[m].exists, pool[m].complete
    PROVE  pool'[m].exists /\ pool'[m].complete
<1>1. [Curve(m)!Next]_(Curve(m)!curveVars)
  BY StepRefines
<1>2. Phase(pool[m]) \in {"complete", "withdrawn"}
  BY DEF Phase
<1>3. Phase(pool'[m]) \in {"complete", "withdrawn"}
  <2>1. CASE Curve(m)!Next
    BY <1>2, <2>1 DEF Curve!Next, Curve!List, Curve!Trade, Curve!Complete, Curve!Withdraw
  <2>2. CASE UNCHANGED Curve(m)!curveVars
    BY <1>2, <2>2 DEF Curve!curveVars
  <2> QED BY <1>1, <2>1, <2>2
<1> QED BY <1>3 DEF Phase, Withdrawn

(* Which failures say that the curve is complete.                            *)
LEMMA CompleteIsTheReason ==
    ASSUME NEW ix, NEW w, ix.op \in Trades, HandlerError(ix, w) = "BondingCurveComplete"
    PROVE  w.pool[ix.m].complete
<1>1. CASE ix.op = "buy_tokens_from_exact_quote"
  <2>1. HandlerError(ix, w) = ExactQuoteError(ix, w, w.pool[ix.m])
    BY <1>1, Zenon DEF HandlerError
  <2> QED BY <2>1 DEF ExactQuoteError
<1>2. CASE ix.op = "buy_exact_tokens_from_quote"
  <2>1. HandlerError(ix, w) = ExactBaseError(ix, w, w.pool[ix.m])
    BY <1>2, Zenon DEF HandlerError
  <2> QED BY <2>1 DEF ExactBaseError
<1>3. CASE ix.op = "sell"
  <2>1. HandlerError(ix, w) = SellError(ix, w, w.pool[ix.m])
    BY <1>3, Zenon DEF HandlerError
  <2> QED BY <2>1 DEF SellError
<1> QED BY <1>1, <1>2, <1>3 DEF Trades, Buys

CompleteInv ==
    /\ IInv
    /\ TxInv
    /\ \A s \in Slots :
         /\ tx[s].stage = "failed"
         /\ tx[s].ix.op \in Trades
         /\ tx[s].code = "BondingCurveComplete"
         => /\ tx[s].ix.m \in BaseMints
            /\ pool[tx[s].ix.m].exists
            /\ pool[tx[s].ix.m].complete

(* A step of a transaction leaves it running, in the stage the code is in,   *)
(* or fails it with the error at hand.                                       *)
LEMMA AdvancesOrFails ==
    ASSUME NEW s \in Slots, tx = [r \in Slots |-> tx[r]], Running(s), Sound(tx[s], Copy)
    PROVE  /\ CheckAccounts(s) =>
                tx'[s].stage = "handler" \/ Fail(s, AccountError(tx[s].ix, tx[s].copy))
           /\ Handle(s) =>
                tx'[s].stage = "cpi" \/ Fail(s, HandlerError(tx[s].ix, tx[s].copy))
           /\ Invoke(s) => tx'[s].stage = "cpi" \/ Fail(s, "InsufficientTokens")
           /\ Finish(s) => tx'[s].stage = "idle" \/ Fail(s, "Overflow")
<1> DEFINE t == tx[s]
           ix == t.ix
<1>1. t = Execution(t.stage, ix, t.copy, t.todo, t.spent)
  BY DEF Sound
<1>2. ASSUME CheckAccounts(s), ~Fail(s, AccountError(ix, t.copy))
      PROVE  tx'[s].stage = "handler"
  <2> DEFINE opened == [t.copy EXCEPT !.atas = @ \cup Inits(t.ix) \cup InitsIfNeeded(t.ix)]
  <2>1. tx'[s] = [[t EXCEPT !.stage = "handler"] EXCEPT !.copy = opened]
    BY <1>1, <1>2 DEF CheckAccounts
  <2> HIDE DEF opened, t, ix
  <2>2. tx'[s] = Execution("handler", ix, opened, t.todo, t.spent)
    <3>1. [t EXCEPT !.stage = "handler"] = Execution("handler", ix, t.copy, t.todo, t.spent)
      BY <1>1 DEF Execution
    <3> QED BY <2>1, <3>1 DEF Execution
  <2> QED BY <2>2 DEF Execution
<1>3. ASSUME Handle(s), ~Fail(s, HandlerError(ix, t.copy))
      PROVE  tx'[s].stage = "cpi"
  <2> DEFINE copy == Booked(t.ix, t.copy)
             todo == Transfers(t.ix, t.copy)
             spent == Spent(t.ix, t.copy)
  <2>1. tx' = [tx EXCEPT ![s].stage = "cpi", ![s].copy = copy,
                         ![s].todo = todo, ![s].spent = spent]
    BY <1>3 DEF Handle
  <2> HIDE DEF copy, todo, spent
  <2>2. tx'[s] = [[[[t EXCEPT !.stage = "cpi"] EXCEPT !.copy = copy]
                      EXCEPT !.todo = todo] EXCEPT !.spent = spent]
    BY <1>1, <2>1
  <2> HIDE DEF t, ix
  <2>3. tx'[s] = Execution("cpi", ix, copy, todo, spent)
    <3>1. [t EXCEPT !.stage = "cpi"] = Execution("cpi", ix, t.copy, t.todo, t.spent)
      BY <1>1 DEF Execution
    <3>2. [Execution("cpi", ix, t.copy, t.todo, t.spent) EXCEPT !.copy = copy]
            = Execution("cpi", ix, copy, t.todo, t.spent)
      BY DEF Execution
    <3>3. [Execution("cpi", ix, copy, t.todo, t.spent) EXCEPT !.todo = todo]
            = Execution("cpi", ix, copy, todo, t.spent)
      BY DEF Execution
    <3> QED BY <2>2, <3>1, <3>2, <3>3 DEF Execution
  <2> QED BY <2>3 DEF Execution
<1>4. ASSUME Invoke(s), ~Fail(s, "InsufficientTokens")
      PROVE  tx'[s].stage = "cpi"
  <2> DEFINE move == Head(t.todo)
             paid == Transfer(t.copy.balance, move.token, move.from, move.to, move.amount)
             copy == [t.copy EXCEPT !.balance = paid]
  <2>1. tx'[s] = [[t EXCEPT !.todo = Tail(t.todo)] EXCEPT !.copy = copy] /\ t.stage = "cpi"
    BY <1>1, <1>4 DEF Invoke
  <2> HIDE DEF t, ix, copy
  <2>2. tx'[s] = Execution("cpi", ix, copy, Tail(t.todo), t.spent)
    <3>1. [t EXCEPT !.todo = Tail(t.todo)]
            = Execution("cpi", ix, t.copy, Tail(t.todo), t.spent)
      <4> DEFINE rest == Tail(t.todo)
      <4> HIDE DEF rest
      <4>1. [t EXCEPT !.todo = rest] = Execution("cpi", ix, t.copy, rest, t.spent)
        BY <1>1, <2>1 DEF Execution
      <4> QED BY <4>1 DEF rest
    <3> QED BY <2>1, <3>1 DEF Execution
  <2> QED BY <2>2 DEF Execution
<1>5. ASSUME Finish(s), ~Fail(s, "Overflow")
      PROVE  tx'[s].stage = "idle"
  BY <1>5, FinishFailsOrReturns DEF Returns, Idle
<1> QED BY <1>2, <1>3, <1>4, <1>5

(* A transaction that fails with BondingCurveComplete fails on a curve that  *)
(* is complete now, not only in its copy.                                    *)
LEMMA FailsOnACompleteCurve ==
    ASSUME IInv, NEW s \in Slots, Running(s), Sound(tx[s], Copy), Advance(s),
           tx'[s].stage = "failed", tx'[s].ix.op \in Trades,
           tx'[s].code = "BondingCurveComplete", tx = [r \in Slots |-> tx[r]]
    PROVE  /\ tx'[s].ix.m \in BaseMints
           /\ pool[tx'[s].ix.m].exists
           /\ pool[tx'[s].ix.m].complete
<1> DEFINE t == tx[s]
           ix == t.ix
<1>1. ASSUME NEW code, Fail(s, code)
      PROVE  /\ tx'[s].ix.op = ix.op /\ tx'[s].code = code
             /\ ix.op \in Trades => tx'[s].ix.m = ix.m
  <2>1. tx'[s] = [stage |-> "failed", ix |-> Submitted(ix), code |-> code]
    BY <1>1 DEF Fail
  <2> QED BY <2>1 DEF Submitted
<1>2. CASE CheckAccounts(s)
  <2>1. AccountError(ix, t.copy) # "BondingCurveComplete"
    BY DEF AccountError
  <2>2. tx'[s].stage = "handler" \/ Fail(s, AccountError(ix, t.copy))
    BY <1>2, AdvancesOrFails
  <2> QED BY <1>1, <2>1, <2>2
<1>3. CASE Handle(s)
  <2>1. t.stage = "handler"
    BY <1>3 DEF Handle
  <2>2. tx'[s].stage = "cpi" \/ Fail(s, HandlerError(ix, t.copy))
    BY <1>3, AdvancesOrFails
  <2>3. /\ tx'[s].ix.op = ix.op /\ tx'[s].ix.m = ix.m
        /\ HandlerError(ix, t.copy) = "BondingCurveComplete"
    BY <1>1, <2>2
  <2>4. PICK base \in Views : /\ Agree(ix, base, Copy) /\ InHandler(ix, base)
                              /\ t.copy = Opened(ix, base)
    BY <2>1 DEF Sound, Progress
  <2>5. ix \in Instructions /\ ix.op \in Trades
    BY <2>3 DEF Sound
  <2>6. OnPool(ix) /\ ix.m \in BaseMints /\ ix.op # "create_pool"
    BY <2>5, TradeShape DEF Trades, Buys
  <2>7. t.copy.pool[ix.m].complete
    BY <2>3, <2>5, CompleteIsTheReason
  <2>8. Copy \in Views /\ Copy.pool = pool
    BY CopyIsView DEF Copy
  <2>9. t.copy.pool[ix.m] = pool[ix.m]
    BY <2>4, <2>5, <2>6, <2>8, OpenedFacts, ProgramAccounts DEF Agree, Used
  <2>10. AccountError(ix, Copy) = "none"
    BY <2>4, <2>5, <2>8, SameAccountError DEF InHandler
  <2>11. pool[ix.m].exists
    BY <2>6, <2>10, AccountFacts
  <2> QED BY <2>3, <2>6, <2>7, <2>9, <2>11
<1>4. CASE Invoke(s)
  BY <1>1, <1>4, AdvancesOrFails
<1>5. CASE Finish(s)
  BY <1>1, <1>5, AdvancesOrFails
<1> QED BY <1>2, <1>3, <1>4, <1>5 DEF Advance

(* Every step of a transaction keeps this.                                   *)
LEMMA NextCompleteInv == CompleteInv /\ [TxNext]_txVars => CompleteInv'
<1> SUFFICES ASSUME CompleteInv, [TxNext]_txVars PROVE CompleteInv'
  OBVIOUS
<1>1. IInv /\ TxInv /\ [Next]_vars /\ IInv' /\ TxInv'
  BY TxStepIsAStep, TxStepKeepsTxInv, NextIInv DEF CompleteInv
<1>2. tx = [s \in Slots |-> tx[s]] /\ \A s \in Slots : Running(s) => Sound(tx[s], Copy)
  BY <1>1 DEF TxInv
<1> SUFFICES ASSUME NEW s \in Slots, tx'[s].stage = "failed", tx'[s].ix.op \in Trades,
                    tx'[s].code = "BondingCurveComplete"
             PROVE  /\ tx'[s].ix.m \in BaseMints
                    /\ pool'[tx'[s].ix.m].exists
                    /\ pool'[tx'[s].ix.m].complete
  BY <1>1 DEF CompleteInv
<1>3. ASSUME tx'[s] = tx[s]
      PROVE  /\ tx'[s].ix.m \in BaseMints
             /\ pool'[tx'[s].ix.m].exists
             /\ pool'[tx'[s].ix.m].complete
  <2>1. /\ tx[s].ix.m \in BaseMints
        /\ pool[tx[s].ix.m].exists
        /\ pool[tx[s].ix.m].complete
    BY <1>3 DEF CompleteInv
  <2> QED BY <1>1, <1>3, <2>1, CompleteForGood
<1>4. ASSUME NEW r \in Slots, NEW ix \in Instructions, Begin(r, ix)
      PROVE  tx'[s] = tx[s]
  BY <1>2, <1>4 DEF Begin
<1>5. ASSUME NEW r \in Slots, Advance(r)
      PROVE  /\ Running(r)
             /\ r # s => tx'[s] = tx[s]
  BY <1>2, <1>5 DEF Advance, CheckAccounts, Handle, Invoke, Finish, Fail, Running
<1>6. ASSUME NEW r \in Slots, RunOutOfCompute(r)
      PROVE  tx'[s] = tx[s]
  BY <1>2, <1>6 DEF RunOutOfCompute, Idle
<1>7. ASSUME Advance(s)
      PROVE  /\ tx'[s].ix.m \in BaseMints
             /\ pool'[tx'[s].ix.m].exists
             /\ pool'[tx'[s].ix.m].complete
  <2>1. /\ tx'[s].ix.m \in BaseMints
        /\ pool[tx'[s].ix.m].exists
        /\ pool[tx'[s].ix.m].complete
    BY <1>1, <1>2, <1>5, <1>7, FailsOnACompleteCurve
  <2> QED BY <1>1, <2>1, CompleteForGood
<1>8. CASE LedgerStep
  BY <1>3, <1>8 DEF LedgerStep
<1>9. CASE UNCHANGED txVars
  BY <1>3, <1>9 DEF txVars
<1> QED BY <1>3, <1>4, <1>5, <1>6, <1>7, <1>8, <1>9 DEF TxNext

(* Who was told BondingCurveComplete (buy.rs:102, buy.rs:142, sell.rs:25)    *)
(* was told what is so and stays so: no later order on that curve succeeds,  *)
(* its withdrawal included.                                                  *)
THEOREM CompleteErrorsAreFinal == TxSpec => []CompleteErrorIsFinal
<1>1. TxInit => CompleteInv
  BY TxInitIsInit, InitIInv DEF CompleteInv, TxInit, Idle
<1>2. CompleteInv => CompleteErrorIsFinal
  BY DEF CompleteInv, CompleteErrorIsFinal, Failed
<1> QED BY <1>1, <1>2, NextCompleteInv, PTL DEF TxSpec

-----------------------------------------------------------------------------
(* Trades and checked arithmetic.  A trade whose accounts hold and whose     *)
(* curve trades finds room for all that it books.                            *)
LEMMA TradeFindsRoom ==
    ASSUME IsFiniteSet(Holders), NoExactBaseBuys, RoomInv,
           NEW ix \in Instructions, ix.op \in Trades,
           NEW base \in Views, Agree(ix, base, Copy), InHandler(ix, base)
    PROVE  LET w == Opened(ix, base)
               p == pool[ix.m]
           IN  /\ ix.op \in {"buy_tokens_from_exact_quote", "sell"}
               /\ w.pool[ix.m] = p /\ w.mainState = mainState
               /\ ~p.complete =>
                    /\ Headroom(p) \in U64 /\ ReservesFit(p)
                    /\ Spent(ix, w) \in U64 /\ ReservesFit(BookedPool(ix, w))
                    /\ ix.op = "buy_tokens_from_exact_quote" =>
                         /\ p.real_quote_reserves
                              + NetOfFee(mainState.trading_fee, ix.amount) \in U64
                         /\ AfterBuy(p, Fill(ix, w)) \in PoolState
                    /\ ix.op = "sell" => AfterSell(p, Fill(ix, w)) \in PoolState
<1> DEFINE w == Opened(ix, base)
           p == pool[ix.m]
           fill == Fill(ix, w)
<1>1. ix.op \in {"buy_tokens_from_exact_quote", "sell"}
  BY TradeShape DEF NoExactBaseBuys, Trades, Buys
<1>2. /\ OnPool(ix) /\ ix.m \in BaseMints /\ ix.user \in Users
      /\ ix.op = "buy_tokens_from_exact_quote" => ix.amount \in QuoteAmounts
      /\ ix.op = "sell" => ix.amount \in SellAmounts
  BY TradeShape
<1>3. IInv /\ Copy \in Views /\ Copy.mainState = mainState /\ Copy.pool = pool
  BY CopyIsView DEF RoomInv, FillInv, Copy
<1>4. base.mainState = mainState /\ base.pool[ix.m] = p
  BY <1>2, <1>3, ProgramAccounts DEF Agree, Used
<1>5. w.mainState = mainState /\ w.pool[ix.m] = p
  BY <1>4, OpenedFacts
<1>6. AccountError(ix, Copy) = "none"
  BY <1>3, SameAccountError DEF InHandler
<1>7. p.exists /\ (ix.op = "sell" => Covers(balance, ix.m, ix.user, ix.amount))
  BY <1>1, <1>2, <1>6, AccountFacts
<1> HIDE DEF w
<1>8. ASSUME ~p.complete
      PROVE  /\ Headroom(p) \in U64 /\ ReservesFit(p)
             /\ Spent(ix, w) \in U64 /\ ReservesFit(BookedPool(ix, w))
             /\ ix.op = "buy_tokens_from_exact_quote" =>
                  /\ p.real_quote_reserves
                       + NetOfFee(mainState.trading_fee, ix.amount) \in U64
                  /\ AfterBuy(p, fill) \in PoolState
             /\ ix.op = "sell" => AfterSell(p, fill) \in PoolState
  <2>1. Trading(ix.m)
    BY <1>7, <1>8 DEF Trading
  <2>2. Headroom(p) \in U64 /\ ReservesFit(p)
    BY <1>2, <2>1, RoomOfTrading DEF Priced
  <2>3. CASE ix.op = "buy_tokens_from_exact_quote"
    <3>1. fill = ExactQuoteFill(p, mainState.trading_fee, ix.amount)
      BY <1>5, <2>3, FillKinds
    <3> HIDE DEF fill
    <3>2. /\ p.real_quote_reserves
               + NetOfFee(mainState.trading_fee, ix.amount) \in U64
          /\ AfterBuy(p, fill) \in PoolState
          /\ fill.fee + fill.quote \in U64
          /\ ReservesFit(AfterBuy(p, fill))
      BY <1>2, <2>1, <2>3, <3>1, BuyDoesNotOverflow
    <3> DEFINE after == AfterBuy(p, fill)
               booked == [after EXCEPT !.complete = p.complete]
    <3>3. BookedPool(ix, w) = booked
      BY <1>5, <2>3, BookedPoolKinds DEF Buys, fill
    <3> HIDE DEF after
    <3>4. /\ booked.real_base_reserves = after.real_base_reserves
          /\ booked.real_quote_reserves = after.real_quote_reserves
          /\ booked.virt_base_reserves = after.virt_base_reserves
          /\ booked.virt_quote_reserves = after.virt_quote_reserves
      BY <3>2 DEF PoolState, after
    <3> HIDE DEF booked
    <3>5. ReservesFit(BookedPool(ix, w))
      BY <3>2, <3>3, <3>4 DEF ReservesFit, BaseReserves, QuoteReserves, after
    <3>6. Spent(ix, w) = fill.fee + fill.quote
      BY <2>3 DEF Spent, Buys, fill
    <3> QED BY <2>2, <2>3, <3>2, <3>5, <3>6
  <2>4. CASE ix.op = "sell"
    <3>1. fill = SellFill(p, mainState.trading_fee, ix.amount)
      BY <1>5, <2>4, FillKinds
    <3> HIDE DEF fill
    <3>2. AfterSell(p, fill) \in PoolState /\ ReservesFit(AfterSell(p, fill))
      BY <1>2, <1>7, <2>1, <2>4, <3>1, SellDoesNotOverflow
    <3>3. BookedPool(ix, w) = AfterSell(p, fill)
      BY <1>5, <2>4, BookedPoolKinds DEF fill
    <3>4. Spent(ix, w) \in U64
      BY <2>4, WidthAssumption DEF Spent, Buys, U64
    <3> QED BY <2>2, <2>4, <3>2, <3>3, <3>4
  <2> QED BY <1>1, <2>3, <2>4
<1> QED BY <1>1, <1>5, <1>8 DEF w

(* So none of its handler's checks aborts it,                                *)
LEMMA HandlerDoesNotOverflow ==
    ASSUME IsFiniteSet(Holders), NoExactBaseBuys, RoomInv,
           NEW ix \in Instructions, ix.op \in Trades,
           NEW base \in Views, Agree(ix, base, Copy), InHandler(ix, base)
    PROVE  HandlerError(ix, Opened(ix, base)) # "Overflow"
<1> DEFINE w == Opened(ix, base)
           p == w.pool[ix.m]
<1>1. /\ ix.op \in {"buy_tokens_from_exact_quote", "sell"} /\ w.mainState = mainState
      /\ ~p.complete =>
           /\ Headroom(p) \in U64 /\ ReservesFit(p)
           /\ ix.op = "buy_tokens_from_exact_quote" =>
                /\ p.real_quote_reserves
                     + NetOfFee(w.mainState.trading_fee, ix.amount) \in U64
                /\ AfterBuy(p, Fill(ix, w)) \in PoolState
           /\ ix.op = "sell" => AfterSell(p, Fill(ix, w)) \in PoolState
  BY TradeFindsRoom
<1> HIDE DEF w, p
<1>2. CASE ix.op = "buy_tokens_from_exact_quote"
  <2>1. HandlerError(ix, w) = ExactQuoteError(ix, w, p)
    BY <1>2, Zenon DEF HandlerError, p
  <2>2. ExactQuoteError(ix, w, p) # "Overflow"
    BY <1>1, <1>2 DEF ExactQuoteError
  <2> QED BY <2>1, <2>2 DEF w
<1>3. CASE ix.op = "sell"
  <2>1. HandlerError(ix, w) = SellError(ix, w, p)
    BY <1>3, Zenon DEF HandlerError, p
  <2>2. SellError(ix, w, p) # "Overflow"
    BY <1>1, <1>3 DEF SellError
  <2> QED BY <2>1, <2>2 DEF w
<1> QED BY <1>1, <1>2, <1>3

(* and none of the sums of its event does after its transfers.               *)
LEMMA EventDoesNotOverflow ==
    ASSUME IsFiniteSet(Holders), NoExactBaseBuys, RoomInv,
           NEW ix \in Instructions, ix.op \in Trades,
           NEW base \in Views, Agree(ix, base, Copy), InCpis(ix, base), NEW k
    PROVE  EventsFit(ix, CopyAfter(ix, base, k), Spent(ix, Opened(ix, base)))
<1> DEFINE w == Opened(ix, base)
           p == pool[ix.m]
           after == CopyAfter(ix, base, k)
<1>1. InHandler(ix, base) /\ HandlerError(ix, w) = "none"
  BY DEF InCpis
<1>2. /\ ix.op \in {"buy_tokens_from_exact_quote", "sell"} /\ w.pool[ix.m] = p
      /\ ~p.complete => Spent(ix, w) \in U64 /\ ReservesFit(BookedPool(ix, w))
  BY <1>1, TradeFindsRoom
<1>3. ~p.complete
  BY <1>1, <1>2, HandlerErrorKinds DEF ExactQuoteError, SellError
<1>4. OnPool(ix) /\ ix.m \in BaseMints
  BY TradeShape
<1>5. after.pool = [base.pool EXCEPT ![ix.m] = BookedPool(ix, w)]
  BY <1>4, CopyAfterFacts, BookedFacts
<1> HIDE DEF after, w
<1>6. after.pool[ix.m] = BookedPool(ix, w)
  BY <1>4, <1>5 DEF Views
<1> QED BY <1>2, <1>3, <1>6 DEF EventsFit, after, w

NoPanicInv ==
    /\ RoomInv
    /\ TxInv
    /\ \A s \in Slots :
         ~(/\ tx[s].stage = "failed"
           /\ tx[s].ix.op \in Trades
           /\ tx[s].code = "Overflow")

(* No step of a trade fails with an overflow.                                *)
LEMMA TradeDoesNotPanic ==
    ASSUME IsFiniteSet(Holders), NoExactBaseBuys, RoomInv,
           NEW s \in Slots, Running(s), Sound(tx[s], Copy), Advance(s),
           tx = [r \in Slots |-> tx[r]],
           tx'[s].stage = "failed", tx'[s].ix.op \in Trades, tx'[s].code = "Overflow"
    PROVE  FALSE
<1> DEFINE t == tx[s]
           ix == t.ix
<1>1. ASSUME NEW code, Fail(s, code)
      PROVE  /\ tx'[s].ix.op = ix.op /\ tx'[s].code = code
             /\ ix.op \in Trades => tx'[s].ix.m = ix.m
  <2>1. tx'[s] = [stage |-> "failed", ix |-> Submitted(ix), code |-> code]
    BY <1>1 DEF Fail
  <2> QED BY <2>1 DEF Submitted
<1>2. CASE CheckAccounts(s)
  <2>1. AccountError(ix, t.copy) # "Overflow"
    BY DEF AccountError
  <2>2. tx'[s].stage = "handler" \/ Fail(s, AccountError(ix, t.copy))
    BY <1>2, AdvancesOrFails
  <2> QED BY <1>1, <2>1, <2>2
<1>3. CASE Handle(s)
  <2>1. t.stage = "handler"
    BY <1>3 DEF Handle
  <2>2. tx'[s].stage = "cpi" \/ Fail(s, HandlerError(ix, t.copy))
    BY <1>3, AdvancesOrFails
  <2>3. tx'[s].ix.op = ix.op /\ HandlerError(ix, t.copy) = "Overflow"
    BY <1>1, <2>2
  <2>4. PICK base \in Views : /\ Agree(ix, base, Copy) /\ InHandler(ix, base)
                              /\ t.copy = Opened(ix, base)
    BY <2>1 DEF Sound, Progress
  <2>5. ix \in Instructions /\ ix.op \in Trades
    BY <2>3 DEF Sound
  <2> QED BY <2>3, <2>4, <2>5, HandlerDoesNotOverflow
<1>4. CASE Invoke(s)
  BY <1>1, <1>4, AdvancesOrFails
<1>5. CASE Finish(s)
  <2>1. tx'[s].stage = "idle" \/ Fail(s, "Overflow")
    BY <1>5, AdvancesOrFails
  <2>2. tx'[s].ix.op = ix.op
    BY <1>1, <2>1
  <2>3. ix \in Instructions /\ ix.op \in Trades /\ t.stage = "cpi"
    BY <1>5, <2>2 DEF Sound, Finish
  <2>4. PICK base \in Views : Agree(ix, base, Copy) /\ Progress(t, base)
    BY DEF Sound
  <2>5. PICK k : /\ InCpis(ix, base) /\ t.spent = Spent(ix, Opened(ix, base))
                 /\ t.copy = CopyAfter(ix, base, k)
    BY <2>3, <2>4 DEF Progress
  <2>6. EventsFit(ix, t.copy, t.spent)
    BY <2>3, <2>4, <2>5, EventDoesNotOverflow
  <2>7. tx'[s].stage = "idle"
    <3>1. tx' = [tx EXCEPT ![s] = Idle]
      BY <1>5, <2>6, Zenon DEF Finish
    <3> QED BY <3>1 DEF Idle
  <2> QED BY <2>7
<1> QED BY <1>2, <1>3, <1>4, <1>5 DEF Advance

(* Every step keeps the room and fails no trade with an overflow.            *)
LEMMA NextNoPanicInv ==
    ASSUME IsFiniteSet(Holders), NoExactBaseBuys, OwnerKeepsTermsFair, OwnerKeepsSumsFitting
    PROVE  NoPanicInv /\ [TxNext]_txVars => NoPanicInv'
<1> SUFFICES ASSUME NoPanicInv, [TxNext]_txVars PROVE NoPanicInv'
  OBVIOUS
<1>1. RoomInv /\ IInv /\ TxInv
  BY DEF NoPanicInv, RoomInv, FillInv
<1>2. [Next]_vars /\ TxInv'
  BY <1>1, TxStepIsAStep, TxStepKeepsTxInv
<1>3. RoomInv'
  BY <1>1, <1>2, NextRoomInv
<1>4. tx = [s \in Slots |-> tx[s]] /\ \A s \in Slots : Running(s) => Sound(tx[s], Copy)
  BY <1>1 DEF TxInv
<1> SUFFICES ASSUME NEW s \in Slots, tx'[s].stage = "failed", tx'[s].ix.op \in Trades,
                    tx'[s].code = "Overflow"
             PROVE  FALSE
  BY <1>2, <1>3 DEF NoPanicInv
<1>5. ASSUME tx'[s] = tx[s]
      PROVE  FALSE
  BY <1>5 DEF NoPanicInv
<1>6. ASSUME NEW r \in Slots, NEW ix \in Instructions, Begin(r, ix)
      PROVE  FALSE
  <2>1. CASE r = s
    BY <1>4, <1>6, <2>1 DEF Begin
  <2>2. CASE r # s
    BY <1>4, <1>5, <1>6, <2>2 DEF Begin
  <2> QED BY <2>1, <2>2
<1>7. ASSUME NEW r \in Slots, Advance(r)
      PROVE  FALSE
  <2>1. Running(r) /\ (r # s => tx'[s] = tx[s])
    BY <1>4, <1>7 DEF Advance, CheckAccounts, Handle, Invoke, Finish, Fail, Running
  <2>2. CASE r = s
    BY <1>1, <1>4, <1>7, <2>1, <2>2, TradeDoesNotPanic
  <2> QED BY <1>5, <2>1, <2>2
<1>8. ASSUME NEW r \in Slots, RunOutOfCompute(r)
      PROVE  FALSE
  BY <1>4, <1>5, <1>8 DEF RunOutOfCompute, Idle
<1>9. CASE LedgerStep
  BY <1>5, <1>9 DEF LedgerStep
<1>10. CASE UNCHANGED txVars
  BY <1>5, <1>10 DEF txVars
<1> QED BY <1>6, <1>7, <1>8, <1>9, <1>10 DEF TxNext

(* On curves with fair terms, bought from by exact quote and traded in       *)
(* amounts that leave room in u64, no checked operation ever stops a trade,  *)
(* in whatever order the curve is bought up and sold back and whatever runs  *)
(* side by side (buy.rs:123, sell.rs:42).                                    *)
THEOREM TradesAreNeverStoppedByArithmetic ==
    ASSUME IsFiniteSet(Holders), NoExactBaseBuys, OwnerKeepsTermsFair, OwnerKeepsSumsFitting
    PROVE  TxSpec => []TradesNeverPanic
<1>1. TxInit => NoPanicInv
  BY TxInitIsInit, InitRoomInv DEF NoPanicInv, TxInit, Idle
<1>2. NoPanicInv => TradesNeverPanic
  BY DEF NoPanicInv, TradesNeverPanic, Failed
<1> QED BY <1>1, <1>2, NextNoPanicInv, PTL DEF TxSpec
=============================================================================
