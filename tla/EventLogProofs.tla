---------------------------- MODULE EventLogProofs ----------------------------
(* For every value of the constants: who reads the event log knows the       *)
(* configuration and every pool, and can follow the log from event to event. *)
EXTENDS EventLog, FairCurveProofs, SequenceTheorems

Phases == {"unlisted", "trading", "complete", "withdrawn"}
BookEntry == [phase : Phases, owner : Users, base : Int, quote : Int]

BooksTyped == books \in [main : MainStateAccount, pools : [BaseMints -> BookEntry]]

BookInv == IInv /\ BooksTyped /\ BooksMatch

(* A step of the log is a step of the program.                               *)
LEMMA LogStepIsAStep == [LogNext]_logVars => [Next]_vars
<1>1. CASE LogNext
  BY <1>1 DEF LogNext, Next, MainNext, PoolNext, Silent, LogInitMainState,
       LogTransferOwnership, LogUpdateMainState, LogCreatePool, LogExactQuoteBuy,
       LogExactBaseBuy, LogSell, LogWithdraw
<1>2. CASE UNCHANGED logVars
  BY <1>2 DEF logVars
<1> QED BY <1>1, <1>2

-----------------------------------------------------------------------------
(* What the auditor makes of a log of none, one or two events.               *)
LEMMA ReadNone == ASSUME NEW b PROVE ReadAll(b, << >>) = b
  BY DEF ReadAll

LEMMA ReadOne == ASSUME NEW b, NEW e PROVE ReadAll(b, <<e>>) = ReadEvent(b, e)
<1>1. Len(<<e>>) = 1 /\ <<e>>[1] = e
  OBVIOUS
<1> QED BY <1>1 DEF ReadAll

LEMMA ReadTwo ==
    ASSUME NEW b, NEW e, NEW f
    PROVE  ReadAll(b, <<e, f>>) = ReadEvent(ReadEvent(b, e), f)
<1>1. Len(<<e, f>>) = 2 /\ <<e, f>>[1] = e /\ <<e, f>>[2] = f
  OBVIOUS
<1> QED BY <1>1 DEF ReadAll

(* What each event of a pool does to its entry.                              *)
LEMMA ReadPoolEvent ==
    ASSUME NEW b, NEW e, e.event \in {"Create", "Trade", "Complete", "Withdraw"}
    PROVE  ReadEvent(b, e) = [b EXCEPT !.pools[e.base_mint] = Entry(@, e)]
  BY DEF ReadEvent

LEMMA EntryFacts ==
    ASSUME NEW entry \in BookEntry, NEW e
    PROVE  /\ e.event = "Create" =>
                Entry(entry, e) = [phase |-> "trading", owner |-> e.creator,
                                   base |-> e.base_reserves, quote |-> e.quote_reserves]
           /\ e.event = "Trade" =>
                Entry(entry, e) = [phase |-> entry.phase, owner |-> entry.owner,
                                   base |-> e.base_reserves, quote |-> e.quote_reserves]
           /\ e.event = "Complete" =>
                Entry(entry, e) = [phase |-> "complete", owner |-> entry.owner,
                                   base |-> entry.base, quote |-> entry.quote]
           /\ e.event = "Withdraw" =>
                Entry(entry, e) = [phase |-> "withdrawn", owner |-> entry.owner,
                                   base |-> entry.base - e.base_amount,
                                   quote |-> entry.quote - e.quote_amount]
<1>1. CASE e.event = "Create"
  BY <1>1 DEF Entry
<1>2. CASE e.event = "Trade"
  BY <1>2 DEF Entry, BookEntry
<1>3. CASE e.event = "Complete"
  BY <1>3 DEF Entry, BookEntry
<1>4. CASE e.event = "Withdraw"
  BY <1>4 DEF Entry, BookEntry
<1> QED BY <1>1, <1>2, <1>3, <1>4

(* A step that changes one pool and the auditor's entry for it.              *)
LEMMA OneEntryMatches ==
    ASSUME BookInv, IInv', NEW m \in BaseMints, NEW p, NEW entry \in BookEntry,
           pool' = [pool EXCEPT ![m] = p], mainState' = mainState,
           books' = [books EXCEPT !.pools[m] = entry],
           entry.phase = Phase(p), entry.owner = p.owner,
           entry.base = BaseReserves(p), entry.quote = QuoteReserves(p)
    PROVE  BooksTyped' /\ BooksMatch'
<1>1. pool \in [BaseMints -> PoolState] /\ pool'[m] = p
  BY IInvParts DEF BookInv, PoolsOK
<1>2. /\ books'.main = books.main /\ books'.pools[m] = entry
      /\ \A n \in BaseMints \ {m} : books'.pools[n] = books.pools[n]
      /\ books' \in [main : MainStateAccount, pools : [BaseMints -> BookEntry]]
  BY DEF BookInv, BooksTyped
<1>3. BooksTyped'
  BY <1>2 DEF BooksTyped
<1>4. ASSUME NEW n \in BaseMints
      PROVE  /\ books'.pools[n].phase = Phase(pool'[n])
             /\ pool'[n].exists =>
                  /\ books'.pools[n].owner = pool'[n].owner
                  /\ books'.pools[n].base = BaseReserves(pool'[n])
                  /\ books'.pools[n].quote = QuoteReserves(pool'[n])
  <2>1. CASE n = m
    BY <1>1, <1>2, <2>1
  <2>2. CASE n # m
    <3>1. pool'[n] = pool[n] /\ books'.pools[n] = books.pools[n]
      BY <1>1, <1>2, <2>2
    <3> QED BY <3>1 DEF BookInv, BooksMatch
  <2> QED BY <2>1, <2>2
<1>5. books'.main = mainState'
  BY <1>2 DEF BookInv, BooksMatch
<1> QED BY <1>3, <1>4, <1>5 DEF BooksMatch

(* A step that changes the configuration and the auditor's copy of it.       *)
LEMMA ConfigurationMatches ==
    ASSUME BookInv, IInv', pool' = pool, books' = [books EXCEPT !.main = mainState']
    PROVE  BooksTyped' /\ BooksMatch'
<1>1. mainState' \in MainStateAccount
  BY IInvPartsPrimed
<1>2. books'.main = mainState' /\ books'.pools = books.pools /\ BooksTyped'
  BY <1>1 DEF BookInv, BooksTyped
<1> QED BY <1>2 DEF BookInv, BooksMatch

-----------------------------------------------------------------------------
(* The three instructions that write the configuration.                      *)
LEMMA ConfigurationIsRead ==
    ASSUME NEW b, NEW e, NEW s \in MainStateAccount, NEW owner, s.exists, s.owner = owner,
           e.withdrawer = s.withdrawer, e.fee_recipient = s.fee_recipient,
           e.trading_fee = s.trading_fee, e.total_supply = s.total_supply,
           e.init_virt_base_reserves = s.init_virt_base_reserves,
           e.init_virt_quote_reserves = s.init_virt_quote_reserves,
           e.real_quote_threshold = s.real_quote_threshold
    PROVE  ConfigurationOf(e, owner) = s
<1>1. s = [exists |-> s.exists, owner |-> s.owner, withdrawer |-> s.withdrawer,
           fee_recipient |-> s.fee_recipient, trading_fee |-> s.trading_fee,
           total_supply |-> s.total_supply,
           init_virt_base_reserves |-> s.init_virt_base_reserves,
           init_virt_quote_reserves |-> s.init_virt_quote_reserves,
           real_quote_threshold |-> s.real_quote_threshold]
  BY DEF MainStateAccount
<1>2. s.exists = TRUE
  BY DEF MainStateAccount
<1> QED BY <1>1, <1>2 DEF ConfigurationOf

LEMMA InitMainStateIsRead ==
    ASSUME BookInv, IInv', NEW u \in Users, LogInitMainState(u)
    PROVE  BooksTyped' /\ BooksMatch'
<1> DEFINE e == MainStateInitialized(mainState')
<1>1. InitMainState(u) /\ pool' = pool /\ books' = ReadEvent(books, e)
  BY ReadOne DEF LogInitMainState, Emit
<1>2. mainState' \in MainStateAccount /\ mainState'.exists
  BY <1>1, IInvPartsPrimed DEF InitMainState, DefaultMainState
<1>3. ConfigurationOf(e, e.owner) = mainState'
  BY <1>2, ConfigurationIsRead DEF MainStateInitialized
<1>4. ReadEvent(books, e) = [books EXCEPT !.main = ConfigurationOf(e, e.owner)]
  BY DEF ReadEvent, MainStateInitialized
<1> QED BY <1>1, <1>3, <1>4, ConfigurationMatches

LEMMA TransferOwnershipIsRead ==
    ASSUME BookInv, IInv', NEW u \in Users, NEW v \in NewOwners, LogTransferOwnership(u, v)
    PROVE  BooksTyped' /\ BooksMatch'
<1> DEFINE e == OwnershipTransferred(mainState.owner, v)
<1>1. TransferOwnership(u, v) /\ pool' = pool /\ books' = ReadEvent(books, e)
  BY ReadOne DEF LogTransferOwnership, Emit
<1>2. ReadEvent(books, e) = [books EXCEPT !.main.owner = v]
  BY DEF ReadEvent, OwnershipTransferred
<1>3. mainState' = [books.main EXCEPT !.owner = v]
  BY <1>1 DEF TransferOwnership, BookInv, BooksMatch
<1>4. [books EXCEPT !.main.owner = v] = [books EXCEPT !.main = mainState']
  BY <1>3 DEF BookInv, BooksTyped
<1> QED BY <1>1, <1>2, <1>4, ConfigurationMatches

LEMMA UpdateMainStateIsRead ==
    ASSUME BookInv, IInv', NEW u \in Users, NEW input \in UpdateInputs,
           LogUpdateMainState(u, input)
    PROVE  BooksTyped' /\ BooksMatch'
<1> DEFINE e == MainStateUpdated(input, mainState')
<1>1. UpdateMainState(u, input) /\ pool' = pool /\ books' = ReadEvent(books, e)
  BY ReadOne DEF LogUpdateMainState, Emit
<1>2. mainState \in MainStateAccount /\ mainState' \in MainStateAccount
  BY IInvParts, IInvPartsPrimed DEF BookInv
<1>3. /\ mainState'.exists /\ mainState'.owner = mainState.owner
      /\ mainState'.withdrawer = input.withdrawer
      /\ mainState'.fee_recipient = input.fee_recipient
      /\ mainState'.trading_fee = input.trading_fee
  BY <1>1, <1>2 DEF UpdateMainState, AUpdateMainState, SignedByOwner, MainStateAccount
<1>4. /\ OrElse(input.total_supply, mainState'.total_supply) = mainState'.total_supply
      /\ OrElse(input.init_virt_base_reserves, mainState'.init_virt_base_reserves)
           = mainState'.init_virt_base_reserves
      /\ OrElse(input.init_virt_quote_reserves, mainState'.init_virt_quote_reserves)
           = mainState'.init_virt_quote_reserves
      /\ OrElse(input.real_quote_threshold, mainState'.real_quote_threshold)
           = mainState'.real_quote_threshold
  BY <1>1, <1>2 DEF UpdateMainState, MainStateAccount, OrElse
<1>5. books.main.owner = mainState.owner
  BY DEF BookInv, BooksMatch
<1>6. ConfigurationOf(e, books.main.owner) = mainState'
  BY <1>2, <1>3, <1>4, <1>5, ConfigurationIsRead DEF MainStateUpdated
<1>7. ReadEvent(books, e) = [books EXCEPT !.main = ConfigurationOf(e, books.main.owner)]
  BY DEF ReadEvent, MainStateUpdated
<1> QED BY <1>1, <1>6, <1>7, ConfigurationMatches

-----------------------------------------------------------------------------
(* The five instructions of the pools.                                       *)
LEMMA BookEntryOf ==
    ASSUME BookInv, NEW m \in BaseMints
    PROVE  books.pools[m] \in BookEntry
  BY DEF BookInv, BooksTyped

LEMMA CreatePoolIsRead ==
    ASSUME BookInv, IInv', NEW u \in Users, NEW m \in BaseMints, LogCreatePool(u, m)
    PROVE  BooksTyped' /\ BooksMatch'
<1> DEFINE p == NewPool(u)
           e == CreateEvent(m, p)
           entry == [phase |-> "trading", owner |-> u,
                     base |-> BaseReserves(p), quote |-> p.virt_quote_reserves]
<1>1. pool' = [pool EXCEPT ![m] = p] /\ pool'[m] = p /\ mainState' = mainState
  BY IInvParts DEF LogCreatePool, CreatePool, BookInv, PoolsOK
<1>2. books' = [books EXCEPT !.pools[e.base_mint] = Entry(@, e)]
  BY <1>1, ReadOne, ReadPoolEvent DEF LogCreatePool, Emit, CreateEvent
<1>3. Entry(books.pools[m], e) = entry
  BY BookEntryOf, EntryFacts DEF CreateEvent, NewPool
<1>4. p \in PoolState /\ p.exists /\ ~p.complete /\ p.owner = u
  BY <1>1, IInvPartsPrimed DEF NewPool, PoolsOK
<1>5. BaseReserves(p) \in Int /\ QuoteReserves(p) = p.virt_quote_reserves
      /\ p.virt_quote_reserves \in Int
  <2>1. p.real_quote_reserves = 0
    BY DEF NewPool
  <2>2. /\ p.virt_base_reserves \in Nat /\ p.real_base_reserves \in Nat
        /\ p.virt_quote_reserves \in Nat
    BY <1>4, U64Facts DEF PoolState
  <2> HIDE DEF p
  <2> QED BY <2>1, <2>2 DEF BaseReserves, QuoteReserves
<1>6. Phase(p) = "trading"
  BY <1>4 DEF Phase
<1>7. entry \in BookEntry /\ books' = [books EXCEPT !.pools[m] = entry]
  BY <1>2, <1>3, <1>5 DEF CreateEvent, BookEntry, Phases
<1> HIDE DEF p
<1> QED BY <1>1, <1>4, <1>5, <1>6, <1>7, OneEntryMatches

(* A buy's log: the trade, and completion when it filled the curve.          *)
LEMMA BuyEventsFacts ==
    ASSUME NEW u, NEW m, NEW p, NEW fill
    PROVE  LET t == TradeEvent(u, m, p, fill.base, fill.fee + fill.quote, TRUE)
           IN  /\ ~p.complete => BuyEvents(u, m, p, fill) = <<t>>
               /\ p.complete => BuyEvents(u, m, p, fill) = <<t, CompleteEvent(m)>>
<1> DEFINE t == TradeEvent(u, m, p, fill.base, fill.fee + fill.quote, TRUE)
           c == CompleteEvent(m)
<1>1. BuyEvents(u, m, p, fill) = <<t>> \o IF p.complete THEN <<c>> ELSE << >>
  BY DEF BuyEvents
<1> HIDE DEF t, c
<1>2. <<t>> \o << >> = <<t>> /\ <<t>> \o <<c>> = <<t, c>>
  <2> DEFINE S == {t, c}
  <2>1. <<t>> \in Seq(S) /\ c \in S
    OBVIOUS
  <2>2. Append(<<t>>, c) = <<t, c>>
    <3> DEFINE one == <<t>>
               two == <<t, c>>
               long == Append(one, c)
    <3>1. one \in Seq(S) /\ Len(one) = 1 /\ one[1] = t
      OBVIOUS
    <3>2. two \in Seq(S) /\ Len(two) = 2 /\ two[1] = t /\ two[2] = c
      OBVIOUS
    <3> HIDE DEF S, one, two
    <3>3. long \in Seq(S) /\ Len(long) = 2 /\ long[1] = t /\ long[2] = c
      <4>1. /\ Append(one, c) \in Seq(S) /\ Len(Append(one, c)) = Len(one) + 1
            /\ \A i \in 1 .. Len(one) : Append(one, c)[i] = one[i]
            /\ Append(one, c)[Len(one) + 1] = c
        BY <2>1, <3>1, AppendProperties
      <4> HIDE DEF long
      <4>2. long = Append(one, c)
        BY DEF long
      <4>3. 1 \in 1 .. Len(one) /\ Len(one) + 1 = 2
        BY <3>1
      <4> QED BY <3>1, <4>1, <4>2, <4>3
    <3> HIDE DEF long
    <3>4. \A i \in 1 .. Len(long) : long[i] = two[i]
      BY <3>2, <3>3
    <3>5. long = two
      BY <3>2, <3>3, <3>4, SeqEqual
    <3> QED BY <3>5 DEF long, one, two
  <2> HIDE DEF S
  <2> QED BY <2>1, <2>2, ConcatEmptySeq, AppendIsConcat
<1>3. (~p.complete => BuyEvents(u, m, p, fill) = <<t>>)
      /\ (p.complete => BuyEvents(u, m, p, fill) = <<t, c>>)
  BY <1>1, <1>2
<1> QED BY <1>3 DEF t, c

(* The entry after a trade on a pool that goes on trading or completes.      *)
LEMMA BuyIsRead ==
    ASSUME BookInv, IInv', NEW u \in Users, NEW m \in BaseMints, NEW fill,
           pool[m].exists, ~pool[m].complete, fill.quote \in Nat,
           pool[m].real_quote_reserves + fill.quote <= pool[m].real_quote_threshold,
           buy_finalize(u, m, fill), Emit(BuyEvents(u, m, pool'[m], fill))
    PROVE  BooksTyped' /\ BooksMatch'
<1> DEFINE p == AfterBuy(pool[m], fill)
           t == TradeEvent(u, m, p, fill.base, fill.fee + fill.quote, TRUE)
           c == CompleteEvent(m)
           phase == IF p.complete THEN "complete" ELSE "trading"
           entry == [phase |-> phase, owner |-> p.owner,
                     base |-> BaseReserves(p), quote |-> QuoteReserves(p)]
           traded == [phase |-> books.pools[m].phase, owner |-> books.pools[m].owner,
                      base |-> BaseReserves(p), quote |-> QuoteReserves(p)]
<1>1. /\ pool' = [pool EXCEPT ![m] = p] /\ pool'[m] = p /\ mainState' = mainState
      /\ p \in PoolState /\ Listed(pool[m])
  BY IInvParts DEF buy_finalize, BookInv, PoolsOK
<1>2. Listed(p) /\ ~Withdrawn(p) /\ p.exists /\ p.owner = pool[m].owner
  <2>1. Listed(p) /\ ~Withdrawn(p)
    BY <1>1, AfterBuyIsListed
  <2> QED BY <1>1, <2>1 DEF AfterBuy, Listed, PoolState
<1>3. BaseReserves(p) \in Int /\ QuoteReserves(p) \in Int /\ p.owner \in Users
      /\ p.complete \in BOOLEAN
  <2>1. /\ p.virt_base_reserves \in Nat /\ p.real_base_reserves \in Nat
        /\ p.virt_quote_reserves \in Nat /\ p.real_quote_reserves \in Nat
        /\ p.owner \in Users /\ p.complete \in BOOLEAN
    BY <1>1, U64Facts DEF PoolState
  <2> HIDE DEF p
  <2> QED BY <2>1 DEF BaseReserves, QuoteReserves
<1>4. Phase(p) = phase
  BY <1>2, PhaseFacts
<1>5. books.pools[m] \in BookEntry /\ books.pools[m].phase = "trading"
      /\ books.pools[m].owner = p.owner
  BY <1>1, <1>2, BookEntryOf, PhaseFacts DEF BookInv, BooksMatch
<1>6. ReadEvent(books, t) = [books EXCEPT !.pools[m] = traded]
  BY <1>5, ReadPoolEvent, EntryFacts DEF TradeEvent
<1>7. traded \in BookEntry /\ books \in [main : MainStateAccount, pools : [BaseMints -> BookEntry]]
  BY <1>3, <1>5 DEF BookEntry, BookInv, BooksTyped
<1>8. CASE ~p.complete
  <2>1. BuyEvents(u, m, p, fill) = <<t>>
    BY <1>8, BuyEventsFacts
  <2>2. books' = [books EXCEPT !.pools[m] = entry]
    <3>1. books' = [books EXCEPT !.pools[m] = traded] /\ traded = entry
      <4>1. books' = ReadEvent(books, t)
        <5>1. books' = ReadAll(books, BuyEvents(u, m, p, fill))
          BY <1>1 DEF Emit
        <5> HIDE DEF t, p
        <5> QED BY <5>1, <2>1, ReadOne
      <4> HIDE DEF p
      <4> QED BY <4>1, <1>5, <1>6, <1>8
    <3> QED BY <3>1
  <2>3. entry \in BookEntry
    BY <1>3, <1>8 DEF BookEntry, Phases
  <2> HIDE DEF p
  <2> QED BY <1>1, <1>4, <2>2, <2>3, OneEntryMatches
<1>9. CASE p.complete
  <2>1. BuyEvents(u, m, p, fill) = <<t, c>>
    BY <1>9, BuyEventsFacts
  <2>2. books' = ReadEvent([books EXCEPT !.pools[m] = traded], c)
    <3>1. books' = ReadAll(books, BuyEvents(u, m, p, fill))
      BY <1>1 DEF Emit
    <3> HIDE DEF t, c, p, traded
    <3> QED BY <3>1, <1>6, <2>1, ReadTwo
  <2> DEFINE b == [books EXCEPT !.pools[m] = traded]
  <2>3. ReadEvent(b, c) = [b EXCEPT !.pools[m] = Entry(@, c)]
    <3>1. c.event = "Complete" /\ c.base_mint = m
      BY DEF CompleteEvent
    <3> HIDE DEF b, c
    <3> QED BY <3>1, ReadPoolEvent
  <2>4. b.pools[m] = traded
    BY <1>7
  <2>5. Entry(traded, c) = entry
    BY <1>5, <1>7, <1>9, EntryFacts DEF CompleteEvent
  <2>6. books' = [books EXCEPT !.pools[m] = entry]
    BY <1>7, <2>2, <2>3, <2>4, <2>5
  <2>7. entry \in BookEntry
    BY <1>3, <1>9 DEF BookEntry, Phases
  <2> HIDE DEF p
  <2> QED BY <1>1, <1>4, <2>6, <2>7, OneEntryMatches
<1> QED BY <1>8, <1>9

LEMMA ExactQuoteBuyIsRead ==
    ASSUME BookInv, IInv', NEW u \in Users, NEW m \in BaseMints, NEW q \in QuoteAmounts,
           NEW min \in MinOutputs, LogExactQuoteBuy(u, m, q, min)
    PROVE  BooksTyped' /\ BooksMatch'
<1> DEFINE fill == ExactQuoteFill(pool[m], mainState.trading_fee, q)
<1>1. /\ pool[m].exists /\ ~pool[m].complete
      /\ Headroom(pool[m]) \in U64 /\ ReservesFit(pool[m])
      /\ buy_finalize(u, m, fill) /\ Emit(BuyEvents(u, m, pool'[m], fill))
  BY DEF LogExactQuoteBuy, BuyTokensFromExactQuote, ABuy
<1>2. Priced(pool[m]) /\ mainState.trading_fee \in Fees /\ q \in U64
  BY <1>1, IInvParts, ListedIsPriced, MainFacts, InputAssumption DEF PoolsOK, BookInv
<1>3. fill.quote \in Nat
      /\ pool[m].real_quote_reserves + fill.quote <= pool[m].real_quote_threshold
  BY <1>1, <1>2, ExactQuoteFillFacts
<1> HIDE DEF fill
<1> QED BY <1>1, <1>3, BuyIsRead

LEMMA ExactBaseBuyIsRead ==
    ASSUME BookInv, IInv', NEW u \in Users, NEW m \in BaseMints, NEW b \in BaseAmounts,
           NEW max \in MaxInputs, LogExactBaseBuy(u, m, b, max)
    PROVE  BooksTyped' /\ BooksMatch'
<1> DEFINE fill == ExactBaseFill(pool[m], mainState.trading_fee, b)
<1>1. /\ pool[m].exists /\ ~pool[m].complete /\ b <= pool[m].real_base_reserves
      /\ Headroom(pool[m]) \in U64 /\ ReservesFit(pool[m])
      /\ buy_finalize(u, m, fill) /\ Emit(BuyEvents(u, m, pool'[m], fill))
  BY DEF LogExactBaseBuy, BuyExactTokensFromQuote, ABuy
<1>2. Priced(pool[m]) /\ mainState.trading_fee \in Fees /\ b \in U64
  BY <1>1, IInvParts, ListedIsPriced, MainFacts, InputAssumption DEF PoolsOK, BookInv
<1>3. fill.quote \in Nat
      /\ pool[m].real_quote_reserves + fill.quote <= pool[m].real_quote_threshold
  BY <1>1, <1>2, ExactBaseFillFacts
<1> HIDE DEF fill
<1> QED BY <1>1, <1>3, BuyIsRead

LEMMA SellIsRead ==
    ASSUME BookInv, IInv', NEW u \in Users, NEW m \in BaseMints, NEW b \in SellAmounts,
           NEW min \in MinOutputs, LogSell(u, m, b, min)
    PROVE  BooksTyped' /\ BooksMatch'
<1> DEFINE fill == SellFill(pool[m], mainState.trading_fee, b)
           p == AfterSell(pool[m], fill)
           t == TradeEvent(u, m, p, fill.base, fill.quote, FALSE)
           entry == [phase |-> books.pools[m].phase, owner |-> books.pools[m].owner,
                     base |-> BaseReserves(p), quote |-> QuoteReserves(p)]
<1>1. /\ pool[m].exists /\ ~pool[m].complete /\ ReservesFit(pool[m])
      /\ pool' = [pool EXCEPT ![m] = p] /\ pool'[m] = p /\ mainState' = mainState
      /\ p \in PoolState /\ Listed(pool[m]) /\ Emit(SellEvents(u, m, p, fill))
  BY IInvParts DEF LogSell, Sell, ASell, BookInv, PoolsOK
<1>2. Priced(pool[m]) /\ mainState.trading_fee \in Fees /\ b \in U64
  BY <1>1, IInvParts, ListedIsPriced, MainFacts, InputAssumption DEF PoolsOK, BookInv
<1>3. fill.total \in Nat
  BY <1>2, SellFillFacts
<1> HIDE DEF fill
<1>4. Listed(p) /\ p.exists /\ ~p.complete /\ p.owner = pool[m].owner
  <2>1. Listed(p)
    BY <1>1, <1>3, AfterSellIsListed
  <2> QED BY <1>1, <2>1 DEF AfterSell, Listed, PoolState
<1>5. BaseReserves(p) \in Int /\ QuoteReserves(p) \in Int
  <2>1. /\ p.virt_base_reserves \in Nat /\ p.real_base_reserves \in Nat
        /\ p.virt_quote_reserves \in Nat /\ p.real_quote_reserves \in Nat
    BY <1>1, U64Facts DEF PoolState
  <2> HIDE DEF p
  <2> QED BY <2>1 DEF BaseReserves, QuoteReserves
<1>6. Phase(p) = "trading"
  BY <1>4 DEF Phase
<1>7. books.pools[m] \in BookEntry /\ books.pools[m].phase = "trading"
      /\ books.pools[m].owner = p.owner
  BY <1>1, <1>4, BookEntryOf, PhaseFacts DEF BookInv, BooksMatch
<1>8. ReadEvent(books, t) = [books EXCEPT !.pools[m] = entry]
  BY <1>7, ReadPoolEvent, EntryFacts DEF TradeEvent
<1>9. books' = [books EXCEPT !.pools[m] = entry]
  <2>1. books' = ReadAll(books, <<t>>)
    BY <1>1 DEF Emit, SellEvents
  <2> HIDE DEF t, entry
  <2> QED BY <1>8, <2>1, ReadOne
<1>10. entry \in BookEntry
  BY <1>5, <1>7 DEF BookEntry
<1> HIDE DEF p
<1> QED BY <1>1, <1>6, <1>7, <1>9, <1>10, OneEntryMatches

LEMMA WithdrawIsRead ==
    ASSUME BookInv, IInv', NEW u \in Users, NEW m \in BaseMints, LogWithdraw(u, m)
    PROVE  BooksTyped' /\ BooksMatch'
<1> DEFINE old == pool[m]
           p == AfterWithdraw(old)
           e == WithdrawEvent(u, m, old)
           entry == [phase |-> "withdrawn", owner |-> p.owner,
                     base |-> BaseReserves(p), quote |-> QuoteReserves(p)]
<1>1. /\ old.exists /\ old.complete /\ old \in PoolState
      /\ pool' = [pool EXCEPT ![m] = p] /\ pool'[m] = p /\ mainState' = mainState
      /\ Emit(<<e>>)
  BY IInvParts DEF LogWithdraw, Withdraw, AWithdraw, BookInv, PoolsOK
<1>2. /\ p.exists /\ p.complete /\ p.owner = old.owner /\ p.owner \in Users
      /\ p.virt_base_reserves = old.virt_base_reserves /\ p.real_base_reserves = 0
      /\ p.virt_quote_reserves = old.virt_quote_reserves /\ p.real_quote_reserves = 0
  BY <1>1 DEF AfterWithdraw, PoolState
<1>3. /\ old.virt_base_reserves \in Nat /\ old.real_base_reserves \in Nat
      /\ old.virt_quote_reserves \in Nat /\ old.real_quote_reserves \in Nat
  BY <1>1, U64Facts DEF PoolState
<1>4. books.pools[m] \in BookEntry /\ books.pools[m].owner = old.owner
      /\ books.pools[m].base = BaseReserves(old) /\ books.pools[m].quote = QuoteReserves(old)
  BY <1>1, BookEntryOf DEF BookInv, BooksMatch
<1>5. books' = [books EXCEPT !.pools[m] = Entry(@, e)]
  <2>1. books' = ReadAll(books, <<e>>)
    BY <1>1 DEF Emit
  <2>2. e.event = "Withdraw" /\ e.base_mint = m
    BY DEF WithdrawEvent
  <2> HIDE DEF e
  <2> QED BY <2>1, <2>2, ReadOne, ReadPoolEvent
<1>6. /\ Entry(books.pools[m], e).phase = "withdrawn"
      /\ Entry(books.pools[m], e) =
           [phase |-> "withdrawn", owner |-> books.pools[m].owner,
            base |-> books.pools[m].base - old.real_base_reserves,
            quote |-> books.pools[m].quote - old.real_quote_reserves]
  BY <1>4, EntryFacts DEF WithdrawEvent
<1>7. Phase(p) = "withdrawn"
  BY <1>2 DEF Phase, Withdrawn
<1> HIDE DEF old, p, e
<1>8. /\ BaseReserves(p) = BaseReserves(old) - old.real_base_reserves
      /\ QuoteReserves(p) = QuoteReserves(old) - old.real_quote_reserves
      /\ BaseReserves(p) \in Int /\ QuoteReserves(p) \in Int
  BY <1>2, <1>3 DEF BaseReserves, QuoteReserves
<1>9. Entry(books.pools[m], e) = entry /\ entry \in BookEntry
  BY <1>2, <1>4, <1>6, <1>8 DEF BookEntry, Phases
<1>10. books' = [books EXCEPT !.pools[m] = entry]
  BY <1>5, <1>9
<1>11. entry.phase = Phase(p) /\ entry.owner = p.owner
       /\ entry.base = BaseReserves(p) /\ entry.quote = QuoteReserves(p)
  BY <1>7
<1> HIDE DEF entry
<1> QED BY <1>1, <1>9, <1>10, <1>11, OneEntryMatches

-----------------------------------------------------------------------------
LEMMA InitBookInv == LogInit => BookInv
<1> SUFFICES ASSUME LogInit PROVE BookInv
  OBVIOUS
<1>1. IInv /\ mainState \in MainStateAccount
  BY InitIInv, IInvParts DEF LogInit
<1>2. UnknownPool \in BookEntry
  BY ConfigAssumption DEF UnknownPool, BookEntry, Phases
<1>3. books = [main |-> mainState, pools |-> [m \in BaseMints |-> UnknownPool]]
  BY DEF LogInit, BooksInit
<1>4. BooksTyped
  BY <1>1, <1>2, <1>3 DEF BooksTyped
<1>5. BooksMatch
  BY <1>3 DEF LogInit, Init, NoPool, BooksMatch, UnknownPool, Phase
<1> QED BY <1>1, <1>4, <1>5 DEF BookInv

LEMMA NextBookInv == BookInv /\ [LogNext]_logVars => BookInv'
<1> SUFFICES ASSUME BookInv, [LogNext]_logVars PROVE BookInv'
  OBVIOUS
<1>1. IInv'
  BY LogStepIsAStep, NextIInv DEF BookInv
<1>2. ASSUME pool' = pool, mainState' = mainState, books' = books
      PROVE  BooksTyped' /\ BooksMatch'
  BY <1>2 DEF BookInv, BooksTyped, BooksMatch
<1>3. Silent => BooksTyped' /\ BooksMatch'
  BY <1>2, ReadNone DEF Silent, Emit
<1>4. UNCHANGED logVars => BooksTyped' /\ BooksMatch'
  BY <1>2 DEF logVars, vars
<1>5. LogNext /\ ~Silent => BooksTyped' /\ BooksMatch'
  BY <1>1, InitMainStateIsRead, TransferOwnershipIsRead, UpdateMainStateIsRead,
     CreatePoolIsRead, ExactQuoteBuyIsRead, ExactBaseBuyIsRead, SellIsRead, WithdrawIsRead
     DEF LogNext
<1> QED BY <1>1, <1>3, <1>4, <1>5 DEF BookInv

LEMMA LogInvariant == LogSpec => []BookInv
  BY InitBookInv, NextBookInv, PTL DEF LogSpec

(* Whoever read every event knows the configuration and of every pool the    *)
(* phase, the creator and both sides of the curve: what the instructions     *)
(* emit says all they do (pool/event.rs, main_state/event.rs).               *)
THEOREM TheLogTellsTheAccounts == LogSpec => []BooksMatch
<1>1. BookInv => BooksMatch
  BY DEF BookInv
<1> QED BY <1>1, LogInvariant, PTL

-----------------------------------------------------------------------------
(* The events of a step's log, by kind.                                      *)
LEMMA NoEvent ==
    ASSUME emitted' = << >>
    PROVE  \A k, f : f \notin Events(k)'
  BY DEF Events

LEMMA OneEvent ==
    ASSUME NEW e, emitted' = <<e>>
    PROVE  \A k, f : f \in Events(k)' <=> f = e /\ e.event = k
<1>1. DOMAIN emitted' = {1} /\ emitted'[1] = e
  <2>1. DOMAIN <<e>> = {1} /\ <<e>>[1] = e
    OBVIOUS
  <2> QED BY <2>1
<1> QED BY <1>1 DEF Events

LEMMA TwoEvents ==
    ASSUME NEW e, NEW g, emitted' = <<e, g>>
    PROVE  \A k, f : f \in Events(k)' <=> f \in {e, g} /\ f.event = k
<1>1. DOMAIN emitted' = {1, 2} /\ emitted'[1] = e /\ emitted'[2] = g
  <2>1. DOMAIN <<e, g>> = {1, 2} /\ <<e, g>>[1] = e /\ <<e, g>>[2] = g
    OBVIOUS
  <2> QED BY <2>1
<1> QED BY <1>1 DEF Events

InOrder ==
    /\ \A e \in Events("Create")' : books.pools[e.base_mint].phase = "unlisted"
    /\ \A e \in Events("Trade")' : books.pools[e.base_mint].phase = "trading"
    /\ \A e \in Events("Complete")' :
         /\ books.pools[e.base_mint].phase = "trading"
         /\ \E t \in Events("Trade")' : t.base_mint = e.base_mint /\ t.is_buy
    /\ \A e \in Events("Withdraw")' : books.pools[e.base_mint].phase = "complete"
    /\ \A e \in Events("OwnershipTransferred")' :
         e.previous_owner = books.main.owner

(* A buy's events concern a curve that is trading.                           *)
LEMMA BuyIsInOrder ==
    ASSUME BookInv, NEW u \in Users, NEW m \in BaseMints, NEW p, NEW fill,
           pool[m].exists, ~pool[m].complete, Emit(BuyEvents(u, m, p, fill))
    PROVE  InOrder
<1> DEFINE t == TradeEvent(u, m, p, fill.base, fill.fee + fill.quote, TRUE)
           c == CompleteEvent(m)
<1>1. books.pools[m].phase = "trading"
  BY DEF BookInv, BooksMatch, Phase
<1>2. /\ t.event = "Trade" /\ t.base_mint = m /\ t.is_buy
      /\ c.event = "Complete" /\ c.base_mint = m
  BY DEF TradeEvent, CompleteEvent
<1>3. emitted' = <<t>> \/ emitted' = <<t, c>>
  BY BuyEventsFacts DEF Emit
<1> HIDE DEF t, c
<1>4. CASE emitted' = <<t>>
  <2>1. \A k, f : f \in Events(k)' <=> f = t /\ t.event = k
    BY <1>4, OneEvent
  <2> QED BY <1>1, <1>2, <2>1 DEF InOrder
<1>5. CASE emitted' = <<t, c>>
  <2>1. \A k, f : f \in Events(k)' <=> f \in {t, c} /\ f.event = k
    BY <1>5, TwoEvents
  <2>2. t \in Events("Trade")'
    BY <1>2, <2>1
  <2> QED BY <1>1, <1>2, <2>1, <2>2 DEF InOrder
<1> QED BY <1>3, <1>4, <1>5

LEMMA StepInOrder == BookInv /\ LogNext => InOrder
<1> SUFFICES ASSUME BookInv, LogNext PROVE InOrder
  OBVIOUS
<1>1. PoolsOK /\ books.main = mainState
      /\ \A m \in BaseMints : books.pools[m].phase = Phase(pool[m])
  BY IInvParts DEF BookInv, BooksMatch
<1>2. ASSUME NEW e, emitted' = <<e>>,
             e.event = "Create" => books.pools[e.base_mint].phase = "unlisted",
             e.event = "Trade" => books.pools[e.base_mint].phase = "trading",
             e.event # "Complete",
             e.event = "Withdraw" => books.pools[e.base_mint].phase = "complete",
             e.event = "OwnershipTransferred" => e.previous_owner = books.main.owner
      PROVE  InOrder
  <2>1. \A k, f : f \in Events(k)' <=> f = e /\ e.event = k
    BY <1>2, OneEvent
  <2> QED BY <1>2, <2>1 DEF InOrder
<1>3. CASE Silent
  BY <1>3, NoEvent DEF Silent, Emit, InOrder
<1>4. ASSUME NEW u \in Users, LogInitMainState(u) PROVE InOrder
  <2> DEFINE e == MainStateInitialized(mainState')
  <2>1. emitted' = <<e>> /\ e.event = "MainStateInitialized"
    BY <1>4 DEF LogInitMainState, Emit, MainStateInitialized
  <2> HIDE DEF e
  <2> QED BY <1>2, <2>1
<1>5. ASSUME NEW u \in Users, NEW v \in NewOwners, LogTransferOwnership(u, v) PROVE InOrder
  <2> DEFINE e == OwnershipTransferred(mainState.owner, v)
  <2>1. emitted' = <<e>> /\ e.event = "OwnershipTransferred"
        /\ e.previous_owner = books.main.owner
    BY <1>1, <1>5 DEF LogTransferOwnership, Emit, OwnershipTransferred
  <2> HIDE DEF e
  <2> QED BY <1>2, <2>1
<1>6. ASSUME NEW u \in Users, NEW input \in UpdateInputs, LogUpdateMainState(u, input)
      PROVE  InOrder
  <2> DEFINE e == MainStateUpdated(input, mainState')
  <2>1. emitted' = <<e>> /\ e.event = "MainStateUpdated"
    BY <1>6 DEF LogUpdateMainState, Emit, MainStateUpdated
  <2> HIDE DEF e
  <2> QED BY <1>2, <2>1
<1>7. ASSUME NEW u \in Users, NEW m \in BaseMints, LogCreatePool(u, m) PROVE InOrder
  <2> DEFINE e == CreateEvent(m, pool'[m])
  <2>1. emitted' = <<e>> /\ e.event = "Create" /\ e.base_mint = m
    BY <1>7 DEF LogCreatePool, Emit, CreateEvent
  <2>2. books.pools[m].phase = "unlisted"
    BY <1>1, <1>7, PhaseFacts DEF LogCreatePool, CreatePool, ACreatePool
  <2> HIDE DEF e
  <2> QED BY <1>2, <2>1, <2>2
<1>8. ASSUME NEW u \in Users, NEW m \in BaseMints, NEW q \in QuoteAmounts,
             NEW min \in MinOutputs, LogExactQuoteBuy(u, m, q, min)
      PROVE  InOrder
  BY <1>8, BuyIsInOrder DEF LogExactQuoteBuy, BuyTokensFromExactQuote, ABuy
<1>9. ASSUME NEW u \in Users, NEW m \in BaseMints, NEW b \in BaseAmounts,
             NEW max \in MaxInputs, LogExactBaseBuy(u, m, b, max)
      PROVE  InOrder
  BY <1>9, BuyIsInOrder DEF LogExactBaseBuy, BuyExactTokensFromQuote, ABuy
<1>10. ASSUME NEW u \in Users, NEW m \in BaseMints, NEW b \in SellAmounts,
              NEW min \in MinOutputs, LogSell(u, m, b, min)
       PROVE  InOrder
  <2> DEFINE fill == SellFill(pool[m], mainState.trading_fee, b)
             e == TradeEvent(u, m, pool'[m], fill.base, fill.quote, FALSE)
  <2>1. emitted' = <<e>> /\ e.event = "Trade" /\ e.base_mint = m
    BY <1>10 DEF LogSell, Emit, SellEvents, TradeEvent
  <2>2. books.pools[m].phase = "trading"
    BY <1>1, <1>10 DEF LogSell, Sell, ASell, Phase
  <2> HIDE DEF e
  <2> QED BY <1>2, <2>1, <2>2
<1>11. ASSUME NEW u \in Users, NEW m \in BaseMints, LogWithdraw(u, m) PROVE InOrder
  <2> DEFINE e == WithdrawEvent(u, m, pool[m])
  <2>1. emitted' = <<e>> /\ e.event = "Withdraw" /\ e.base_mint = m
    BY <1>11 DEF LogWithdraw, Emit, WithdrawEvent
  <2>2. Listed(pool[m]) /\ pool[m].complete /\ NotWithdrawn(pool[m])
    BY <1>1, <1>11 DEF LogWithdraw, Withdraw, AWithdraw, PoolsOK
  <2>3. ~Withdrawn(pool[m])
    BY <2>2 DEF NotWithdrawn, Withdrawn
  <2>4. books.pools[m].phase = "complete"
    BY <1>1, <2>2, <2>3, PhaseFacts
  <2> HIDE DEF e
  <2> QED BY <1>2, <2>1, <2>4
<1> QED BY <1>3, <1>4, <1>5, <1>6, <1>7, <1>8, <1>9, <1>10, <1>11 DEF LogNext

(* Events come in an order the auditor can follow: Create, trades, Complete  *)
(* with the buy that filled the curve, one Withdraw; and every transfer of   *)
(* ownership starts from the last owner named (buy.rs:74-83).                *)
THEOREM TheLogIsInOrder == LogSpec => LogIsInOrder
<1>1. BookInv /\ [LogNext]_logVars => [InOrder]_logVars
  BY StepInOrder
<1> QED BY <1>1, LogInvariant, PTL DEF LogSpec, LogIsInOrder, InOrder

-----------------------------------------------------------------------------
(* The trade a logged trade event is about.                                  *)
Bought(e, u, m, fill) ==
    e = TradeEvent(u, m, pool'[m], fill.base, fill.fee + fill.quote, TRUE)

Sold(e, u, m, fill) == e = TradeEvent(u, m, pool'[m], fill.base, fill.quote, FALSE)

LEMMA BuyEventIsTheBuy ==
    ASSUME NEW u, NEW m, NEW fill, Emit(BuyEvents(u, m, pool'[m], fill)),
           NEW e \in Events("Trade")'
    PROVE  Bought(e, u, m, fill)
<1> DEFINE t == TradeEvent(u, m, pool'[m], fill.base, fill.fee + fill.quote, TRUE)
           c == CompleteEvent(m)
<1>1. emitted' = <<t>> \/ emitted' = <<t, c>>
  BY BuyEventsFacts DEF Emit
<1>2. c.event # "Trade"
  BY DEF CompleteEvent
<1>3. e = t
  <2> HIDE DEF t, c
  <2>1. CASE emitted' = <<t>>
    BY <2>1, OneEvent
  <2>2. CASE emitted' = <<t, c>>
    BY <1>2, <2>2, TwoEvents
  <2> QED BY <1>1, <2>1, <2>2
<1> QED BY <1>3 DEF Bought

LEMMA TradeHasACause ==
    ASSUME LogNext, NEW e \in Events("Trade")'
    PROVE  \/ \E u \in Users, m \in BaseMints, q \in QuoteAmounts, min \in MinOutputs :
                /\ BuyTokensFromExactQuote(u, m, q, min)
                /\ Bought(e, u, m, ExactQuoteFill(pool[m], mainState.trading_fee, q))
           \/ \E u \in Users, m \in BaseMints, b \in BaseAmounts, max \in MaxInputs :
                /\ BuyExactTokensFromQuote(u, m, b, max)
                /\ Bought(e, u, m, ExactBaseFill(pool[m], mainState.trading_fee, b))
           \/ \E u \in Users, m \in BaseMints, b \in SellAmounts, min \in MinOutputs :
                /\ Sell(u, m, b, min)
                /\ Sold(e, u, m, SellFill(pool[m], mainState.trading_fee, b))
<1>1. ASSUME NEW f, emitted' = <<f>>, f.event # "Trade" PROVE FALSE
  BY <1>1, OneEvent
<1>2. ~Silent
  BY NoEvent DEF Silent, Emit
<1>3. ASSUME NEW u \in Users, LogInitMainState(u) PROVE FALSE
  <2> DEFINE f == MainStateInitialized(mainState')
  <2>1. emitted' = <<f>> /\ f.event # "Trade"
    BY <1>3 DEF LogInitMainState, Emit, MainStateInitialized
  <2> HIDE DEF f
  <2> QED BY <1>1, <2>1
<1>4. ASSUME NEW u \in Users, NEW v \in NewOwners, LogTransferOwnership(u, v) PROVE FALSE
  <2> DEFINE f == OwnershipTransferred(mainState.owner, v)
  <2>1. emitted' = <<f>> /\ f.event # "Trade"
    BY <1>4 DEF LogTransferOwnership, Emit, OwnershipTransferred
  <2> HIDE DEF f
  <2> QED BY <1>1, <2>1
<1>5. ASSUME NEW u \in Users, NEW input \in UpdateInputs, LogUpdateMainState(u, input)
      PROVE  FALSE
  <2> DEFINE f == MainStateUpdated(input, mainState')
  <2>1. emitted' = <<f>> /\ f.event # "Trade"
    BY <1>5 DEF LogUpdateMainState, Emit, MainStateUpdated
  <2> HIDE DEF f
  <2> QED BY <1>1, <2>1
<1>6. ASSUME NEW u \in Users, NEW m \in BaseMints, LogCreatePool(u, m) PROVE FALSE
  <2> DEFINE f == CreateEvent(m, pool'[m])
  <2>1. emitted' = <<f>> /\ f.event # "Trade"
    BY <1>6 DEF LogCreatePool, Emit, CreateEvent
  <2> HIDE DEF f
  <2> QED BY <1>1, <2>1
<1>7. ASSUME NEW u \in Users, NEW m \in BaseMints, LogWithdraw(u, m) PROVE FALSE
  <2> DEFINE f == WithdrawEvent(u, m, pool[m])
  <2>1. emitted' = <<f>> /\ f.event # "Trade"
    BY <1>7 DEF LogWithdraw, Emit, WithdrawEvent
  <2> HIDE DEF f
  <2> QED BY <1>1, <2>1
<1>8. ASSUME NEW u \in Users, NEW m \in BaseMints, NEW b \in SellAmounts,
             NEW min \in MinOutputs, LogSell(u, m, b, min)
      PROVE  Sell(u, m, b, min)
             /\ Sold(e, u, m, SellFill(pool[m], mainState.trading_fee, b))
  <2> DEFINE fill == SellFill(pool[m], mainState.trading_fee, b)
             f == TradeEvent(u, m, pool'[m], fill.base, fill.quote, FALSE)
  <2>1. Sell(u, m, b, min) /\ emitted' = <<f>>
    BY <1>8 DEF LogSell, Emit, SellEvents
  <2>2. e = f
    <3> HIDE DEF f
    <3> QED BY <2>1, OneEvent
  <2> QED BY <2>1, <2>2 DEF Sold
<1> QED BY <1>2, <1>3, <1>4, <1>5, <1>6, <1>7, <1>8, BuyEventIsTheBuy
    DEF LogNext, LogExactQuoteBuy, LogExactBaseBuy

(* What a trade's user pays and receives.                                    *)
TellsThePayment(e) ==
    LET sign == IF e.is_buy THEN 1 ELSE -1
    IN  e.user # mainState.fee_recipient =>
           /\ Paid(QuoteMint, e.user) = sign * e.quote_amount
           /\ Received(e.base_mint, e.user) = sign * e.base_amount

LEMMA BuyTellsThePayment ==
    ASSUME IInv, NEW u \in Users, NEW m \in BaseMints, NEW fill,
           fill.fee \in Nat, fill.quote \in Nat, fill.base \in Nat,
           buy_finalize(u, m, fill), NEW e, Bought(e, u, m, fill)
    PROVE  TellsThePayment(e)
<1> DEFINE rec == mainState.fee_recipient
<1>1. LedgerTypeOK /\ rec \in Holders
  BY IInvParts, MainFacts
<1>2. \A t \in Mints, h \in Holders :
        balance'[t][h] = balance[t][h] + Flow(QuoteMint, u, rec, fill.fee, t, h)
                                       + Flow(QuoteMint, u, pool_pda(m), fill.quote, t, h)
                                       + Flow(m, pool_pda(m), u, fill.base, t, h)
  BY <1>1, BuyMoves
<1>3. /\ e.user = u /\ e.base_mint = m /\ e.is_buy = TRUE
      /\ e.quote_amount = fill.fee + fill.quote /\ e.base_amount = fill.base
  BY DEF Bought, TradeEvent
<1>4. u \in Holders /\ u # pool_pda(m) /\ m # QuoteMint /\ m \in Mints /\ QuoteMint \in Mints
  BY PdaFacts
<1>5. balance[m][u] \in Nat /\ balance[QuoteMint][u] \in Nat
  BY <1>1, <1>4 DEF LedgerTypeOK
<1> HIDE DEF rec
<1>6. u # rec =>
        /\ balance'[QuoteMint][u] = balance[QuoteMint][u] - (fill.fee + fill.quote)
        /\ balance'[m][u] = balance[m][u] + fill.base
  BY <1>2, <1>4, <1>5 DEF Flow
<1> QED BY <1>3, <1>5, <1>6 DEF TellsThePayment, Paid, Received, rec

LEMMA SellTellsThePayment ==
    ASSUME IInv, NEW u \in Users, NEW m \in BaseMints, NEW b \in SellAmounts,
           NEW min \in MinOutputs, Sell(u, m, b, min),
           NEW e, Sold(e, u, m, SellFill(pool[m], mainState.trading_fee, b))
    PROVE  TellsThePayment(e)
<1> DEFINE rec == mainState.fee_recipient
           fill == SellFill(pool[m], mainState.trading_fee, b)
<1>1. LedgerTypeOK /\ rec \in Holders /\ PoolsOK /\ mainState \in MainStateAccount
  BY IInvParts, MainFacts
<1>2. Priced(pool[m]) /\ mainState.trading_fee \in Fees /\ b \in U64
  BY <1>1, ListedIsPriced, MainFacts, InputAssumption DEF PoolsOK, Sell, ASell
<1>3. fill.fee \in Nat /\ fill.quote \in Nat /\ fill.base \in Nat /\ fill.base = b
  BY <1>2, SellFillFacts
<1>4. fill = SellFill(pool[m], mainState.trading_fee, b) /\ Sold(e, u, m, fill)
  OBVIOUS
<1> HIDE DEF fill
<1>5. \A t \in Mints, h \in Holders :
        balance'[t][h] = balance[t][h] + Flow(m, u, pool_pda(m), fill.base, t, h)
                                       + Flow(QuoteMint, pool_pda(m), rec, fill.fee, t, h)
                                       + Flow(QuoteMint, pool_pda(m), u, fill.quote, t, h)
  BY <1>1, <1>3, <1>4, SellMoves
<1>6. /\ e.user = u /\ e.base_mint = m /\ e.is_buy = FALSE
      /\ e.quote_amount = fill.quote /\ e.base_amount = fill.base
  BY <1>4 DEF Sold, TradeEvent
<1>7. u \in Holders /\ u # pool_pda(m) /\ m # QuoteMint /\ m \in Mints /\ QuoteMint \in Mints
  BY PdaFacts
<1>8. balance[m][u] \in Nat /\ balance[QuoteMint][u] \in Nat
  BY <1>1, <1>7 DEF LedgerTypeOK
<1> HIDE DEF rec
<1>9. u # rec =>
        /\ balance'[QuoteMint][u] = balance[QuoteMint][u] + fill.quote
        /\ balance'[m][u] = balance[m][u] - fill.base
  BY <1>3, <1>5, <1>7, <1>8 DEF Flow
<1> QED BY <1>3, <1>6, <1>8, <1>9 DEF TellsThePayment, Paid, Received, rec

LEMMA StepTellsThePayments ==
    IInv /\ LogNext => \A e \in Events("Trade")' : TellsThePayment(e)
<1> SUFFICES ASSUME IInv, LogNext, NEW e \in Events("Trade")' PROVE TellsThePayment(e)
  OBVIOUS
<1>1. PoolsOK /\ mainState \in MainStateAccount
  BY IInvParts
<1>2. ASSUME NEW u \in Users, NEW m \in BaseMints, NEW q \in QuoteAmounts,
             NEW min \in MinOutputs, BuyTokensFromExactQuote(u, m, q, min),
             Bought(e, u, m, ExactQuoteFill(pool[m], mainState.trading_fee, q))
      PROVE  TellsThePayment(e)
  <2> DEFINE fill == ExactQuoteFill(pool[m], mainState.trading_fee, q)
  <2>1. /\ pool[m].exists /\ Headroom(pool[m]) \in U64 /\ ReservesFit(pool[m])
        /\ buy_finalize(u, m, fill) /\ Bought(e, u, m, fill)
    BY <1>2 DEF BuyTokensFromExactQuote, ABuy
  <2>2. Priced(pool[m]) /\ mainState.trading_fee \in Fees /\ q \in U64
    BY <1>1, <2>1, ListedIsPriced, MainFacts, InputAssumption DEF PoolsOK
  <2>3. fill.fee \in Nat /\ fill.quote \in Nat /\ fill.base \in Nat
    BY <2>1, <2>2, ExactQuoteFillFacts
  <2> HIDE DEF fill
  <2> QED BY <2>1, <2>3, BuyTellsThePayment
<1>3. ASSUME NEW u \in Users, NEW m \in BaseMints, NEW b \in BaseAmounts,
             NEW max \in MaxInputs, BuyExactTokensFromQuote(u, m, b, max),
             Bought(e, u, m, ExactBaseFill(pool[m], mainState.trading_fee, b))
      PROVE  TellsThePayment(e)
  <2> DEFINE fill == ExactBaseFill(pool[m], mainState.trading_fee, b)
  <2>1. /\ pool[m].exists /\ Headroom(pool[m]) \in U64 /\ ReservesFit(pool[m])
        /\ b <= pool[m].real_base_reserves
        /\ buy_finalize(u, m, fill) /\ Bought(e, u, m, fill)
    BY <1>3 DEF BuyExactTokensFromQuote, ABuy
  <2>2. Priced(pool[m]) /\ mainState.trading_fee \in Fees /\ b \in U64
    BY <1>1, <2>1, ListedIsPriced, MainFacts, InputAssumption DEF PoolsOK
  <2>3. fill.fee \in Nat /\ fill.quote \in Nat /\ fill.base \in Nat
    BY <2>1, <2>2, ExactBaseFillFacts
  <2> HIDE DEF fill
  <2> QED BY <2>1, <2>3, BuyTellsThePayment
<1> QED BY <1>2, <1>3, TradeHasACause, SellTellsThePayment

(* Whoever is not the fee recipient has paid and received in a trade what    *)
(* its event says, fee and cut included (buy.rs:61-71, sell.rs:82-92).       *)
THEOREM TheLogTellsThePayments == LogSpec => EventsTellThePayments
<1>1. BookInv /\ [LogNext]_logVars =>
        [\A e \in Events("Trade")' : TellsThePayment(e)]_logVars
  BY StepTellsThePayments DEF BookInv
<1> QED BY <1>1, LogInvariant, PTL
    DEF LogSpec, EventsTellThePayments, TellsThePayment

-----------------------------------------------------------------------------
LEMMA BooksOfPool ==
    ASSUME BookInv, NEW m \in BaseMints, pool[m].exists
    PROVE  /\ books.pools[m].base = BaseReserves(pool[m])
           /\ books.pools[m].quote = QuoteReserves(pool[m])
           /\ books.main.trading_fee = mainState.trading_fee
           /\ pool[m] \in PoolState
           /\ pool[m].virt_base_reserves \in Nat /\ pool[m].real_base_reserves \in Nat
           /\ pool[m].virt_quote_reserves \in Nat /\ pool[m].real_quote_reserves \in Nat
<1>1. pool[m] \in PoolState
  BY IInvParts DEF BookInv, PoolsOK
<1> QED BY <1>1, U64Facts DEF BookInv, BooksMatch, PoolState

LEMMA BuyAddsUp ==
    ASSUME BookInv, NEW u, NEW m \in BaseMints, pool[m].exists, NEW fill,
           fill.quote \in Nat, fill.base \in Nat,
           fill.fee + fill.quote = fill.total,
           fill.quote = NetOfFee(mainState.trading_fee, fill.total),
           buy_finalize(u, m, fill), NEW e, Bought(e, u, m, fill)
    PROVE  TradeAddsUp(e, books.pools[e.base_mint], books.main.trading_fee)
<1> DEFINE p == pool[m]
           fee == mainState.trading_fee
           new == AfterBuy(p, fill)
<1>1. pool'[m] = new /\ p \in PoolState
  BY IInvParts DEF PoolsOK, BookInv, buy_finalize
<1>2. /\ new.virt_base_reserves = p.virt_base_reserves
      /\ new.virt_quote_reserves = p.virt_quote_reserves
      /\ new.real_base_reserves = p.real_base_reserves - fill.base
      /\ new.real_quote_reserves = p.real_quote_reserves + fill.quote
  BY <1>1 DEF AfterBuy, PoolState
<1>3. /\ e.base_mint = m /\ e.is_buy = TRUE /\ e.base_amount = fill.base
      /\ e.quote_amount = fill.total
      /\ e.base_reserves = BaseReserves(new) /\ e.quote_reserves = QuoteReserves(new)
  BY <1>1 DEF Bought, TradeEvent
<1>4. /\ books.pools[m].base = BaseReserves(p) /\ books.pools[m].quote = QuoteReserves(p)
      /\ books.main.trading_fee = fee
      /\ p.virt_base_reserves \in Nat /\ p.real_base_reserves \in Nat
      /\ p.virt_quote_reserves \in Nat /\ p.real_quote_reserves \in Nat
  BY BooksOfPool
<1>5. fill.quote = NetOfFee(fee, fill.total)
  OBVIOUS
<1> HIDE DEF p, fee, new
<1>6. BaseReserves(p) - fill.base = BaseReserves(new)
      /\ QuoteReserves(new) - QuoteReserves(p) = fill.quote
  BY <1>2, <1>4 DEF BaseReserves, QuoteReserves
<1> QED BY <1>3, <1>4, <1>5, <1>6 DEF TradeAddsUp

LEMMA ExactQuoteBuyAddsUp ==
    ASSUME BookInv, NEW u \in Users, NEW m \in BaseMints, NEW q \in QuoteAmounts,
           NEW min \in MinOutputs, BuyTokensFromExactQuote(u, m, q, min),
           NEW e, Bought(e, u, m, ExactQuoteFill(pool[m], mainState.trading_fee, q))
    PROVE  TradeAddsUp(e, books.pools[e.base_mint], books.main.trading_fee)
<1> DEFINE fee == mainState.trading_fee
           fill == ExactQuoteFill(pool[m], fee, q)
<1>1. /\ pool[m].exists /\ Headroom(pool[m]) \in U64 /\ ReservesFit(pool[m])
      /\ buy_finalize(u, m, fill) /\ Bought(e, u, m, fill)
  BY DEF BuyTokensFromExactQuote, ABuy
<1>2. Priced(pool[m]) /\ fee \in Fees /\ q \in U64
  BY <1>1, IInvParts, ListedIsPriced, MainFacts, InputAssumption DEF PoolsOK, BookInv
<1>3. fill.quote \in Nat /\ fill.base \in Nat /\ fill.fee + fill.quote = fill.total
  BY <1>1, <1>2, ExactQuoteFillFacts
<1>4. fill.quote = NetOfFee(fee, fill.total)
  BY DEF ExactQuoteFill
<1> HIDE DEF fill
<1> QED BY <1>1, <1>3, <1>4, BuyAddsUp

LEMMA ExactBaseBuyAddsUp ==
    ASSUME BookInv, FitInv, NEW u \in Users, NEW m \in BaseMints, NEW b \in BaseAmounts,
           NEW max \in MaxInputs, BuyExactTokensFromQuote(u, m, b, max),
           NEW e, Bought(e, u, m, ExactBaseFill(pool[m], mainState.trading_fee, b))
    PROVE  TradeAddsUp(e, books.pools[e.base_mint], books.main.trading_fee)
<1> DEFINE fee == mainState.trading_fee
           fill == ExactBaseFill(pool[m], fee, b)
<1>1. buy_finalize(u, m, fill) /\ Bought(e, u, m, fill)
  BY DEF BuyExactTokensFromQuote
<1>2. /\ Priced(pool[m]) /\ pool[m].exists /\ fee \in Fees
      /\ b \in U64 /\ b <= pool[m].real_base_reserves /\ Headroom(pool[m]) \in U64
      /\ fill.quote \in Nat /\ fill.base \in Nat
  BY ExactBaseBuyFacts DEF FitInv
<1>3. fill.fee + fill.quote = fill.total /\ fill.quote = NetOfFee(fee, fill.total)
  BY <1>2, ExactBaseTotal DEF FitInv
<1> HIDE DEF fill
<1> QED BY <1>1, <1>2, <1>3, BuyAddsUp

LEMMA SellAddsUp ==
    ASSUME BookInv, NEW u \in Users, NEW m \in BaseMints, NEW b \in SellAmounts,
           NEW min \in MinOutputs, Sell(u, m, b, min),
           NEW e, Sold(e, u, m, SellFill(pool[m], mainState.trading_fee, b))
    PROVE  TradeAddsUp(e, books.pools[e.base_mint], books.main.trading_fee)
<1> DEFINE p == pool[m]
           fee == mainState.trading_fee
           fill == SellFill(p, fee, b)
           new == AfterSell(p, fill)
<1>1. /\ p.exists /\ ReservesFit(p)
      /\ pool' = [pool EXCEPT ![m] = new] /\ Sold(e, u, m, fill)
  BY DEF Sell, ASell
<1>2. Priced(p) /\ fee \in Fees /\ b \in U64 /\ pool'[m] = new /\ p \in PoolState
  BY <1>1, IInvParts, ListedIsPriced, MainFacts, InputAssumption DEF PoolsOK, BookInv
<1>3. fill.total \in Nat /\ fill.base \in Nat
  BY <1>2, SellFillFacts
<1>4. fill.quote = NetOfFee(fee, fill.total)
  BY DEF SellFill
<1> HIDE DEF fill
<1>5. /\ new.virt_base_reserves = p.virt_base_reserves
      /\ new.virt_quote_reserves = p.virt_quote_reserves
      /\ new.real_base_reserves = p.real_base_reserves + fill.base
      /\ new.real_quote_reserves = p.real_quote_reserves - fill.total
  BY <1>2 DEF AfterSell, PoolState
<1>6. /\ e.base_mint = m /\ e.is_buy = FALSE /\ e.base_amount = fill.base
      /\ e.quote_amount = fill.quote
      /\ e.base_reserves = BaseReserves(new) /\ e.quote_reserves = QuoteReserves(new)
  BY <1>1, <1>2 DEF Sold, TradeEvent
<1>7. /\ books.pools[m].base = BaseReserves(p) /\ books.pools[m].quote = QuoteReserves(p)
      /\ books.main.trading_fee = fee
      /\ p.virt_base_reserves \in Nat /\ p.real_base_reserves \in Nat
      /\ p.virt_quote_reserves \in Nat /\ p.real_quote_reserves \in Nat
  BY <1>1, BooksOfPool
<1> HIDE DEF p, fee, new
<1>8. BaseReserves(p) + fill.base = BaseReserves(new)
      /\ QuoteReserves(p) - QuoteReserves(new) = fill.total
  BY <1>3, <1>5, <1>7 DEF BaseReserves, QuoteReserves
<1> QED BY <1>4, <1>6, <1>7, <1>8 DEF TradeAddsUp

LEMMA LogTermsFit == ASSUME OwnerKeepsTermsFitting PROVE LogSpec => []FitInv
<1>1. LogInit => FitInv
  BY InitFitInv DEF LogInit
<1>2. FitInv /\ [LogNext]_logVars => FitInv'
  BY NextFitInv, LogStepIsAStep
<1> QED BY <1>1, <1>2, PTL DEF LogSpec

(* Consecutive events of a pool add up, fee included and also when a buy was *)
(* cut (buy.rs:54-71, sell.rs:67-92).  An exact-base buy needs terms that fit*)
(* the width, as its total is recomputed and cast (buy.rs:161-162).          *)
THEOREM TheLogAddsUp == ASSUME OwnerKeepsTermsFitting PROVE LogSpec => TradesAddUp
<1>1. BookInv /\ FitInv /\ [LogNext]_logVars =>
        [\A e \in Events("Trade")' :
           TradeAddsUp(e, books.pools[e.base_mint], books.main.trading_fee)]_logVars
  BY TradeHasACause, ExactQuoteBuyAddsUp, ExactBaseBuyAddsUp, SellAddsUp
<1> QED BY <1>1, LogInvariant, LogTermsFit, PTL DEF LogSpec, TradesAddUp
=============================================================================
