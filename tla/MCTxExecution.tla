--------------------------- MODULE MCTxExecution ---------------------------
(* Small instances of TxExecution for TLC.                                   *)
EXTENDS TxExecution, TLC

CONSTANTS owner, alice        \* users
CONSTANTS cat, dog            \* base mints
CONSTANTS s1, s2              \* slots

(* The owner starts without a quote ATA, as init_main_state needs.           *)
FewFunds == owner :> 0 @@ alice :> 9
FundsForTwo == owner :> 0 @@ alice :> 12
FundsForFilling == owner :> 0 @@ alice :> 64

(* What the owner tries: the highest fee, for alice, and terms under which   *)
(* the reserves of a pool listed later outgrow a u64; a fee above it; a      *)
(* higher threshold for later pools, the fees from then on paid to the vault *)
(* of cat, by trades on dog and on cat itself.                               *)
Terms(fee) ==
    [withdrawer |-> alice, fee_recipient |-> alice, trading_fee |-> fee,
     total_supply |-> None, init_virt_base_reserves |-> None,
     init_virt_quote_reserves |-> None, real_quote_threshold |-> None]
SomeTerms ==
    {[Terms(MAX_TRADING_FEE) EXCEPT !.init_virt_quote_reserves = U64_MAX - 3],
     Terms(MAX_TRADING_FEE + 1)}
NewTerms ==
    {[Terms(FEE_PER_DIV) EXCEPT !.fee_recipient = pool_pda(cat),
                                !.real_quote_threshold = REAL_QUOTE_THRESHOLD + 1]}
OwnerThenCat == {owner, pool_pda(cat)}

SlotSymmetry == Permutations(Slots)

(* The life of one pool among others (see MCPumpFun).                        *)
DogCurve == INSTANCE AbstractCurve WITH
    phase <- Phase(pool[dog]),
    raised <- pool[dog].real_quote_reserves,
    goal <- pool[dog].real_quote_threshold

DogFollowsItsLifeCycle == DogCurve!Spec
=============================================================================
