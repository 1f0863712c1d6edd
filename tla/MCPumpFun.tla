----------------------------- MODULE MCPumpFun -----------------------------
(* Small instances of PumpFun for TLC.                                       *)
EXTENDS PumpFunProperties, TLC

CONSTANTS owner, alice        \* users
CONSTANTS cat, dog            \* base mints

(* The owner starts without a quote ATA, as init_main_state needs.           *)
FundsOfTwo == owner :> 0 @@ alice :> 32
FundsForAdmin == owner :> 0 @@ alice :> 9

(* What the owner tries: hand withdrawals to alice, drop the fee and double  *)
(* the threshold; pay the highest fee to a pool; a fee above the maximum; a  *)
(* term of zero.                                                             *)
Unchanged ==
    [withdrawer |-> owner, fee_recipient |-> owner, trading_fee |-> FEE_PER_DIV,
     total_supply |-> None, init_virt_base_reserves |-> None,
     init_virt_quote_reserves |-> None, real_quote_threshold |-> None]
AdminInputs(m) ==
    {[Unchanged EXCEPT !.withdrawer = alice, !.trading_fee = 0,
                       !.real_quote_threshold = 2 * REAL_QUOTE_THRESHOLD],
     [Unchanged EXCEPT !.fee_recipient = pool_pda(m),
                       !.trading_fee = MAX_TRADING_FEE],
     [Unchanged EXCEPT !.trading_fee = MAX_TRADING_FEE + 1],
     [Unchanged EXCEPT !.init_virt_base_reserves = 0]}
InputsWithCat == AdminInputs(cat)

-----------------------------------------------------------------------------
(* A pool goes through its life as AbstractCurve says: one goal fixed at     *)
(* listing whatever the owner reconfigures, no trade after completion, one   *)
(* withdrawal of the whole goal.                                             *)
CatCurve == INSTANCE AbstractCurve WITH
    phase <- Phase(pool[cat]),
    raised <- pool[cat].real_quote_reserves,
    goal <- pool[cat].real_quote_threshold

CatFollowsItsLifeCycle == CatCurve!Spec
=============================================================================
