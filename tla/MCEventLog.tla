---------------------------- MODULE MCEventLog ----------------------------
(* Small instances of EventLog for TLC.                                      *)
EXTENDS EventLog, TLC

CONSTANTS owner, alice        \* users
CONSTANT cat                  \* base mint

(* The owner starts without a quote ATA, as init_main_state needs.           *)
FundsOfTraders == owner :> 0 @@ alice :> 32

(* What the owner tries: alice withdraws, the fee is the highest and goes to *)
(* the pool itself, later pools are twice as large.                          *)
DearerInputs ==
    {[withdrawer |-> alice, fee_recipient |-> pool_pda(cat), trading_fee |-> MAX_TRADING_FEE,
      total_supply |-> 2 * TOTAL_SUPPLY, init_virt_base_reserves |-> None,
      init_virt_quote_reserves |-> None, real_quote_threshold |-> None]}
===========================================================================
