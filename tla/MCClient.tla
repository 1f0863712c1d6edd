------------------------------ MODULE MCClient ------------------------------
(* Small instances of Client for TLC.                                        *)
EXTENDS Client, TLC

CONSTANTS owner, alice   \* users
CONSTANTS cat            \* a base mint
CONSTANTS s1, s2         \* sessions

Funds == owner :> 0 @@ alice :> 64

TraderAndOwner == s1 :> alice @@ s2 :> owner
TwoOfTheOwner == s1 :> owner @@ s2 :> owner

Op(op) == [op |-> op]
OnCat(op) == [op |-> op, m |-> cat]
Of(op, amount) == [op |-> op, m |-> cat, amount |-> amount]

Given ==
    [withdrawer |-> None, fee_recipient |-> None, trading_fee |-> None,
     total_supply |-> None, init_virt_base_reserves |-> None,
     init_virt_quote_reserves |-> None, real_quote_threshold |-> None]
Update(given) == [op |-> "updateMainState", given |-> given]

(* The fields update_state.js sends: all of them.                            *)
ScriptInput ==
    [withdrawer |-> alice, fee_recipient |-> owner, trading_fee |-> FEE_PER_DIV,
     total_supply |-> TOTAL_SUPPLY, init_virt_base_reserves |-> INIT_VIRT_BASE_RESERVE,
     init_virt_quote_reserves |-> INIT_VIRT_QUOTE_RESERVE,
     real_quote_threshold |-> REAL_QUOTE_THRESHOLD]

(* A trader who quotes and trades while the owner changes fee and threshold. *)
TradingCalls ==
    s1 :> {Of("getOutputAmountOnBuy", 30), Of("getInputAmountOnBuy", 10),
           Of("getOutputAmountOnSell", 7),
           Of("buy", 30), Of("buy2", 10), Of("sell", 7)}
    @@ s2 :> {Update([Given EXCEPT !.trading_fee = 2, !.real_quote_threshold = 60]),
           OnCat("withdraw")}

(* The owner from two places: a client, and a client next to the scripts.    *)
AdminCalls ==
    s1 :> {Op("initMainState"),
           Update([Given EXCEPT !.withdrawer = alice, !.real_quote_threshold = 8])}
    @@ s2 :> {OnCat("createPool"), Op("init_state"),
              Update([Given EXCEPT !.trading_fee = 3, !.total_supply = 9]),
              [op |-> "transferOwnership", new_owner |-> alice],
              [op |-> "update_state", given |-> ScriptInput]}

=============================================================================
