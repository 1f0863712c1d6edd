----------------------------- MODULE MainState -----------------------------
(* The program's configuration account, main_state: its three roles, the fee *)
(* and the terms new pools start with, and the three instructions that write *)
(* it (main_state/ixs/*.rs).  An instruction runs in one transaction, which  *)
(* Solana applies entirely or not at all: it is one step, whose guards are   *)
(* the account constraints and every require! of the handler.                *)
EXTENDS TokenLedger, CurveMath

CONSTANTS
    DEFAULT_OWNER, TOTAL_SUPPLY, INIT_VIRT_BASE_RESERVE,
    INIT_VIRT_QUOTE_RESERVE, REAL_QUOTE_THRESHOLD,   \* constants.rs
    None,          \* an Option without a value
    NewOwners,     \* keys transfer_ownership is tried with
    UpdateInputs   \* inputs update_main_state is tried with

Option(S) == S \cup {None}

UpdateMainStateInput ==
    [withdrawer : Holders, fee_recipient : Holders, trading_fee : U64,
     total_supply : Option(U64), init_virt_base_reserves : Option(U64),
     init_virt_quote_reserves : Option(U64), real_quote_threshold : Option(U64)]

ASSUME ConfigAssumption ==
    /\ DEFAULT_OWNER \in Users
    /\ {TOTAL_SUPPLY, INIT_VIRT_BASE_RESERVE, INIT_VIRT_QUOTE_RESERVE,
        REAL_QUOTE_THRESHOLD} \subseteq 1 .. U64_MAX
    /\ MAX_TRADING_FEE <= U64_MAX
    /\ None \notin U64
    /\ NewOwners \subseteq Holders
    /\ UpdateInputs \subseteq UpdateMainStateInput

VARIABLE mainState

(* Solana creates the account in init_main_state: "exists" says it was.      *)
MainStateAccount ==
    [exists : BOOLEAN, owner : Holders, withdrawer : Holders, fee_recipient : Holders,
     trading_fee : 0 .. MAX_TRADING_FEE,
     total_supply : 1 .. U64_MAX, init_virt_base_reserves : 1 .. U64_MAX,
     init_virt_quote_reserves : 1 .. U64_MAX, real_quote_threshold : 1 .. U64_MAX]

(* The fields init_main_state writes; before it the account does not exist   *)
(* and its fields, which nothing reads, have the same values.                *)
DefaultMainState ==
    [exists |-> TRUE, owner |-> DEFAULT_OWNER, withdrawer |-> DEFAULT_OWNER,
     fee_recipient |-> DEFAULT_OWNER, trading_fee |-> FEE_PER_DIV,
     total_supply |-> TOTAL_SUPPLY,
     init_virt_base_reserves |-> INIT_VIRT_BASE_RESERVE,
     init_virt_quote_reserves |-> INIT_VIRT_QUOTE_RESERVE,
     real_quote_threshold |-> REAL_QUOTE_THRESHOLD]

MainInit == mainState = [DefaultMainState EXCEPT !.exists = FALSE]

-----------------------------------------------------------------------------
(* AInitMainState: both accounts are declared "init", so the instruction     *)
(* fails when the owner's quote ATA is already there.                        *)
AInitMainState(owner) ==
    /\ owner = DEFAULT_OWNER
    /\ ~mainState.exists
    /\ <<QuoteMint, owner>> \notin atas
    /\ atas' = atas \cup {<<QuoteMint, owner>>}

InitMainState(owner) ==
    /\ AInitMainState(owner)
    /\ mainState' = DefaultMainState
    /\ UNCHANGED <<balance, mint>>

(* has_one = owner, and the owner signs.                                     *)
SignedByOwner(owner) == mainState.exists /\ mainState.owner = owner

TransferOwnership(owner, new_owner) ==
    /\ SignedByOwner(owner)
    /\ mainState.owner # new_owner
    /\ mainState' = [mainState EXCEPT !.owner = new_owner]
    /\ UNCHANGED ledgerVars

(* Mutant: zero is let through.                                              *)
AcceptableWithZero(option) == option # None => option >= 0

(* An optional term: absent, or above zero.                                  *)
Acceptable(option) == option # None => option > 0
OrElse(option, current) == IF option = None THEN current ELSE option

AUpdateMainState(owner, input) ==
    /\ SignedByOwner(owner)
    /\ atas' = atas \cup {<<QuoteMint, input.fee_recipient>>}

UpdateMainState(owner, input) ==
    /\ AUpdateMainState(owner, input)
    /\ input.trading_fee <= MAX_TRADING_FEE
    /\ Acceptable(input.total_supply)
    /\ Acceptable(input.init_virt_base_reserves)
    /\ Acceptable(input.init_virt_quote_reserves)
    /\ Acceptable(input.real_quote_threshold)
    /\ mainState' = [mainState EXCEPT
           !.withdrawer = input.withdrawer,
           !.fee_recipient = input.fee_recipient,
           !.trading_fee = input.trading_fee,
           !.total_supply = OrElse(input.total_supply, @),
           !.init_virt_base_reserves = OrElse(input.init_virt_base_reserves, @),
           !.init_virt_quote_reserves = OrElse(input.init_virt_quote_reserves, @),
           !.real_quote_threshold = OrElse(input.real_quote_threshold, @)]
    /\ UNCHANGED <<balance, mint>>

MainNext ==
    \/ \E owner \in Users : InitMainState(owner)
    \/ \E owner \in Users, new_owner \in NewOwners : TransferOwnership(owner, new_owner)
    \/ \E owner \in Users, input \in UpdateInputs : UpdateMainState(owner, input)
=============================================================================
