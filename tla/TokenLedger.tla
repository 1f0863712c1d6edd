---------------------------- MODULE TokenLedger ----------------------------
(* The SPL token ledger as the program uses it: mints, associated token      *)
(* accounts (ATAs) and the token program's transfer.  External code, modelled*)
(* from the CPIs of pool/ixs/*.rs, the account constraints and tests/helper. *)
(*                                                                           *)
(* Everybody else's use of the token program is here as well: minting and    *)
(* revoking authorities before a token is listed, transfers between wallets  *)
(* and donations to a pool's vault, burning and closing accounts.            *)
EXTENDS Integers

CONSTANTS
    Users,            \* keys that can sign
    BaseMints,        \* base token mints
    QuoteMint,        \* the mint of constants.rs, QUOTE_MINT_STR
    QuoteFunds,       \* quote tokens each user holds at the start
    Creators,         \* users base tokens are minted to
    Closers,          \* users who close their empty accounts
    MintAmounts,      \* amounts a mint authority may issue at a time
    MintLimit,        \* bound on what is ever issued of a base token
    TransferAmounts,  \* amounts of a plain transfer between holders
    BurnAmounts       \* amounts a holder may burn at a time

Mints == BaseMints \cup {QuoteMint}

(* Address of a pool's account: derived from the seeds                       *)
(* [PREFIX_SEED, base_mint, quote_mint]; it owns the pool's two vaults.      *)
pool_pda(m) == <<"pool", m, QuoteMint>>

Holders == Users \cup {pool_pda(m) : m \in BaseMints}

ASSUME LedgerAssumption ==
    /\ QuoteMint \notin BaseMints
    /\ \A m \in BaseMints : pool_pda(m) \notin Users
    /\ QuoteFunds \in [Users -> Nat]
    /\ Creators \subseteq Users
    /\ Closers \subseteq Users
    /\ MintLimit \in Nat
    /\ MintAmounts \subseteq Nat
    /\ TransferAmounts \subseteq Nat
    /\ BurnAmounts \subseteq Nat

VARIABLES
    balance,  \* balance[token][holder]: amount in the holder's ATA
    atas,     \* the <<token, holder>> whose ATA exists
    mint      \* the mint accounts of the base tokens

ledgerVars == <<balance, atas, mint>>

MintAccount == [supply : Nat, mint_authority : BOOLEAN, freeze_authority : BOOLEAN]

LedgerTypeOK ==
    /\ balance \in [Mints -> [Holders -> Nat]]
    /\ atas \subseteq Mints \X Holders
    /\ mint \in [BaseMints -> MintAccount]

LedgerInit ==
    /\ balance = [t \in Mints |-> [h \in Holders |->
                    IF t = QuoteMint /\ h \in Users THEN QuoteFunds[h] ELSE 0]]
    /\ atas = {<<QuoteMint, u>> : u \in {v \in Users : QuoteFunds[v] > 0}}
    /\ mint = [m \in BaseMints |->
                 [supply |-> 0, mint_authority |-> TRUE, freeze_authority |-> TRUE]]

-----------------------------------------------------------------------------
(* token::transfer.  Debit, then credit, so a transfer to oneself is neutral.*)
(* The credit cannot overflow: no token's supply exceeds a u64.              *)
Transfer(bal, token, from, to, amount) ==
    LET debited == [bal[token] EXCEPT ![from] = @ - amount]
    IN  [bal EXCEPT ![token] = [debited EXCEPT ![to] = @ + amount]]

Covers(bal, token, from, amount) == bal[token][from] >= amount

-----------------------------------------------------------------------------
(* tests/helper.ts: createToken mints to the creator's ATA.                  *)
MintTo(m, to, amount) ==
    /\ mint[m].mint_authority
    /\ mint[m].supply + amount <= MintLimit
    /\ mint' = [mint EXCEPT ![m].supply = @ + amount]
    /\ balance' = [balance EXCEPT ![m][to] = @ + amount]
    /\ atas' = atas \cup {<<m, to>>}

RevokeMintAuthority(m) ==
    /\ mint[m].mint_authority
    /\ mint' = [mint EXCEPT ![m].mint_authority = FALSE]
    /\ UNCHANGED <<balance, atas>>

RevokeFreezeAuthority(m) ==
    /\ mint[m].freeze_authority
    /\ mint' = [mint EXCEPT ![m].freeze_authority = FALSE]
    /\ UNCHANGED <<balance, atas>>

(* tests/helper.ts: transferToken creates the receiver's ATA when missing;   *)
(* the receiver may be a pool.                                               *)
TransferToken(token, from, to, amount) ==
    /\ from # to
    /\ <<token, from>> \in atas
    /\ Covers(balance, token, from, amount)
    /\ balance' = Transfer(balance, token, from, to, amount)
    /\ atas' = atas \cup {<<token, to>>}
    /\ UNCHANGED mint

BurnToken(m, from, amount) ==
    /\ Covers(balance, m, from, amount)
    /\ mint[m].supply >= amount
    /\ balance' = [balance EXCEPT ![m][from] = @ - amount]
    /\ mint' = [mint EXCEPT ![m].supply = @ - amount]
    /\ UNCHANGED atas

(* Only an empty account can be closed, and only by a key that signs.        *)
CloseAccount(token, holder) ==
    /\ <<token, holder>> \in atas
    /\ balance[token][holder] = 0
    /\ atas' = atas \ {<<token, holder>>}
    /\ UNCHANGED <<balance, mint>>

LedgerNext ==
    \/ \E m \in BaseMints, to \in Creators, amount \in MintAmounts : MintTo(m, to, amount)
    \/ \E m \in BaseMints : RevokeMintAuthority(m)
    \/ \E m \in BaseMints : RevokeFreezeAuthority(m)
    \/ \E token \in Mints, from \in Users, to \in Holders, amount \in TransferAmounts :
           TransferToken(token, from, to, amount)
    \/ \E m \in BaseMints, from \in Users, amount \in BurnAmounts :
           BurnToken(m, from, amount)
    \/ \E token \in Mints, holder \in Closers : CloseAccount(token, holder)
=============================================================================
