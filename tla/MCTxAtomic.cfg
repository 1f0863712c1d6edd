SPECIFICATION TxSpec
CONSTANTS
    owner = owner
    alice = alice
    cat = cat
    dog = dog
    s1 = s1
    s2 = s2
    Slots = {s1, s2}
    FeeRecipients = {owner, alice}
    Users = {owner, alice}
    BaseMints = {cat}
    QuoteMint = ALI
    QuoteFunds <- FewFunds
    Creators = {owner}
    Closers = {}
    MintAmounts = {5}
    MintLimit = 5
    TransferAmounts = {}
    BurnAmounts = {}
    U64_MAX = 1023
    FEE_PER_DIV = 1
    PERCENT = 10
    DEFAULT_OWNER = owner
    TOTAL_SUPPLY = 5
    INIT_VIRT_BASE_RESERVE = 1
    INIT_VIRT_QUOTE_RESERVE = 3
    REAL_QUOTE_THRESHOLD = 6
    None = None
    NewOwners = {alice}
    UpdateInputs <- SomeTerms
    QuoteAmounts = {9}
    BaseAmounts = {2}
    SellAmounts = {2}
    MinOutputs = {0}
    MaxInputs = {1023}
INVARIANTS
    VaultsCanPay
    CompleteErrorIsFinal
PROPERTIES
    AppliedAtomically
CHECK_DEADLOCK FALSE
