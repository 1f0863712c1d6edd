SPECIFICATION ClientSpec
CONSTANTS
    owner = owner
    alice = alice
    cat = cat
    s1 = s1
    s2 = s2
    Sessions = {s1, s2}
    Wallet <- TraderAndOwner
    Calls <- TradingCalls
    MaxCalls = 2
    Users = {owner, alice}
    BaseMints = {cat}
    QuoteMint = ALI
    QuoteFunds <- Funds
    Creators = {owner}
    Closers = {}
    MintAmounts = {15}
    MintLimit = 15
    TransferAmounts = {}
    BurnAmounts = {}
    U64_MAX = 1023
    FEE_PER_DIV = 1
    PERCENT = 10
    DEFAULT_OWNER = owner
    TOTAL_SUPPLY = 15
    INIT_VIRT_BASE_RESERVE = 1
    INIT_VIRT_QUOTE_RESERVE = 16
    REAL_QUOTE_THRESHOLD = 48
    None = None
    NewOwners = {}
    UpdateInputs = {}
    QuoteAmounts = {30}
    BaseAmounts = {}
    SellAmounts = {}
    MinOutputs = {0}
    MaxInputs = {1023}
INVARIANTS
    MaximumAllowsTheQuote
    OkMeansExecuted
PROPERTIES
    QuotesAreKept
CHECK_DEADLOCK FALSE
