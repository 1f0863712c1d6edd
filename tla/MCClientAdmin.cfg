SPECIFICATION ClientSpec
CONSTANTS
    owner = owner
    alice = alice
    cat = cat
    s1 = s1
    s2 = s2
    Sessions = {s1, s2}
    Wallet <- TwoOfTheOwner
    Calls <- AdminCalls
    MaxCalls = 2
    Users = {owner, alice}
    BaseMints = {cat}
    QuoteMint = ALI
    QuoteFunds <- Funds
    Creators = {owner}
    Closers = {}
    MintAmounts = {5}
    MintLimit = 5
    TransferAmounts = {}
    BurnAmounts = {}
    U64_MAX = 1023
    FEE_PER_DIV = 1
    PERCENT = 10
    DEFAULT_OWNER = owner
    TOTAL_SUPPLY = 5
    INIT_VIRT_BASE_RESERVE = 1
    INIT_VIRT_QUOTE_RESERVE = 3
    REAL_QUOTE_THRESHOLD = 6
    None = None
    NewOwners = {}
    UpdateInputs = {}
    QuoteAmounts = {}
    BaseAmounts = {}
    SellAmounts = {}
    MinOutputs = {0}
    MaxInputs = {1023}
PROPERTIES
    UpdatesKeepTheRest
    CallsReturn
CHECK_DEADLOCK FALSE
