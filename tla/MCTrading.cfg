SPECIFICATION Spec
CONSTANTS
    owner = owner
    alice = alice
    cat = cat
    dog = dog
    Users = {owner, alice}
    BaseMints = {cat}
    QuoteMint = ALI
    QuoteFunds <- FundsOfTwo
    Creators = {owner}
    Closers = {}
    MintAmounts = {10}
    MintLimit = 10
    TransferAmounts = {}
    BurnAmounts = {}
    U64_MAX = 1023
    FEE_PER_DIV = 1
    PERCENT = 10
    DEFAULT_OWNER = owner
    TOTAL_SUPPLY = 10
    INIT_VIRT_BASE_RESERVE = 1
    INIT_VIRT_QUOTE_RESERVE = 9
    REAL_QUOTE_THRESHOLD = 24
    None = None
    NewOwners = {}
    UpdateInputs = {}
    QuoteAmounts = {1, 11, 30}
    BaseAmounts = {1, 4}
    SellAmounts = {1, 3}
    MinOutputs = {0, 3}
    MaxInputs = {10, 1023}
INVARIANTS
    VaultsBacked
    CompletesAtThreshold
PROPERTIES
    ExactQuoteBuyKeepsItsLimits
    ExactBaseBuyKeepsItsLimits
    ProductLossIsBounded
    CatFollowsItsLifeCycle
CHECK_DEADLOCK FALSE
