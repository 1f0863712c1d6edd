SPECIFICATION TxSpec
CONSTANTS
    owner = owner
    alice = alice
    cat = cat
    dog = dog
    s1 = s1
    s2 = s2
    Slots = {s1}
    FeeRecipients = {owner}
    Users = {owner, alice}
    BaseMints = {cat}
    QuoteMint = ALI
    QuoteFunds <- FundsForFilling
    Creators = {owner}
    Closers = {}
    MintAmounts = {15}
    MintLimit = 15
    TransferAmounts = {}
    BurnAmounts = {}
    U64_MAX = 1023
    FEE_PER_DIV = 1
    PERCENT = 10
    DEFAULT_OWNER = owner
    TOTAL_SUPPLY = 15
    INIT_VIRT_BASE_RESERVE = 1
    INIT_VIRT_QUOTE_RESERVE = 16
    REAL_QUOTE_THRESHOLD = 48
    None = None
    NewOwners = {}
    UpdateInputs = {}
    QuoteAmounts = {1, 7, 40}
    BaseAmounts = {}
    SellAmounts = {4, 9}
    MinOutputs = {0}
    MaxInputs = {1023}
INVARIANTS
    TradesNeverPanic
    CirculatingTokensCanBeSoldBack
    CurveCanBeFilled
    CompleteCurveCanBeWithdrawn
PROPERTIES
    ProductNeverFalls
CHECK_DEADLOCK FALSE
