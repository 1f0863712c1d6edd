SPECIFICATION LogSpec
CONSTANTS
    owner = owner
    alice = alice
    cat = cat
    Users = {owner, alice}
    BaseMints = {cat}
    QuoteMint = ALI
    QuoteFunds <- FundsOfTraders
    Creators = {owner}
    Closers = {}
    MintAmounts = {10}
    MintLimit = 10
    TransferAmounts = {}
    BurnAmounts = {}
    U64_MAX = 1023
    FEE_PER_DIV = 1
    PERCENT = 10
    DEFAULT_OWNER = owner
    TOTAL_SUPPLY = 10
    INIT_VIRT_BASE_RESERVE = 1
    INIT_VIRT_QUOTE_RESERVE = 9
    REAL_QUOTE_THRESHOLD = 24
    None = None
    NewOwners = {alice}
    UpdateInputs <- DearerInputs
    QuoteAmounts = {11, 30}
    BaseAmounts = {4}
    SellAmounts = {3}
    MinOutputs = {0}
    MaxInputs = {1023}
INVARIANTS
    BooksMatch
PROPERTIES
    TradesAddUp
    EventsTellThePayments
    LogIsInOrder
CHECK_DEADLOCK FALSE
