SPECIFICATION Spec
CONSTANTS
    owner = owner
    alice = alice
    cat = cat
    dog = dog
    Users = {owner, alice}
    BaseMints = {cat}
    QuoteMint = ALI
    QuoteFunds <- FundsForAdmin
    Creators = {owner}
    Closers = {alice}
    MintAmounts = {5}
    MintLimit = 10
    TransferAmounts = {1}
    BurnAmounts = {1}
    U64_MAX = 1023
    FEE_PER_DIV = 1
    PERCENT = 6
    DEFAULT_OWNER = owner
    TOTAL_SUPPLY = 5
    INIT_VIRT_BASE_RESERVE = 1
    INIT_VIRT_QUOTE_RESERVE = 3
    REAL_QUOTE_THRESHOLD = 6
    None = None
    NewOwners = {alice}
    UpdateInputs <- InputsWithCat
    QuoteAmounts = {2, 9}
    BaseAmounts = {2}
    SellAmounts = {1}
    MinOutputs = {0}
    MaxInputs = {1023}
INVARIANTS
    TypeOK
    FundsAreInOpenAccounts
    VaultsBacked
PROPERTIES
    ListedSupplyNeverGrows
    VaultsMoveAsBooked
CHECK_DEADLOCK FALSE
