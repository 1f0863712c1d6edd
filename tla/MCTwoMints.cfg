SPECIFICATION TxSpec
CONSTANTS
    owner = owner
    alice = alice
    cat = cat
    dog = dog
    s1 = s1
    s2 = s2
    Slots = {s1, s2}
    FeeRecipients <- OwnerThenCat
    Users = {owner, alice}
    BaseMints = {cat, dog}
    QuoteMint = ALI
    QuoteFunds <- FundsForTwo
    Creators = {alice}
    Closers = {}
    MintAmounts = {5}
    MintLimit = 5
    TransferAmounts = {}
    BurnAmounts = {}
    U64_MAX = 1023
    FEE_PER_DIV = 1
    PERCENT = 6
    DEFAULT_OWNER = owner
    TOTAL_SUPPLY = 5
    INIT_VIRT_BASE_RESERVE = 1
    INIT_VIRT_QUOTE_RESERVE = 5
    REAL_QUOTE_THRESHOLD = 10
    None = None
    NewOwners = {}
    UpdateInputs <- NewTerms
    QuoteAmounts = {9}
    BaseAmounts = {}
    SellAmounts = {3}
    MinOutputs = {0}
    MaxInputs = {1023}
SYMMETRY SlotSymmetry
INVARIANTS
    VaultsCanPay
    VaultsBacked
    CompletesAtThreshold
PROPERTIES
    AppliedAtomically
    DogFollowsItsLifeCycle
    VaultsMoveAsBooked
CHECK_DEADLOCK FALSE
