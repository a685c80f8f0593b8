SPECIFICATION Spec
CONSTANTS
    alice = alice
    bob = bob
    carol = carol
    k1 = k1
    k2 = k2
    NoKey = NoKey
    Free = Free
    Users = {alice, bob, carol}
    Requests = {r1, r2}
    Payloads <- Mixed
    Ineligible = {carol}
    InitBalance <- ThreeEach
    Disputed = {alice}
    HoldLevels = {0, 2}
    TransferLimit = 2
    DailyLimit = 9
    Mongo = "replica"
    Frozen = {}
    Faults = {"redis", "slow", "crash", "mongo"}
SYMMETRY Symmetry
INVARIANTS
    DebitOncePerKey
    NothingStranded
    OneTransferPerSender
    KeyedAnswersAreTrue
PROPERTIES
    NoOverdraft
    MoneyFollowsBook
    LockFollowsProtocol
CHECK_DEADLOCK FALSE
