SPECIFICATION FairSpec
CONSTANTS
    alice = alice
    bob = bob
    carol = carol
    k1 = k1
    k2 = k2
    NoKey = NoKey
    Free = Free
    Users = {alice, bob, carol}
    Requests = {r1, r2}
    Payloads <- Crossing
    Ineligible = {carol}
    InitBalance <- ThreeEach
    Disputed = {}
    HoldLevels = {0}
    TransferLimit = 2
    DailyLimit = 1
    Mongo = "standalone"
    Frozen = {alice}
    Faults = {"crash", "redis", "mongo"}
INVARIANTS
    PlainLedgerShowsPostDebit
PROPERTIES
    EveryTransferAnswered
CHECK_DEADLOCK FALSE
