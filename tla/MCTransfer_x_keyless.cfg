SPECIFICATION Spec
CONSTANTS
    alice = alice
    bob = bob
    carol = carol
    k1 = k1
    k2 = k2
    NoKey = NoKey
    Free = Free
    Users = {alice, bob, carol}
    Requests = {r1, r2}
    Payloads <- Keyless
    Ineligible = {carol}
    InitBalance <- ThreeEach
    Disputed = {}
    HoldLevels = {0}
    TransferLimit = 2
    DailyLimit = 9
    Mongo = "replica"
    Frozen = {}
    Faults = {}
INVARIANT NoPhantomDebit
CHECK_DEADLOCK FALSE
