SPECIFICATION FairSpec
CONSTANTS
    Requests = {r1, r2, r3}
    Resources = {w1, w2}
    Free = Free
    RetryCount = 2
INVARIANTS
    MutualExclusion
PROPERTIES
    OnlyOwnerOrTTLRemoves
    EntryAlwaysGoesAway
CHECK_DEADLOCK FALSE
