SPECIFICATION Spec
CONSTANTS
    alice = alice
    bob = bob
    t1 = t1
    t2 = t2
    None = None
    Users = {alice, bob}
    Transfers = {t1, t2}
    Original <- Paid
    Raises = {d1, d2}
    Reviews = {a1, a2, a3}
    InitBalance <- NothingLeft
    MayStop = TRUE
SYMMETRY Symmetry
INVARIANTS
    MoneyMatchesReversals
    
    VerdictMatchesMoney
PROPERTY VerdictIsFinal
CHECK_DEADLOCK FALSE
