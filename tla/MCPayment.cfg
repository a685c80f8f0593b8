SPECIFICATION Spec
CONSTANTS
    alice = alice
    o1 = o1
    None = None
    Users = {alice}
    Orders = {o1, o2}
    Owner <- AllAlices
    Value <- OneTwo
    Verifies = {v1, v2}
    Deliveries = {w1, w2}
    Mongo = "replica"
    Forgeable = {o1}
    Busy = {alice}
    Faults = {"crash", "mongo"}
SYMMETRY Symmetry
INVARIANTS
    MoneyMatchesOrders
    SuccessIsTold
    RaceHasAWinner
PROPERTY OrdersFollowBook
CHECK_DEADLOCK FALSE
