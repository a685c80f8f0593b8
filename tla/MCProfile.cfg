SPECIFICATION Spec
CONSTANTS
    Submits = {s1, s2}
    Admins = {a1, a2}
    Pages = {p1, p2}
    Jobs = {j1}
    Events = {e1, e2}
    MaxTries = 2
    MaxCalls = 4
    MaxMishaps = 1
SYMMETRY Symmetry
INVARIANTS
    TierMatchesVerdicts
    MailedOnce
PROPERTY OnlyClickedChanges
CHECK_DEADLOCK FALSE
