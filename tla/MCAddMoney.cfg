SPECIFICATION Spec
CONSTANTS
    Requests = {r1, r2, r3}
    Shared = Shared
    NoKey = NoKey
    Nobody = Nobody
    Deployments = {"replica", "standalone"}
    Configured = TRUE
    MaxMishaps = 1
SYMMETRY Symmetry
CONSTRAINT FewWhenFailing
INVARIANTS
    CreditMatchesRecord
    AnswersAreTrue
    OneTopUpPerVisit
PROPERTY TopUpsFollowBook
CHECK_DEADLOCK FALSE
