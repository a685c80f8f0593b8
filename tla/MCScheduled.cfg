SPECIFICATION Spec
CONSTANTS
    alice = alice
    bob = bob
    s1 = s1
    s2 = s2
    None = None
    Free = Free
    Users = {alice, bob}
    Schedules = {s1, s2}
    Plan <- Plans
    MaxJobs = 2
    InitBalance <- Funded
    HoldLevels = {0, 2}
    MaxTries = 2
    Concurrency = 2
    MaxMishaps = 1
    MaxSpends = 1
CONSTRAINT FewWhenFailing
INVARIANTS
    BooksAgree
    ProcessingIsAttended
PROPERTIES
    QuietCancelHolds
    ShortByWhatOthersTook
CHECK_DEADLOCK FALSE
