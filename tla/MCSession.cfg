SPECIFICATION FairSpec
CONSTANTS
    t1 = t1
    t2 = t2
    q1 = q1
    q2 = q2
    q3 = q3
    None = None
    Tabs = {t1, t2}
    Requests = {q1, q2, q3}
    TabOf <- TwoTabs
    Life = 1
    LastSecond = 2
    MaxMishaps = 1
INVARIANTS
    OneRefreshPerTab
    StaysSignedIn
PROPERTY RequestsSettle
CHECK_DEADLOCK FALSE
