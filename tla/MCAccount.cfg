SPECIFICATION Spec
CONSTANTS
    AuthRequests = {r1, r2, r3}
    MaxSecrets = 2
    MaxMishaps = 1
SYMMETRY Symmetry
INVARIANTS
    SignedInIsReady
    NewestMailWorks
    LinkIsUsedOnce
CHECK_DEADLOCK FALSE
