SPECIFICATION FairSpec
CONSTANTS
    Requests = {r1, r2, r3, r4}
    capacity = 2
    slots = 3
    maxSize = 1
    ResultsCap = 1
    NoRequest = NoRequest
    NoClient = 0
CHECK_DEADLOCK FALSE
INVARIANTS
    BatchInvariant
    OneResultEach
    NoSendAfterClose
    ClientsConserved
    NoneStuck
PROPERTIES
    BatchCompletes
