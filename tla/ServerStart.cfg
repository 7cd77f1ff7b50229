SPECIFICATION FairSpec
CONSTANTS
    Client = {c1, c2, c3}
    NoClient = NoClient
INVARIANTS TypeOK FailuresTellProgress
PROPERTIES ClientsReachIdleThread ClientsGoForward
CHECK_DEADLOCK FALSE
