SPECIFICATION Spec
INVARIANTS GrantsBacked NoPanic
PROPERTIES ImplementsRWLock
CONSTANTS
    dNodeCount = 2
    Proc = {"w1", "r1", "r2"}
    Reader = {"r1", "r2"}
    Timed = {"r1"}
    Overlap = {}
    NoUid = ""
    NoReq = NoReq
    Hung = {}
    FaultKinds = {}
    MaxFaults = 0
    Uid <- SharedUid
    uidOf <- SharedUidOf
    Mutex <- SharedMutex
    dmOf <- SharedMutexOf
    Req <- MCReq
    ownerOf <- MCOwnerOf
