SPECIFICATION FairSpec
INVARIANTS GrantsBacked
PROPERTIES CallsReturn EventuallyVacant WaiterAcquires
CONSTANTS
    dNodeCount = 2
    Proc = {"w1", "r1"}
    Reader = {"r1"}
    Timed = {"r1"}
    Overlap = {"w1"}
    NoUid = ""
    NoReq = NoReq
    Hung = {}
    FaultKinds = {}
    MaxFaults = 0
    Uid <- SharedUid
    uidOf <- SharedUidOf
    Mutex <- SharedMutex
    dmOf <- SharedMutexOf
    Req <- MCReq
    ownerOf <- MCOwnerOf
