SPECIFICATION FairSpec
PROPERTIES CallsReturn
CHECK_DEADLOCK FALSE
CONSTANTS
    dNodeCount = 3
    Proc = {"w1"}
    Reader = {}
    Timed = {"w1"}
    Overlap = {}
    NoUid = ""
    NoReq = NoReq
    Hung = {3}
    FaultKinds = {}
    MaxFaults = 0
    Uid <- OwnUid
    uidOf <- OwnUidOf
    Mutex <- OwnMutex
    dmOf <- OwnMutexOf
    Req <- MCReq
    ownerOf <- MCOwnerOf
