SPECIFICATION Spec
INVARIANTS ReadersExcludeWriter GrantsBacked StaleLocksBounded
CONSTANTS
    dNodeCount = 3
    Proc = {"w1", "r1"}
    Reader = {"r1"}
    Timed = {}
    Overlap = {}
    NoUid = ""
    NoReq = NoReq
    Hung = {}
    FaultKinds = {"call", "release", "delay", "late", "client"}
    MaxFaults = 1
    Uid <- OwnUid
    uidOf <- OwnUidOf
    Mutex <- OwnMutex
    dmOf <- OwnMutexOf
    Req <- MCReq
    ownerOf <- MCOwnerOf
