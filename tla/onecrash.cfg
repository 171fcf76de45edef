SPECIFICATION Spec
INVARIANTS SingleCrashExclusion
CONSTRAINT ReaderFirst
CONSTANTS
    dNodeCount = 4
    Proc = {"w1", "r1"}
    Reader = {"r1"}
    Timed = {}
    Overlap = {}
    NoUid = ""
    NoReq = NoReq
    Hung = {}
    FaultKinds = {"server"}
    MaxFaults = 1
    Uid <- OwnUid
    uidOf <- OwnUidOf
    Mutex <- OwnMutex
    dmOf <- OwnMutexOf
    Req <- MCReq
    ownerOf <- MCOwnerOf
