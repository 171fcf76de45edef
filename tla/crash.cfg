SPECIFICATION Spec
INVARIANTS TypeOK WritersExclude NoPanic NoStaleLocks GrantsBacked
SYMMETRY WriterSymmetry
CONSTANTS
    dNodeCount = 2
    Proc = {w1, w2, r1}
    Reader = {r1}
    Timed = {}
    Overlap = {}
    NoUid = ""
    NoReq = NoReq
    Hung = {}
    FaultKinds = {"server", "late"}
    MaxFaults = 1
    Uid <- SharedUid
    uidOf <- SharedUidOf
    Mutex <- SharedMutex
    dmOf <- SharedMutexOf
    Req <- MCReq
    ownerOf <- MCOwnerOf
