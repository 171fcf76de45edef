SPECIFICATION ChaosSpec
PROPERTIES StaleLocksGo
CHECK_DEADLOCK FALSE
CONSTANTS
    Tests = {"clientCrashes", "readersCrash", "multipleStaleAfter"}
    dNodeCount = 4
    Proc = {"dm", "dm2", "stale", "reader3", "reader4"}
    Reader = {"reader3", "reader4"}
    Timed = {}
    Overlap = {}
    NoUid = ""
    NoReq = NoReq
    Hung = {}
    FaultKinds = {"server", "client"}
    MaxFaults = 9
    Uid <- ChaosUid
    uidOf <- ChaosUidOf
    Mutex <- OwnMutex
    dmOf <- OwnMutexOf
    Req <- MCReq
    ownerOf <- MCOwnerOf
