SPECIFICATION BothSpec
INVARIANTS ArraysSound ServersAgree
PROPERTIES ImplementsLockService CountingImplementsLockService
CONSTANTS
    Uid <- MCUid
    Resource <- MCResource
    NoUid = ""
    OneUid = "u1"
    MaxEntries = 3
