SPECIFICATION FairSpec
PROPERTIES ImplementsNetLocker TurnsTaken Reconnects
CONSTANTS
    Caller = {"c1", "c2"}
    NoCaller = "none"
    MaxFaults = 3
