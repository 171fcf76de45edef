SPECIFICATION FairSpec
PROPERTIES ImplementsPairRWLock NoOvertaking WriterGetsIn
CONSTANTS
    Proc = {"w1", "w2", "r1", "r2"}
    Reader = {"r1", "r2"}
