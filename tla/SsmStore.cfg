SPECIFICATION Spec
CONSTANTS
    t1 = t1  t2 = t2  main = main  nobody = nobody
    u1 = u1  u2 = u2  b1 = b1
    Threads <- MCThreads
    Main = main
    Nobody = nobody
    UiCells <- MCUiCells
    InDb <- MCInDb
    WbCells = {}
    ByteCells = {b1}
    NewConfig = TRUE
    MaxJobs = 3
    MaxCrash = 1
INVARIANTS TypeOK AcceptedIsComplete FlagMeansData
PROPERTIES ReadMeansData CallsEnd Settles
CHECK_DEADLOCK FALSE
