SPECIFICATION Spec
CONSTANTS
    Site = {s1, s2}
    First = pre_main
    NoSite = nosite
    Marked = {s1, pre_main}
    Arg = {0, 31}
    nargs <- PlainNargs
    Thread = {main}
    Main = main
    Features = {}
    MaxCalls = 3
    MaxEvals = 4
    MaxDepth = 4
    ThrNum = 3
    ThrDen = 5
INVARIANTS TypeOK NoFault ProfileIsExact DumpIsExact RarelyUsedIsTaken WInv
PROPERTY EndCallPopsOwn
CHECK_DEADLOCK FALSE
