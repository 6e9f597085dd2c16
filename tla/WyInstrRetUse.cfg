SPECIFICATION Spec
CONSTANTS
    Site = {s1}
    First = pre_main
    NoSite = nosite
    Marked = {s1}
    Arg = {0, 1}
    nargs <- PlainNargs
    Thread = {main}
    Main = main
    Features = {"retuse"}
    MaxCalls = 1
    MaxEvals = 1
    MaxDepth = 2
    ThrNum = 3
    ThrDen = 5
INVARIANT ProfileIsExact
CHECK_DEADLOCK FALSE
