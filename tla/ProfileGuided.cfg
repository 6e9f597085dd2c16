SPECIFICATION Spec
CONSTANTS
    Site = {s1}
    First = pre_main
    NoSite = nosite
    Marked = {}
    Arg = {0}
    nargs <- PlainNargs
    Thread = {main}
    Main = main
    Features = {}
    MaxCalls = 1
    MaxEvals = 1
    MaxDepth = 2
    ThrNum = 2
    ThrDen = 5
INVARIANT SelectedIsRarelyUsed
CHECK_DEADLOCK FALSE
