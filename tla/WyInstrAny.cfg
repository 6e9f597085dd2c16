SPECIFICATION Spec
CONSTANTS
    Site = {s1}
    First = pre_main
    NoSite = nosite
    Marked = {s1, pre_main}
    Arg = {0}
    nargs <- SmallNargs
    Thread = {main, worker}
    Main = main
    Features = {"retuse", "phi", "unwind", "extern", "callback"}
    MaxCalls = 2
    MaxEvals = 2
    MaxDepth = 2
    ThrNum = 3
    ThrDen = 5
INVARIANTS NoEvaluationLost NoUseLost
CHECK_DEADLOCK FALSE
