SPECIFICATION Spec
CONSTANTS
    Loc <- MCLoc
    Val = {0, 1}
    Env = {e1, e2}
    Prog <- QuietProg
    MaxIter = 1
    MaxEvals = 3
INVARIANTS TypeOK UseSeesStrictValue EvaluatedAtMostOnce ThunkIsCurrent IInv
PROPERTY ImplementsStrictCall
