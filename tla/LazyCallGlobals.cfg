SPECIFICATION Spec
CONSTANTS
    Loc <- MCLoc
    Val = {0, 1}
    Env = {e1}
    Prog <- CalleeProg
    MaxIter = 1
    MaxEvals = 3
INVARIANT UseSeesStrictValue
