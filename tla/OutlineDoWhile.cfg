SPECIFICATION Spec
CONSTANTS
    Funcs <- DoWhile
    NoBlock = 0
    MaxSteps = 12
INVARIANT DelegateComputesValue
