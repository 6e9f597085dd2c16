SPECIFICATION Spec
CONSTANTS
    Funcs <- ShortCircuit
    NoBlock = 0
    MaxSteps = 12
INVARIANT DelegateComputesValue
