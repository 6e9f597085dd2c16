SPECIFICATION Spec
CONSTANTS
    Funcs <- Sliced
    NoBlock = 0
    MaxSteps = 12
INVARIANTS TypeOK GatesAreConditional SliceIsClosed WalkInv RunInv
           GuidedDelegateComputesValue GatedDelegateComputesValue StraightDelegateComputesValue
PROPERTY WalkEnds
