SPECIFICATION Spec
CONSTANTS
    Fn = {"f", "g"}
    Call = {"c1", "c2", "c3"}
    Arg = {0, 1, 256}
    Inst = {"u", "v"}
    Indirect = Indirect
    NoInst = NoInst
    Mods <- MCMods
INVARIANTS CallsMatchClones OneThunkPerCall ValuesPreserved DelegatesCallNoThunk OneThunkPerValue LInv
