SPECIFICATION Spec
CONSTANTS
    Fn = {"f", "g"}
    Block = {"entry", "p", "q", "exit"}
    Arg = {0, 1}
    Mods <- AllMods
    Indirect = Indirect
INVARIANTS TypeOK PromisingIsExact PromisingIsSound CandidatesFound FInv
PROPERTY Terminates
