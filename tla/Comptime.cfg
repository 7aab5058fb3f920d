SPECIFICATION Spec
CONSTANTS
    MaxInt = 50
    FUEL = 36
    MaxDeep = 20
    Programs <- MCPrograms
    Kinds = {"constants", "loops", "calls", "generics"}
INVARIANTS
    MeaningIsKeptUnlessLeftOver
    CalleesComeFirstUnlessShared
    RejectionsAreJustified
    SpecializationsClosedOutsideTexts
CHECK_DEADLOCK FALSE
