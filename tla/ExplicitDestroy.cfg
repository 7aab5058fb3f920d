SPECIFICATION MCSpec
CONSTANTS
    types <- MCTypes
    destructors <- MCDestructors
    Kinds = {"straight", "branches", "scopes", "loops", "tries", "expressions"}
INVARIANTS
    ObligationsAreExact
    AcceptedIsSafe
    RejectionsAreJustified
CHECK_DEADLOCK FALSE
