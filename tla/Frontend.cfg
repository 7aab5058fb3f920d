SPECIFICATION Spec
CONSTANTS
    Identifiers <- MCIdentifiers
    Capitalised <- MCCapitalised
    MaxErrors = 4
INVARIANTS
    ReadsBackUnlessTransferred
    OffsideRule
    ReportIsFaithful
PROPERTY ReportEndsUnlessStuckInside
\* A report that is done is done.
CHECK_DEADLOCK FALSE
