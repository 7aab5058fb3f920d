SPECIFICATION Spec
CONSTANTS
  TypeAt <- TypeAtPlace
  Places <- AllPlaces
  Programs <- MCPrograms
  MaxWrites = 2
INVARIANTS
  CallsResolve
  BindsAsDeclared
  EffectsReachCaller
  BorrowsAreExclusive
