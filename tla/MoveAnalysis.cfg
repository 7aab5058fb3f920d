CONSTANTS
  x = x
  Vars <- MCVars
  Paths <- MCPaths
  Whole <- Root
  Under <- MCUnder
  Functions <- MCFunctions
  Key <- MCKey
  Places <- MCPlaces
SPECIFICATION MCSpec
INVARIANTS
  TypeOK
  AcceptedNeverTouchesMoved
  ReportsFromFixpoint
  AcceptedFactsAreExact
  RejectionsAreJustified
  TreeDenotesMap
PROPERTIES
  SweepsEndUnlessUnsteady
