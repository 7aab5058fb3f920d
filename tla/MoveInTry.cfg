CONSTANTS
  x = x
  Vars <- MCVars
  Paths <- MCPaths
  Whole <- Root
  Under <- MCUnder
  Functions <- HiddenFunctions
  Key <- MCKey
  Places <- MCPlaces
SPECIFICATION MCSpec
INVARIANTS
  AnalysisRejectsUseAfterMove
