CONSTANTS
  x = x
  Vars <- MCVars
  Paths <- MCPaths
  Whole <- Root
  Under <- MCUnder
  Functions <- LoopingFunctions
  Key <- MCKey
  Places <- MCPlaces
SPECIFICATION MCSpec
PROPERTIES
  FixpointReached
