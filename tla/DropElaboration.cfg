SPECIFICATION Spec
CONSTANTS
  Vars <- MCVars
  NoRef <- MCNoRef
  Functions <- MCFunctions
INVARIANTS
  UsesFindValues
  ReferencesAreExclusive
  DestroyedInTime
PROPERTY
  LivenessReached
