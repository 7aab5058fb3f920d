CONSTANTS
  MaxFrames = 5
  MaxTries = 2
SPECIFICATION Spec
INVARIANTS
  FramesAreOwned
  ReturnsReachCallerUnlessLeaked
  RefsResolveUnlessHeldOrLeaked
PROPERTIES
  FinallyRunsUnlessCleanupFails
