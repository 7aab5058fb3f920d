CONSTANTS
  Files <- MCFiles
  Readable <- MCReadable
  Entry = "main"
  Names <- MCNames
  Public <- MCPublic
  Paths <- MCPaths
  Mangle <- MCMangle
  Programs <- MCPrograms
SPECIFICATION Spec
INVARIANTS
  DependenciesFirst
  LinkedUnlessCyclicOrWrong
  ExportsAreExact
PROPERTIES
  LinkingEnds
