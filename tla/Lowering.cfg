SPECIFICATION Spec
CONSTANTS
  Programs <- MCPrograms
  MaxPicks <- MCMaxPicks
INVARIANTS
  MeansTheSame
  VerifierAgrees
PROPERTY
  AnswersSuffice
CHECK_DEADLOCK FALSE
