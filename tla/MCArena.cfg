SPECIFICATION ArenaSpec
CONSTANTS
  nop = nop
  push = push
  enter = enter
  none = none
  SASOperators <- MCOperators
  InitFacts <- MCInitFacts
  NopName <- nop
  FirstReaction = "r0"
  NoName <- none
  Roots <- MCRoots
  Sat <- MCSat
  Facts <- MCFacts
  Programs <- MCPrograms
  MaxMoves = 6
INVARIANTS
  RulesAreKept
  VerdictIsRight
PROPERTIES
  ExecutesProgram
  ExecutionEnds
