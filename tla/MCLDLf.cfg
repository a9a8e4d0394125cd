SPECIFICATION LDLfSpec
CONSTANTS
  nop = nop
  push = push
  enter = enter
  none = none
  SASOperators <- MCOperators
  InitFacts <- MCInitFacts
  NopName <- nop
  FirstReaction = "r0"
  NoName <- none
  Roots <- MCRoots
  Programs <- MCPrograms
  Sat <- MCSat
  Facts <- MCFacts
  MaxLetters = 4
INVARIANTS
  AcceptsRunsAndOneMore
CHECK_DEADLOCK FALSE
