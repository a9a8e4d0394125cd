SPECIFICATION DomainSpec
CONSTANTS
  nop = nop
  pick = pick
  drop = drop
  none = none
  SASOperators <- MCOperators
  InitFacts <- MCInitFacts
  NopName <- nop
  FirstReaction = "r0"
  NoName <- none
INVARIANTS
  EveryOutcomePlayable
  NobodyIsForced
PROPERTIES
  ImplementsFond
