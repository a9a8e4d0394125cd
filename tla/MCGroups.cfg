SPECIFICATION CGSpec
CONSTANTS
  InvTasks <- MCInvTasks
  MaxCandidates = 7
  Encodings = {TRUE, FALSE}
INVARIANTS
  AcceptedArePreserved
  VariablesAreExclusive
  EveryAtomOnce
PROPERTIES
  GroupingEnds
