SPECIFICATION CGSpec
CONSTANTS
  InvTasks <- ConstantTasks
  MaxCandidates = 7
  Encodings = {TRUE, FALSE}
INVARIANT VariablesAreExclusive
