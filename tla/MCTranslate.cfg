SPECIFICATION TrSpec
CONSTANTS
  Tasks <- MCTasks
  Switches = {TRUE, FALSE}
INVARIANTS
  OneVariantRuns
  AxiomsAgree
  GoalAgrees
PROPERTIES
  ImplementsStrips
