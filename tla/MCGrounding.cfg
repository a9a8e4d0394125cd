SPECIFICATION GroundingSpec

CONSTANT NormTasks <- MCTasks

INVARIANTS
  StepsAreKept
  GoalIsKept
  ParametersAreDistinct
  GroundingIsExact
