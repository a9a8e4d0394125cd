SPECIFICATION SiSpec

CONSTANT SasTasks <- MCTasks

INVARIANTS
  NothingIsLost
  GoalIsKept
PROPERTIES
  ImplementsTask
