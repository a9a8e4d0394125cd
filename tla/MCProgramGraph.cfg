SPECIFICATION PGSpec
CONSTANTS
  act_a = act_a
  act_b = act_b
  act_c = act_c
  NoAction = NoAction
  Stuck = Stuck
  ActionNames <- MCActionNames
  States <- MCStates
  Sat <- MCSat
  Pre <- MCPre
  Roots <- MCRoots
  Programs <- MCPrograms
  Succs <- MCSuccs
  Depth <- MCDepth
INVARIANTS
  IInv
  NeverCrashes
  ResultIsComplete
  QueuedOnce
  FunctionsDescribeProgram
PROPERTIES
  PublishedValuesAreStable
  ConstructionEnds
  ImplementsGolog
