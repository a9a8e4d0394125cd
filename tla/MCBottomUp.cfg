SPECIFICATION UpSpec
CONSTANTS
  act_a = act_a
  act_b = act_b
  act_c = act_c
  unknown = unknown
  Roots <- MCRoots
  ActionNames <- MCActionNames
  States <- MCStates
  Sat <- MCSat
  Pre <- MCPre
INVARIANTS
  ConstructionsAgree
  ClosedIfLinear
  OutcomeIsExplained
