SPECIFICATION AxSpec
CONSTANTS
  SortedAtoms <- MCAtoms
  Programs <- MCPrograms
  Uses <- MCUses
INVARIANTS
  AxiomsKeepMeaning
  EvaluationIsRight
  OnlyRealCyclesFail
