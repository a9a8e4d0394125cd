SPECIFICATION BMSpec

CONSTANT Programs <- MCPrograms

INVARIANTS
  SplitKeepsModel
  UnifierIsExact
  ModelIsLeast
