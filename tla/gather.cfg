SPECIFICATION Spec
CONSTANTS
  Objects <- MCObjects
  Kinds <- MCKinds
  Group <- MCGroup
  Verbs <- MCVerbs
  Namespaced = {"maps", "logs", "events"}
  Subresources = {"logs"}
  Selectors <- MCSelectors
  Limit = 1
  Faulty = TRUE
  MaxChanges = 2
CHECK_DEADLOCK FALSE
INVARIANTS
  OnlySelected
  NothingMissed
