CONSTANTS
  Count = {0, 1, 2}
  Impls = {"c", "py"}
  NoBody = NoBody
  MaxLate = 2
SPECIFICATION FairSpec
CHECK_DEADLOCK FALSE
INVARIANTS TypeOK Fresh OfflineLast
PROPERTIES Debounced  Ended
