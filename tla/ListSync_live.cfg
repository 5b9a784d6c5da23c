CONSTANTS
  Entries = {1, 2}
  PageSize = 2
  MaxTaps = 2
  MaxChanges = 2
  MaxEdits = 1
  MaxFails = 1
SPECIFICATION FairSpec
INVARIANTS TypeOK StaleExplained WindowShown OnePagePerTap
PROPERTIES PageOpens
CHECK_DEADLOCK FALSE
