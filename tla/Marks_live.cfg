CONSTANTS
  Slots = {s1, s2}
  MaxVisits = 2
  MaxTaps = 4
  MaxCrashes = 1
SPECIFICATION FairSpec
INVARIANTS TypeOK MarksExplained ButtonsAgree
PROPERTIES ButtonsSettle
CHECK_DEADLOCK FALSE
