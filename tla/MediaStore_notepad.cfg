\* One use of the notepad at a time.
CONSTANTS
  Clients = {phone}
  Slots = {s1}
  Threads = {t1}
  Bodies = {b1}
  Photos = {p1}
  Parent <- OneThread
  Owner = owner
  Followers = {f1}
  NoMedia = none
  MaxTaps = 3
  MaxCrashes = 1
SPECIFICATION FairSpec
INVARIANTS BodiesKeepThread NoPartialRecord
PROPERTIES SavesLand OperationsEnd
CHECK_DEADLOCK FALSE
