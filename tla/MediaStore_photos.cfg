CONSTANTS
  Clients = {phone}
  Slots = {s1}
  Threads = {t1}
  Bodies = {}
  Photos = {p1}
  Parent <- OneThread
  Owner = owner
  Followers = {}
  NoMedia = none
  MaxTaps = 3
  MaxCrashes = 0
SPECIFICATION Spec
INVARIANTS PhotosKeepThread
CHECK_DEADLOCK FALSE
