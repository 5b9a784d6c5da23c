\* Two devices of one account.
CONSTANTS
  Clients = {phone, tablet}
  Slots = {s1}
  Threads = {t1}
  Bodies = {b1}
  Photos = {}
  Parent <- OneThread
  Owner = owner
  Followers = {}
  NoMedia = none
  MaxTaps = 2
  MaxCrashes = 1
SPECIFICATION Spec
SYMMETRY Symmetry
INVARIANTS TypeOK IndexBacked StaysGone JournalComplete NewsLeadSomewhere
PROPERTY ImplementsContract
CHECK_DEADLOCK FALSE
