CONSTANTS
  Users = {alice, bob}
  NoUser = NoUser
  Requests = {r1, r2}
  Kinds = 2
  MaxRequests = 3
  MaxEdits = 1
  MaxLaunches = 2
SPECIFICATION FairSpec
INVARIANTS TypeOK AppAfterProfile LoginOffered
PROPERTIES ReachesApp
CHECK_DEADLOCK FALSE
