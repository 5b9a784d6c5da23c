\* Users tap, edit their profiles and kill the app, three times each in all.
CONSTANTS
  Users = {alice, bob}
  Slots = {s1}
  MaxTaps = 3
  MaxEdits = 1
  MaxCrashes = 1
SPECIFICATION MCSpec
INVARIANTS TypeOK Consent PairAgreement
PROPERTIES ImplementsContract Converges ButtonSettles
CHECK_DEADLOCK FALSE
