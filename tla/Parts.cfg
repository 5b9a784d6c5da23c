\* The bounds of the parts but the memtable are in MCParts.
SPECIFICATION PartsSpec
CONSTANTS
  Readers = {"r1"}
  MaxKey = 2
  MaxWrites = 3
  MaxHeight = 2
  MaxReads = 2
  BlockSize = 16
  Align = 2
  EntrySizes = {3}
INVARIANTS MemtableRight CachesRight IteratorsRight LogRight FormatsRight MessagesRight
CHECK_DEADLOCK FALSE
