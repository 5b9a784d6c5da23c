SPECIFICATION Spec
CONSTANTS
 MaxKey = 2
 MaxCalls = 4
 NumLevels = 3
 MaxMemCompactLevel = 1
 CompactionTrigger = 1
 LevelLimit = 2
 TargetFileSize = 1
 GrandParentLimit = 1
 ExpandedLimit = 4
INVARIANT ReadsNewest
CHECK_DEADLOCK FALSE
