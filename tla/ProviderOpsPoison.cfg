CONSTANTS
    Targets <- MCTargets
    MaxFieldEdits = 1
SPECIFICATION FairSpec
PROPERTY BadRecordNeverBlocks
CHECK_DEADLOCK FALSE
