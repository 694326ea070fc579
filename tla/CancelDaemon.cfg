SPECIFICATION FairSpec
CONSTANTS
    Cancels = {1, 2, 3}
    Orphans = {3}
    Daemons = {d1, d2}
    MaxLen = 2
    Faults = 2
INVARIANTS TypeOK AckOnlyRecorded RecordedOnce
PROPERTIES ReadsOn
CONSTRAINT InOrder
