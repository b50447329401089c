\* Days two and three, one split, one failure of any kind (a bad answer among them).
SPECIFICATION FairSpec
CONSTANTS
    Opening = 2
    Days = 3
    MaxEra = 2
    Requests <- MCRequests
    Tolerance = 0
    Attempts = 2
    MaxFaults = 1
    Torn = Torn
INVARIANTS
    TypeOK
PROPERTIES
    ImplementsRegister
    RewriteIsRecorded
    BackupIsPrevious
    EveryCallerIsServed
