\* Two processes on one journal; one slot is half a day, 1,500 minutes are two.
SPECIFICATION FairSpec
CONSTANTS
    Schedulers = {"daily", "every"}
    Jobs <- MCJobs
    Owner <- MCOwner
    Daily = {"daily"}
    RunNow = {"daily"}
    MaxSilence = 2
    Expect = {}
    Ahead = 1
    MaxFaults = 1
INVARIANTS
    TypeOK
    QuietIsReported
    AlarmHasCause
PROPERTIES
    EveryJobRuns
    AlarmClears
