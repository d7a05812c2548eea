CONSTANTS
    b1 = b1
    b2 = b2
    Builds = {b1, b2}
    RawJobs <- MCRawJobs
    IsoJobs <- MCIsoJobs
    UkiJobs <- MCUkiJobs
    Configs <- MCConfigs
    Loops = {l1, l2}
    NoLoop = NoLoop
    NoJob = NoJob
    NoIsoJob = NoIsoJob
    NoUkiJob = NoUkiJob
    Sector = 2
    MB = 4096
SPECIFICATION Spec
INVARIANTS TypeOK RawDiskIsRight LoopDeviceIsMine DiscIsRight UkiIsRight OutputsAreThisBuilds CleansUp
PROPERTY BuildEnds
CHECK_DEADLOCK FALSE
