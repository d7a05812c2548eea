SPECIFICATION Spec
CONSTANTS
    Jobs <- MCJobs
    Files <- MCFiles
    h1 = h1
    h2 = h2
    o1 = o1
    Handler = {h1, h2}
    Op = {o1}
    NoRow = NoRow
    MaxRetries = 1
    MaxFaults = 1
CHECK_DEADLOCK FALSE
INVARIANTS TypeOK CRIsAccountedFor CancelSticks ReadyIsComplete BuildComesToRest
PROPERTIES GoroutinesEnd
