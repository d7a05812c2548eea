SPECIFICATION Spec
CONSTANTS
    Envs <- MCEnvs
    Percents <- MCPercents
    MaxOps = 2
    MaxToggles = 1
INVARIANTS TypeOK SessionsReturned InstallBootStarted FinalizeDelivers
PROPERTIES ProgressInWindow OperationEnds KeepsPromise
CHECK_DEADLOCK FALSE
