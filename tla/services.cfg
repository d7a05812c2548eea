CONSTANTS
    Target = {t1, t2}
    Worker = {w1, w2}
    MaxEdits = 2
    Deploy = {d1, d2}
    DeployTimeout = 2
    Slack = 1
    MaxNow = 4
    Process = {p1, p2, p3}
    NoProcess = NoProcess
SPECIFICATION Spec
INVARIANTS TypeOK TargetsInOrder TokenFollowsDeployment RunningServerIsManaged
PROPERTIES ServicesComeFree
CHECK_DEADLOCK FALSE
