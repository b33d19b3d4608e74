SPECIFICATION Spec
CONSTANTS
    Ids = {i1}
    Deploys = {r1}
    Stops = {s1}
    portMax = 2
    DockerStopFails = FALSE
    MaxRestarts = 0
CHECK_DEADLOCK FALSE
INVARIANTS StoppedIsNotRunning
