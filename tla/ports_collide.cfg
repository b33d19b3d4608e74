SPECIFICATION Spec
CONSTANTS
    Ids = {i1, i2}
    Deploys = {r1, r2}
    Stops = {s1}
    portMax = 2
    DockerStopFails = FALSE
    MaxRestarts = 0
CHECK_DEADLOCK FALSE
INVARIANTS PortsDoNotCollide
