SPECIFICATION LiveSpec
CONSTANTS
    Ids = {i1, i2}
    Deploys = {r1, r2}
    Stops = {s1, s2}
    portMax = 2
    DockerStopFails = TRUE
    MaxRestarts = 1
CHECK_DEADLOCK FALSE
INVARIANTS TypeOK InProgressHasWorker LiveIsNotTakenDown ContainersAreKnown
PROPERTIES DeploysSettle
