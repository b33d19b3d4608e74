SPECIFICATION LiveSpec
CONSTANTS
    Requests = {r1, r2}
    Hosts = {"app", "custom", "www"}
    InfraHosts = {"www"}
    UnnamedHosts = {"custom"}
    Deployments = {"d1"}
    DeploymentOf <- MCDeploymentOf
    Statuses = {"live", "sleeping", "waking", "stopped"}
    BackendLists <- MCBackendLists
    CACHE_TTL = 1
    MaxTurns = 2
    MaxChanges = 1
INVARIANTS TypeOK EvenSpread
PROPERTIES VisitorIsServed
