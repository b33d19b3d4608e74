SPECIFICATION LiveSpec
CONSTANTS
    Deployments = {"d1"}
    Statuses = {"live", "partial", "restarting", "stopped"}
    MaxChanges = 1
    MaxCommands = 1
    MaxLogins = 2
INVARIANTS PagesInvariant
PROPERTIES RestartIsSeen PagesCatchUp LogsResume
