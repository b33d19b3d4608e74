SPECIFICATION LiveSpec
CONSTANTS
    Repos = {r1, r2}
    MaxDetections = 2
    MaxPosts = 2
INVARIANTS TypeOK RepositoryIsSelected
PROPERTIES DeployIsReviewed OnlyHastyClicksDouble SelectionLeadsToConfig DeployingEnds
