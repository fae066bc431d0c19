SPECIFICATION Spec
CONSTANTS
    old = old
    new = new
    None = None
    Workers = {w1, w2, w3}
    Projects = {a, b}
    Launches = {old, new}
    Since <- MCSince
    MaxCommits = 2
    Requirements = {a}
    Venvs <- BothVenvs
    Ros2Script = TRUE
    Waits = "all"
CHECK_DEADLOCK FALSE
INVARIANTS
    TypeOK
    LaunchesInOwnVenv
    DependenciesInstalled
PROPERTIES
    FreshBuildIsCurrent
    ImplementsDeployments
