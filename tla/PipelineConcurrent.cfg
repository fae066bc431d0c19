SPECIFICATION Spec
CONSTANTS
    old = old
    new = new
    None = None
    Workers = {w1, w2, w3}
    Projects = {a, b}
    Launches = {old, new}
    Since <- MCSince
    MaxCommits = 2
    Requirements = {a, b}
    Venvs <- OnlyVenv
    Ros2Script = FALSE
    Waits = "project"
CHECK_DEADLOCK FALSE
PROPERTIES
    WorkIsKept
