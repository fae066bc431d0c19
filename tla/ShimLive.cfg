SPECIFICATION FairSpec
CONSTANTS
    Pids = {p1, p2}
    Launches = {l1}
    Calls = {c1, c2}
    Workers = {w1, w2}
    TaskIds = {t1, t2}
    MaxBoots = 1
    Discipline = "perLaunch"
    IdsCollide = FALSE
    None = None
PROPERTIES
    ShutdownTerminates
    StartSettles
