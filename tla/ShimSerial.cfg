SPECIFICATION Spec
CONSTANTS
    Pids = {p1, p2, p3}
    Launches = {l1, l2}
    Calls = {c1, c2}
    Workers = {w1, w2}
    TaskIds = {t1, t2}
    MaxBoots = 2
    Discipline = "serial"
    IdsCollide = FALSE
    None = None
SYMMETRY Symmetry
INVARIANTS
    ChildPidsRaceFree
    ShutdownLeavesNothing
