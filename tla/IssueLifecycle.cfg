\* Two calls at once; one child Spec, two tasks, every edit.
CONSTANTS
    p1 = p1
    p2 = p2
    t1 = t1
    t2 = t2
    Proc = {p1, p2}
    Test = {t1, t2}
    MaxIssues = 2
    MaxTasks = 2
    MaxChildren = 1
    MaxEvents = 2
    MaxEdits = 1
    MaxCalls = 5
SPECIFICATION Spec
SYMMETRY Symmetry
INVARIANTS TypeOK 
PROPERTIES ResolvesOnEvidence
CHECK_DEADLOCK FALSE
