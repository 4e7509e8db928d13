\* Two calls at once, nothing edited by hand: a resolving call overtaken by a kick and a conversion.
CONSTANTS
    p1 = p1
    p2 = p2
    t1 = t1
    t2 = t2
    Proc = {p1, p2}
    Test = {t1}
    MaxIssues = 1
    MaxTasks = 2
    MaxChildren = 0
    MaxEvents = 1
    MaxEdits = 0
    MaxCalls = 5
SPECIFICATION Spec
PROPERTIES NeverForAnotherTask
CHECK_DEADLOCK FALSE
