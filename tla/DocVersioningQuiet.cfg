\* Cuts and restores race each other; tasks and the comments on them are written between them.
SPECIFICATION Spec
CONSTANTS
    p1 = p1
    p2 = p2
    Proc = {p1, p2}
    Tables <- TasksAndComments
    Prunable = {"comments"}
    HardDeletable = {"tasks", "comments"}
    Hanging = {"comments"}
    Unwritten = {}
    QuietWriters = TRUE
    MaxVersion = 4
    MaxWrites = 3
SYMMETRY Symmetry
INVARIANTS TypeOK
PROPERTIES RestoreMaterialisesSource RestoreKeepsTargets
CHECK_DEADLOCK FALSE
