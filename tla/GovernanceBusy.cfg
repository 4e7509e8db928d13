\* Two requests, decided proposals reopened, criteria deleted.
SPECIFICATION Spec
CONSTANTS
    p1 = p1
    p2 = p2
    t1 = t1
    t2 = t2
    Proc = {p1, p2}
    Phases = {"build"}
    Tests = {}
    Ops = {"resolve", "unresolve", "delete"}
    MaxTexts = 3
    MaxFiled = 1
    MaxJournal = 3
SYMMETRY Symmetry
INVARIANTS TypeOK SupersededOnRecord SuccessorsOverlap
PROPERTIES AcceptAppliesReviewed
CHECK_DEADLOCK FALSE
