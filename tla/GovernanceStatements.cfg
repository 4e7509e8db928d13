\* Edits and moves of two requests, with tests and sign-offs.
SPECIFICATION Spec
CONSTANTS
    p1 = p1
    p2 = p2
    t1 = t1
    t2 = t2
    Proc = {p1, p2}
    Phases = {"build"}
    Tests = {t1}
    Ops = {"age", "sign", "retire"}
    MaxTexts = 2
    MaxFiled = 0
    MaxJournal = 3
SYMMETRY Symmetry
PROPERTIES FrozenButForOvertaken ProvenButForOvertaken ReopenedOnRecordOrOvertaken
CHECK_DEADLOCK FALSE
