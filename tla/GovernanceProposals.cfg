\* Two requests propose, decide, override and close.
SPECIFICATION Spec
CONSTANTS
    p1 = p1
    p2 = p2
    t1 = t1
    t2 = t2
    Proc = {p1, p2}
    Phases = {"build"}
    Tests = {}
    Ops = {"resolve"}
    MaxTexts = 3
    MaxFiled = 2
    MaxJournal = 2
SYMMETRY Symmetry
INVARIANTS ProposalsOverlap SupersessionIsWhole OverridesClearWhatTheyCount
PROPERTIES GateMissesOnlyLateProposals
CHECK_DEADLOCK FALSE
