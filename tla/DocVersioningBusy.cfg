\* Artifacts are written while cuts and restores run; requests may crash.
SPECIFICATION Spec
CONSTANTS
    p1 = p1
    p2 = p2
    Proc = {p1, p2}
    Tables <- MCTables
    Prunable <- MCPrunable
    HardDeletable <- MCPrunable
    Hanging = {}
    Unwritten = {}
    QuietWriters = FALSE
    MaxVersion = 4
    MaxWrites = 2
SYMMETRY Symmetry
INVARIANTS Numbering
PROPERTIES AppendOnlyHistory RestoreLosesOnlyLateWrites CutStrandsOnlyLateWrites RestoreLeavesNothingStale
CHECK_DEADLOCK FALSE
