\* Waits, deadlocks and crashes: every request ends.
SPECIFICATION FairSpec
CONSTANTS
    p1 = p1
    p2 = p2
    Proc = {p1, p2}
    Tables <- MCTables
    Prunable <- MCPrunable
    HardDeletable <- MCPrunable
    Hanging = {}
    Unwritten = {}
    QuietWriters = FALSE
    MaxVersion = 4
    MaxWrites = 1
PROPERTIES EveryRequestEnds
CHECK_DEADLOCK FALSE
