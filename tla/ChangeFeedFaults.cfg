\* Every fault at once, three mutations at most, the page alone.
CONSTANTS
    Instance = {i1, i2}
    Page = page
    Consumer = {page}
    Faults <- MCAllFaults
    MaxWrites = 3
    MaxDrops = 2
    MaxFetches = 1
SPECIFICATION Spec
INVARIANTS TypeOK HandledOnce HealthTruthful
CHECK_DEADLOCK FALSE
