\* Ceiling 2 and slice 1: the numbers of production (pool 4).
CONSTANTS
    r1 = r1
    r2 = r2
    r3 = r3
    r4 = r4
    k1 = k1
    k2 = k2
    Request = {r1, r2, r3, r4}
    Key = {k1, k2}
    Weight = {1, 2}
    PoolMax = 4
    EventBudget = 3
    MaxWaiters = 2
    MaxTrackedKeys = 2
SPECIFICATION MCSpec
INVARIANTS TypeOK HonestCounters NoServableWaiter LoudKeyLeavesRoom
PROPERTIES KeepsPromise EverySlotComesBack
CHECK_DEADLOCK FALSE
