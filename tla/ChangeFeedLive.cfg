\* Dropped connections only, under fairness; the page and a child share the stream.
CONSTANTS
    Instance = {i1, i2}
    Page = page
    Consumer = {page, panel}
    Faults = {}
    MaxWrites = 2
    MaxDrops = 2
    MaxFetches = 2
SPECIFICATION FairSpec
INVARIANTS NothingForgotten
PROPERTIES Converges
CHECK_DEADLOCK FALSE
