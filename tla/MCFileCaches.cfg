SPECIFICATION Spec
CONSTANTS
    File = {3, 4, 6}
    Restart = {1, 5}
    capacity = 2
    protected_mrus = 0
    penalty = 50
    lir_set_size = 1
    fifo_queue_size = 1
    Types = {"unlimited", "ARC", "LIRS", "BCL", "DCL", "PLRU", "PDCL"}
    WrappedTypes = {"LRU", "DCL"}
    Client = {c1}
    MaxOpen = 1
    MaxWriters = 2
    MaxWaiting = 2
INVARIANTS
    BoundedSacrifice
    PenaltyOnce
    QueuesAgree
PROPERTIES
    KeepsPromise
    EvictsOneUnused
CHECK_DEADLOCK FALSE
