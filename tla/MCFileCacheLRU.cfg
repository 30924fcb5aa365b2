SPECIFICATION Spec
CONSTANTS
    File = {f1, f2, f3}
    Client = {c1}
    capacity = 2
    MaxLock = 2
    MaxUsed = 2
INVARIANTS
    OneDescriptor
    FilesArePresent
    WaitersAreKnown
PROPERTIES
    KeepsPromise
CHECK_DEADLOCK FALSE
