SPECIFICATION Spec
CONSTANTS
    Binding = {"netcdf", "hdf5", "pnetcdf"}
    Role = {TRUE, FALSE}
    ResultFile = {f1, f2}
    CheckpointFile = {c1}
    Other = other
    Id = {1, 2, 3}
    InResultDir = {TRUE, FALSE}
    MAX_OPEN_FILES = 4
    MaxLock = 2
    MaxCreates = 2
    MaxUncounted = 2
INVARIANTS
    HandlesMatchFiles
    OpenFilesAreLocked
    ClosesAreAnnounced
SYMMETRY Symmetry
CHECK_DEADLOCK FALSE
