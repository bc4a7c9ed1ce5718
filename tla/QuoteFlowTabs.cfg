\* Two tabs at work on one quote, which may close in the middle of a turn.
SPECIFICATION Spec
CONSTANTS
    Actors = {t1, t2}
    Plans = {A, B}
    Names = {f, g}
    Text = Text
    None = None
    MaxRequests = 3
    MaxUploads = 2
    Disconnects = TRUE
INVARIANTS
    SourcesOnDisk
SYMMETRY Symmetry
CHECK_DEADLOCK FALSE
