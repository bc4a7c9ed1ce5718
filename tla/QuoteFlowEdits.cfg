\* A message after a reopening reads the plan again over the corrections.
SPECIFICATION Spec
CONSTANTS
    Actors = {t1}
    Plans = {A, B}
    Names = {f, g}
    Text = Text
    None = None
    MaxRequests = 6
    MaxUploads = 2
    Disconnects = FALSE
PROPERTY
    EditsKept
CHECK_DEADLOCK FALSE
