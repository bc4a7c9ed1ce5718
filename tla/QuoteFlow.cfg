\* One operator, requests one after the other.
SPECIFICATION FairSpec
CONSTANTS
    Actors = {t1}
    Plans = {A, B}
    Names = {f, g}
    Text = Text
    None = None
    MaxRequests = 4
    MaxUploads = 2
    Disconnects = FALSE
INVARIANTS
    TypeOK
    MeasuredOfCard
    BetweenRequests
PROPERTIES
    NoSecondCard
    BriefKept
    RequestsEnd
    PromiseKept
CHECK_DEADLOCK FALSE
