SPECIFICATION Spec
CONSTANTS
    None = None
    Columns = {"material"}
    Jobs <- MCJobs
    TextJob <- MCText
    Replies <- MCReplies
    Lengths = {260}
    MaxReads = 2
    MaxEdits = 1
    MaxReopens = 1
INVARIANTS OnceForAll AsAnswered
PROPERTY LengthsAreTheOperators
CHECK_DEADLOCK FALSE
