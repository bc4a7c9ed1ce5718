CONSTANTS
    Tools = {"calculate_quote", "generate_documents", "read_plan", "list_pieces"}
    Calculate = "calculate_quote"
    Documents = "generate_documents"
    ReadPlan = "read_plan"
    ListPieces = "list_pieces"
    MaxIterations = 3
    MaxRetries = 1
    Threshold = 2
    MaxReadPlan = 2
    MaxCalls = 2
SPECIFICATION FairSpec
INVARIANTS TypeOK RetryBound TurnBudget PairedHistory AnsweredOrLimit
PROPERTY TurnEnds
