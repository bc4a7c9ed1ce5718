\* Two tabs, every request, every failure.
SPECIFICATION Spec
CONSTANTS
    Users = {t1, t2}
    Offers = {"validate", "generate", "regenerate", "chat", "status", "patch", "delete"}
    Clients = {c, d}
    None = None
    MaxRequests = 3
INVARIANTS
    TypeOK
    PdfServed
PROPERTIES
    CleanServes
    RegenerateHeals
CHECK_DEADLOCK FALSE
