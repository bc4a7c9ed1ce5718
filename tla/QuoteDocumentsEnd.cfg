\* Every pair of requests, from one tab or two, comes to an end.
SPECIFICATION FairSpec
CONSTANTS
    Users = {t1, t2}
    Offers = {"validate", "generate", "regenerate", "chat", "status", "patch", "delete"}
    Clients = {c, d}
    None = None
    MaxRequests = 2
PROPERTIES
    RequestsEnd
CHECK_DEADLOCK FALSE
