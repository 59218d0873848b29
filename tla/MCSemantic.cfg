SPECIFICATION Spec
CONSTANTS
    Statements <- MCStatements
    Databases = {"db0", "db1"}
    LoginName = "login"
    LoginDatabase = "db0"
    DepthMax = 1
    MaxBatch = 2
    MaxRequests = 2
CHECK_DEADLOCK FALSE
INVARIANTS
    EventsTellSession
    IdentityUnwinds
