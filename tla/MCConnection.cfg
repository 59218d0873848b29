\* One connection with at most MaxRequests requests, under every TLS mode and retention policy
SPECIFICATION FairSpec
CONSTANT MaxRequests = 2
INVARIANTS
    AuthenticationRetained
    ArtifactsCredentialFree
    DiagnosticsCredentialFree
    RequestsAccounted
    EncryptionHonoured
PROPERTY ConnectionCloses
CHECK_DEADLOCK FALSE
