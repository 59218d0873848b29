CONSTANTS
    Captures <- MCCaptures
    Contents <- MCContents
    Content <- MCContent
    Oversized <- MCOversized
    MaxCrashes = 1
SPECIFICATION StoreSpec
INVARIANTS
    PublishedIsComplete
    OkLeavesNoStaging
PROPERTY
    ImplementsContentStore
CHECK_DEADLOCK FALSE
