SPECIFICATION FairSpec
CONSTANTS
    Capacity = 2
    Answers <- AllAnswers
    Scripts <- MCScripts
CHECK_DEADLOCK FALSE
INVARIANTS
    FramesWhole
    SwitchAfterHandshake
    WrappedUntilFinished
PROPERTY
    HandshakeCompletes
