SPECIFICATION Spec
CONSTANTS
    Capacity = 2
    Answers <- MCAnswers
    Scripts <- RetryScripts
CHECK_DEADLOCK FALSE
INVARIANT
    SwitchAfterHandshake
