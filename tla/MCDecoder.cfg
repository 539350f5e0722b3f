SPECIFICATION Spec
CONSTANT Sources <- MCSources
INVARIANTS
    DecodesAsAssembled
    AuipcMisread
CHECK_DEADLOCK FALSE
