SPECIFICATION ConfigSpec
CHECK_DEADLOCK FALSE
INVARIANT FailedEnableRolledBack
