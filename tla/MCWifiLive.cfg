SPECIFICATION Spec
PROPERTIES
    WifiAnswers
    CommandsEnd
CHECK_DEADLOCK FALSE
