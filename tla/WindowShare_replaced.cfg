SPECIFICATION Spec
CONSTANT OneThread = TRUE
PROPERTY TakesLive
CHECK_DEADLOCK FALSE
