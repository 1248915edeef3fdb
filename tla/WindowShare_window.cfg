SPECIFICATION Spec
CONSTANT OneThread = TRUE
INVARIANTS TypeOK OwnCallback GlideKeepsWindow Watched
PROPERTIES WaitsEnd PictureReturns
CHECK_DEADLOCK FALSE
