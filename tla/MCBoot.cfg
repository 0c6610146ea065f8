SPECIFICATION Spec
INVARIANTS TypeOK RunningIsConnected GivesUpOnlyFor
PROPERTIES NoFaultOnceRunning BootEnds
CHECK_DEADLOCK FALSE
