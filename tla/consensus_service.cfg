SPECIFICATION Spec
CONSTANTS
    MaxTick = 2
    TickTockBufferSize = 1
    MaxStarts = 2
INVARIANT StopsOnce
PROPERTIES ImplementsTimeouts NewestFires AllStop
CHECK_DEADLOCK FALSE
