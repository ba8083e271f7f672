SPECIFICATION Spec
CONSTANTS
    MaxFrame = 3
    MaxStops = 1
    MaxFaults = 1
INVARIANTS OwnPicture WorkIsSignalled
PROPERTIES EveryPictureEnds
CHECK_DEADLOCK FALSE
