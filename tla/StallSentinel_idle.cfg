SPECIFICATION Spec
CONSTANTS
    Threshold = 3
    CheckInterval = 2
    MaxLive = 2
INVARIANT AlarmMeansHeld
