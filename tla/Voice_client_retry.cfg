SPECIFICATION Spec
CONSTANTS
    Users = {"patient", "hasty"}
    MaxTaps = 2
    MaxRecordings = 1
    MaxFinishes = 2
INVARIANT
    RetryIsReplayed
CHECK_DEADLOCK FALSE
