SPECIFICATION Spec
CONSTANTS
    Users = {"patient", "hasty"}
    MaxTaps = 4
    MaxRecordings = 2
    MaxFinishes = 2
INVARIANTS
    MicrophoneHeld
    ButtonFollowsServer
PROPERTY
    FinishSettles
CHECK_DEADLOCK FALSE
