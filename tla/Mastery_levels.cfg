SPECIFICATION Spec
CONSTANTS
    F1 = F1
    F2 = F2
    F3 = F3
    None = None
    Requests = {q1, q2}
    Answers = {a1, a2}
    Skills <- MCSkills
    UnitSequence <- MCUnits
    Bands <- MCBands
    MaxLevel = 4
    UnitsForLevel <- MCUnitsForLevel
    BandTest = {3}
    RequiredExercises <- MCRequired
    Threshold <- MCThreshold
    Weight <- MCWeight
    Activities <- MCActivities
    Catalogue <- MCCatalogue
    Required <- MCRequiredActivities
    Revised = {"writing"}
    Scores = {20, 95}
    Placements <- MCPlacements
    Sample = 2
    Window = 1
    Published = {F1, F2}
    Cooldown = 1
    MaxNow = 2
    MaxRows = 4
SYMMETRY MCSymmetry
INVARIANTS
    LevelsEarned
    SittingsSpaced
    PassedMatchesSittings
    LearnerViews
CHECK_DEADLOCK FALSE
