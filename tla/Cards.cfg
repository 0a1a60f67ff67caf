SPECIFICATION Spec
CONSTANTS
    bonjour = bonjour
    hello = hello
    world = world
    q1 = q1
    q2 = q2
    None = None
    Requests = {q1, q2}
    Catalogue <- MCCatalogue
    Language <- MCLanguage
    Languages = {"en", "fr"}
    Limits = {1, 2, 3}
    Clients = {"patient", "hasty"}
    Intervals = {0, 2}
    Day = 3
    MaxNow = 1
    MaxCalls = 5
    Candidates <- MCCandidates
    CurrentUnit = "F1"
    Available = 20
    Asks <- MCAsks
SYMMETRY MCSymmetry
INVARIANTS
    PackWhole
    CardFollowsAnswers
    MixServesLearner
CHECK_DEADLOCK FALSE
