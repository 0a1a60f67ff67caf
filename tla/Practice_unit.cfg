SPECIFICATION Spec
CONSTANTS
    story = story
    notice = notice
    words = words
    essay = essay
    drill = drill
    dialogue = dialogue
    q1 = q1
    q2 = q2
    a1 = a1
    a2 = a2
    None = None
    Requests = {q1, q2}
    Contents <- MCUnit
    Kind <- MCUnitKind
    Timed = {story, notice}
    Deferred = {notice}
    Required = {story, words, drill, dialogue}
    Answers = {a1, a2}
    Clients = {"patient", "hasty"}
    MaxCalls = 5
SYMMETRY MCSymmetry
INVARIANTS
    OneStartedAttempt
    EvidenceOnce
    RevisionsBounded
    SummariesFollowSubmits
CHECK_DEADLOCK FALSE
