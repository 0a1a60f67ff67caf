SPECIFICATION Spec
CONSTANTS
    q1 = q1
    q2 = q2
    l1 = l1
    l2 = l2
    s1 = s1
    s2 = s2
    None = None
    Requests = {q1, q2}
    Skills <- MCSkills
    Skippable = {"speaking"}
    Items <- MCItems
    SkillOf <- MCSkillOf
    Tier <- MCTier
    ItemsPerSkill = 2
    Averages <- MCAverages
    Overlaps = {TRUE, FALSE}
    MaxCalls <- MCMaxCalls
SYMMETRY MCSymmetry
INVARIANTS
    PlacementFromAnswers
    PlacementKept
CHECK_DEADLOCK FALSE
