SPECIFICATION Spec
CONSTANTS
    r1 = r1
    r2 = r2
    k1 = k1
    k2 = k2
    k3 = k3
    None = None
    Requests = {r1, r2}
    Keys = {k1, k2, k3}
    Takes <- MCThreeTakes
    Dialects = {"postgresql", "sqlite"}
    Overlap = "duplicates"
    MaxDay = 2
    MaxReviews = 2
    VocabTarget = 2
    BadgeXp = 100
SYMMETRY MCSymmetry
INVARIANTS
    TypeOK
    LedgerBalances
    CountersMatchHistory
    QuestsMatchHistory
    QuestsPaidOnce
    StreakMatchesHistory
    BadgesMatchHistory
    InsertRaceOnlyWithoutRowLock
PROPERTIES
    RewardsAreLedger
CHECK_DEADLOCK FALSE
