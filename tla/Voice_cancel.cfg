SPECIFICATION Spec
CONSTANTS
    t1 = t1
    t2 = t2
    t3 = t3
    w1 = w1
    w2 = w2
    Reader = Reader
    None = None
    Turns = {t1, t2, t3}
    Watchers = {w1, w2}
    MaxFrames = 4
INVARIANT CancelStopsTheTurn
CHECK_DEADLOCK FALSE
