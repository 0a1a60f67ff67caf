------------------------------- MODULE MCCards -------------------------------
(* A small instance of Cards and of the daily mix that looks at them: two    *)
(* cards of one language and one of another, and eight contents, of two      *)
(* units and of none.                                                        *)
EXTENDS DailyMix

CONSTANTS bonjour, hello, world, q1, q2

MCCatalogue == <<bonjour, hello, world>>
MCLanguage == [c \in {bonjour, hello, world} |-> IF c = bonjour THEN "fr" ELSE "en"]

Content(skill, minutes, unit, level, premium) ==
    [skill |-> skill, minutes |-> minutes, unit |-> unit, level |-> level, premium |-> premium]

MCCandidates ==
    [s1 |-> Content("speaking", 10, "F1", 1, FALSE),
     s2 |-> Content("speaking", 10, None, 2, FALSE),
     s3 |-> Content("speaking", 10, None, 4, TRUE),
     l1 |-> Content("listening", 8, "F1", 1, FALSE),
     l2 |-> Content("listening", 8, None, 2, TRUE),
     r1 |-> Content("reading", 5, "F1", 1, FALSE),
     r2 |-> Content("reading", 5, "F2", 2, FALSE),
     w1 |-> Content("writing", 8, "F2", 1, FALSE)]

Levels(s, l, r, w) == [speaking |-> s, listening |-> l, reading |-> r, writing |-> w]

MCAsks ==
    [levels : {Levels(1, 1, 1, 1), Levels(3, 2, 1, 4), Levels(4, 4, 4, 2), Levels(3, 4, 4, 4)},
     goal : {"academic", "social", None},
     unfinished : {MixSkills, {"speaking"}, {"speaking", "reading", "writing"}},
     error : {None, "speaking", "listening"},
     entitled : BOOLEAN, easier : BOOLEAN]

MCSymmetry == Permutations({q1, q2})
=============================================================================
