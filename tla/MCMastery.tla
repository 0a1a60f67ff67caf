------------------------------ MODULE MCMastery ------------------------------
(* A small instance of Mastery: one unit for each of two levels, a third     *)
(* level that asks for a band test, and a writing of the second unit that     *)
(* names no level and counts at the learner's own.                            *)
EXTENDS Mastery, TLC

CONSTANTS F1, F2, F3

MCSkills == {"speaking", "writing"}
MCUnits == <<F1, F2, F3>>
MCBands == <<{F1, F2}, {F3}>>
MCUnitsForLevel == <<{F1}, {F2}, {F3}, {}>>
MCRequired == <<1, 1, 1, 1>>
MCThreshold == <<60, 65, 70, 70>>
MCWeight == [s \in MCSkills |-> IF s = "speaking" THEN 60 ELSE 40]

MCActivities == {"speak1", "write1", "speak2", "write2"}
MCCatalogue ==
    [a \in MCActivities |->
        [skill |-> IF a \in {"speak1", "speak2"} THEN "speaking" ELSE "writing",
         unit |-> IF a \in {"speak1", "write1"} THEN F1 ELSE F2,
         level |-> CASE a = "write2" -> None [] a = "speak2" -> 2 [] OTHER -> 1]]
MCRequiredActivities == [u \in {F1, F2, F3} |-> {a \in MCActivities : MCCatalogue[a].unit = u}]

MCPlacements == {[s \in MCSkills |-> 1],
                 [s \in MCSkills |-> IF s = "speaking" THEN 2 ELSE 4]}

MCSymmetry == Permutations(Requests) \cup Permutations(Answers)
=============================================================================
