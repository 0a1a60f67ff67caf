--------------------------- MODULE MCDiagnostic ---------------------------
(* A small instance of Diagnostic: one skill that must be answered and one   *)
(* that may be skipped. *)
EXTENDS Diagnostic, TLC

CONSTANTS q1, q2, l1, l2, s1, s2

MCSkills == {"listening", "speaking"}
MCItems == {l1, l2, s1, s2}
MCSkillOf == [i \in MCItems |-> IF i \in {l1, l2} THEN "listening" ELSE "speaking"]
MCTier == (l1 :> "hard") @@ (l2 :> "medium") @@ (s1 :> "easy") @@ (s2 :> "easy")
MCAverages == {30, 60, 95, None}
MCMaxCalls == [o \in BOOLEAN |-> IF o THEN 6 ELSE 8]
MCSymmetry == Permutations({q1, q2}) \cup Permutations({s1, s2})
=============================================================================
