----------------------------- MODULE MCPractice -----------------------------
(* A small instance of Practice: two timed readings, one of which nobody can *)
(* score, a hunt, a writing, a drill and a dialogue. *)
EXTENDS Practice, TLC

CONSTANTS story, notice, words, essay, drill, dialogue, q1, q2, a1, a2

MCKind == (story :> "reading") @@ (notice :> "reading") @@ (words :> "hunt")
          @@ (essay :> "writing") @@ (drill :> "speaking") @@ (dialogue :> "listening")
MCUnit == {story, notice, words, essay, drill, dialogue}
MCUnitKind == [c \in MCUnit |-> MCKind[c]]

MCSymmetry == Permutations({q1, q2}) \cup Permutations({a1, a2})
=============================================================================
