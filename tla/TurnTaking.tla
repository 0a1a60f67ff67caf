----------------------------- MODULE TurnTaking -----------------------------
(***************************************************************************)
(* What a voice session promises the learner: the tutor takes one turn at  *)
(* a time, every turn quotes the learner once and answers once before it   *)
(* speaks, and a learner who is being listened to gets a turn.             *)
(***************************************************************************)
EXTENDS Naturals

VARIABLES phase,  \* where the conversation is
          said    \* entries in its transcript

vars == <<phase, said>>

Init == phase = "idle" /\ said = 0

Move(from, to) == phase \in from /\ phase' = to

Hear == Move({"idle"}, "listening") /\ UNCHANGED said
TakeTurn == Move({"idle", "listening"}, "transcribing") /\ UNCHANGED said
Quote == Move({"transcribing"}, "answering") /\ said' = said + 1
Answer == Move({"answering"}, "answered") /\ said' = said + 1
Speak == Move({"answered"}, "speaking") /\ UNCHANGED said
Rest == Move({"speaking"}, "idle") /\ UNCHANGED said

\* The learner ends the session or is gone.
End == phase # "over" /\ phase' = "over" /\ said' = 0

Next == Hear \/ TakeTurn \/ Quote \/ Answer \/ Speak \/ Rest \/ End

\* A conversation rests only when it is idle or over.
Advance ==
    \/ phase = "listening" /\ TakeTurn
    \/ Quote \/ Answer \/ Speak \/ Rest

\* What it never does, and what it gets done.
Safety == Init /\ [][Next]_vars
Spec == Safety /\ WF_vars(Advance)
=============================================================================
