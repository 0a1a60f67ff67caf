---------------------------- MODULE MCCompletion ----------------------------
(* Small instances of Completion. *)
EXTENDS Completion, TLC

CONSTANTS r1, r2, k1, k2, k3

Take(window, scenario, spoke, duration, unit) ==
    [window |-> window, scenario |-> scenario, spoke |-> spoke,
     duration |-> duration, score |-> 80, difficulty |-> 2, unit |-> unit]

\* a session that earns XP, the same one reported without a user turn, one
\* too short to earn, and one whose scenario is gone
MCSession == Take(1, "premium", TRUE, 60, TRUE)
MCSilent == Take(1, "premium", FALSE, 60, TRUE)
MCShort == Take(2, "open", TRUE, 10, FALSE)
MCMissing == Take(3, "missing", TRUE, 60, FALSE)

MCTwoTakes == {MCSession, MCShort}
MCThreeTakes == {MCSession, MCSilent, MCMissing}

MCSymmetry == Permutations(Requests) \cup Permutations(Keys)
=============================================================================
