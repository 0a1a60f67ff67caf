---------------------------- MODULE RewardLedger ----------------------------
(***************************************************************************)
(* What the rewards promise a learner: every claim (a completed session, a *)
(* daily quest) is paid at most once, and the total is the sum of what was *)
(* paid.                                                                   *)
(***************************************************************************)
EXTENDS Integers, FiniteSets, Folds

CONSTANT Claims

VARIABLES earned,  \* what each claim was paid, 0 before
          total    \* the learner's total XP

SumOf(f) == MapThenFoldSet(+, 0, LAMBDA c : f[c],
                           LAMBDA T : CHOOSE x \in T : TRUE, Claims)

Init ==
    /\ earned = [c \in Claims |-> 0]
    /\ total = 0

\* One request pays any number of open claims.
Pay ==
    /\ earned' \in [Claims -> Nat]
    /\ \A c \in Claims : earned[c] # 0 => earned'[c] = earned[c]
    /\ total' = SumOf(earned')

Spec == Init /\ [][Pay]_<<earned, total>>
=============================================================================
