------------------------------ MODULE DailyMix ------------------------------
(***************************************************************************)
(* The daily mix: up to five activities that fit the learner's time, led   *)
(* by the vocabulary review when a card is due.  Nothing of it is stored:  *)
(* GET daily-mix assembles it from the cards (Cards), the skill levels,    *)
(* the unit's unfinished blocks and the recent errors, and a generator     *)
(* seeded by learner and date draws skills and contents.                   *)
(*                                                                         *)
(* Mixes is the set of the mixes that some seed yields.  Weights are       *)
(* hundredths before they are scaled to sum to one, which orders alike.    *)
(***************************************************************************)
EXTENDS Cards, SequencesExt

CONSTANTS
    Candidates,    \* content id -> Candidate: the published catalogue
    CurrentUnit,   \* the first published unit
    Available,     \* minutes a learner has
    Asks           \* what mixes are asked for: see Ask

SkillOrder == <<"speaking", "listening", "reading", "writing">>
MixSkills == ToSet(SkillOrder)
MaxItems == 5
MinItems == 3

\* MixCandidate, as build_content_catalog and _speaking_catalog make them: only
\* speaking and listening may be premium; level 99: none
Candidate ==
    {c \in [skill : MixSkills, minutes : Nat, unit : STRING \cup {None},
            level : Nat, premium : BOOLEAN] :
        c.premium => c.skill \in {"speaking", "listening"}}

GoalModifiers ==
    [pr_readiness |-> [speaking |-> 5, writing |-> 5],
     workplace |-> [speaking |-> 5, writing |-> 5, reading |-> 3],
     casual |-> [speaking |-> 8, listening |-> 5],
     academic |-> [reading |-> 8, writing |-> 8],
     social |-> [speaking |-> 10, listening |-> 5]]

\* A goal the table does not name (None stands for them) boosts nothing.
Modifiers(goal) ==
    IF goal \in DOMAIN GoalModifiers THEN GoalModifiers[goal] ELSE [s \in {} |-> 0]

\* What build_daily_mix_for_user reads: unfinished blocks (all four when none
\* is), the skill with most scores below 70 in a week, the subscription, and
\* whether the learner was away for a month and gets the easiest content
Ask ==
    [levels : [MixSkills -> 1 .. 9], goal : DOMAIN GoalModifiers \cup {None},
     unfinished : SUBSET MixSkills \ {{}}, error : MixSkills \cup {None},
     entitled : BOOLEAN, easier : BOOLEAN]

ASSUME DailyMixAssumption ==
    /\ \A c \in DOMAIN Candidates : Candidates[c] \in Candidate
    /\ \A ask \in Asks : ask \in Ask
    /\ Available \in Nat
    /\ None \notin DOMAIN Candidates \cup MixSkills

\* What the published catalogue offers everybody, in whatever unit or level: a
\* content of each skill, and a second to speak about
Free(s) == {c \in DOMAIN Candidates : Candidates[c].skill = s /\ ~Candidates[c].premium}

ASSUME CatalogueAssumption ==
    /\ \A s \in MixSkills : Free(s) # {}
    /\ \A c \in Free("speaking") : Free("speaking") # {c}

-----------------------------------------------------------------------------
(* Weights                                                                 *)

LowestLevel(ask) == CHOOSE l \in Range(ask.levels) : \A k \in Range(ask.levels) : l <= k
HighestLevel(ask) == CHOOSE l \in Range(ask.levels) : \A k \in Range(ask.levels) : k <= l
Gap(ask) == HighestLevel(ask) - LowestLevel(ask)
WeakestSkills(ask) == {s \in MixSkills : ask.levels[s] = LowestLevel(ask)}

\* (bug) no boost for a skill that lags two levels behind
LagBoostFlat(ask) == IF Gap(ask) >= 1 THEN 8 ELSE 0

LagBoost(ask) == IF Gap(ask) >= 2 THEN 15 ELSE IF Gap(ask) = 1 THEN 8 ELSE 0

\* calculate_skill_weights
Weight(ask, s) ==
    LET goal == Modifiers(ask.goal)
    IN  25 + (IF s \in WeakestSkills(ask) THEN LagBoost(ask) ELSE 0)
           + (IF s \in DOMAIN goal THEN goal[s] ELSE 0)
           + (IF s = ask.error THEN 5 ELSE 0)

-----------------------------------------------------------------------------
(* Items                                                                   *)

Review == [kind |-> "vocab_review", id |-> None, minutes |-> 3, priority |-> 0]

Item(c, priority) ==
    [kind |-> Candidates[c].skill, id |-> c, minutes |-> Candidates[c].minutes,
     priority |-> priority]

Ids(mix) == {mix[i].id : i \in DOMAIN mix}
Kinds(mix) == {mix[i].kind : i \in DOMAIN mix}
Minutes(mix) == FoldLeft(LAMBDA n, item : n + item.minutes, 0, mix)

\* Contents that may be given and are not in the mix yet
Eligible(ask, s, mix) ==
    {c \in DOMAIN Candidates \ Ids(mix) :
        Candidates[c].skill = s /\ (ask.entitled \/ ~Candidates[c].premium)}

EasierThan(c, d) ==
    LET x == Candidates[c] y == Candidates[d]
    IN  x.level < y.level \/ (x.level = y.level /\ x.minutes < y.minutes)

\* select_content_for_skill: the unit's, else those of the level, else those of
\* no unit, else any; of them a random one, or the easiest
ContentFor(ask, s, mix) ==
    LET all == Eligible(ask, s, mix)
        unit == {c \in all : Candidates[c].unit = CurrentUnit}
        level == {c \in all : Candidates[c].level = ask.levels[s]}
        standalone == {c \in all : Candidates[c].unit = None}
        pool == CASE unit # {} -> unit
                  [] unit = {} /\ level # {} -> level
                  [] unit = {} /\ level = {} /\ standalone # {} -> standalone
                  [] OTHER -> all
    IN  IF ask.easier THEN {c \in pool : \A d \in pool : ~EasierThan(d, c)} ELSE pool

Extended(ask, s, mix, priority) ==
    LET contents == ContentFor(ask, s, mix)
    IN  IF contents = {} THEN {mix}
        ELSE {Append(mix, Item(c, priority)) : c \in contents}

-----------------------------------------------------------------------------
(* generate_daily_mix                                                      *)

\* One item for each unfinished block, in the order of the skills
WithBlocks(ask, overdue) ==
    LET after[n \in 0 .. Len(SkillOrder)] ==
            IF n = 0 THEN {IF overdue THEN <<Review>> ELSE <<>>}
            ELSE UNION {IF SkillOrder[n] \notin ask.unfinished \/ Len(m) >= MaxItems THEN {m}
                        ELSE Extended(ask, SkillOrder[n], m, 1) : m \in after[n - 1]}
    IN  after[Len(SkillOrder)]

\* A skill is drawn, whatever its weight
Drawn(ask, mix) == UNION {Extended(ask, s, mix, 2) : s \in MixSkills}

\* The free slots; one whose skill has no content is lost
Filled(ask, mix) ==
    LET after[n \in 0 .. MaxItems] ==
            IF n = 0 THEN {mix} ELSE UNION {Drawn(ask, m) : m \in after[n - 1]}
    IN  after[MaxItems - Len(mix)]

\* If all is speaking, the last item gives way to a listening or a reading
Varied(ask, mix) ==
    LET other == IF ContentFor(ask, "listening", mix) # {}
                 THEN ContentFor(ask, "listening", mix) ELSE ContentFor(ask, "reading", mix)
        last == CHOOSE i \in DOMAIN mix :
                    mix[i].kind = "speaking" /\
                    \A j \in DOMAIN mix : mix[j].kind = "speaking" => j <= i
    IN  IF Kinds(mix) \ {"vocab_review"} # {"speaking"} \/ other = {} THEN {mix}
        ELSE {[mix EXCEPT ![last] = Item(c, 2)] : c \in other}

\* By priority, then by weight, stable
Sorted(ask, mix) ==
    LET Key(i) == IF mix[i].kind = "vocab_review" THEN 0 ELSE Weight(ask, mix[i].kind)
        Before(i, j) ==
            \/ mix[i].priority < mix[j].priority
            \/ mix[i].priority = mix[j].priority /\ Key(i) > Key(j)
            \/ mix[i].priority = mix[j].priority /\ Key(i) = Key(j) /\ i < j
        At(n) == CHOOSE i \in DOMAIN mix :
                     Cardinality({j \in DOMAIN mix : Before(j, i)}) = n - 1
    IN  [n \in DOMAIN mix |-> mix[At(n)]]

\* While it takes too long the last item is dropped, down to three
Trimmed(mix) ==
    IF Len(mix) <= MinItems THEN mix
    ELSE LET fits == {n \in MinItems .. Len(mix) :
                        n = MinItems \/ Minutes(SubSeq(mix, 1, n)) <= Available}
         IN  SubSeq(mix, 1, CHOOSE n \in fits : \A k \in fits : k <= n)

Mixes(ask, overdue) ==
    {Trimmed(Sorted(ask, m)) :
        m \in UNION {Varied(ask, f) : f \in UNION {Filled(ask, b) : b \in WithBlocks(ask, overdue)}}}

-----------------------------------------------------------------------------
(* Properties                                                              *)

\* What _overdue_reviews counts and get_due_cards lists
Queue == {c \in DOMAIN cards : cards[c].due <= now /\ cards[c].state < 3}

Feasible(ask, mix) ==
    /\ Len(mix) <= MaxItems
    /\ Len(mix) > MinItems => Minutes(mix) <= Available
    /\ \A i, j \in DOMAIN mix : mix[i].id = mix[j].id => i = j
    /\ \A i \in DOMAIN mix : mix[i].id # None /\ Candidates[mix[i].id].premium => ask.entitled

\* The block of a skill that is two levels behind survives the trim
ServesWeakest(ask, mix) ==
    LET open == {s \in WeakestSkills(ask) \cap ask.unfinished : Eligible(ask, s, <<>>) # {}}
    IN  Gap(ask) >= 2 /\ open # {} => Kinds(mix) \cap open # {}

Serves(overdue) ==
    \A ask \in Asks :
        \A mix \in Mixes(ask, overdue) :
            /\ Feasible(ask, mix)
            /\ ServesWeakest(ask, mix)
            /\ overdue <=> mix # <<>> /\ Head(mix) = Review

ServesWithReview == Serves(TRUE)
ServesWithoutReview == Serves(FALSE)

\* Whatever the seed draws, today's mix fits the learner's time or is cut to
\* three items, repeats no content, gives premium content to those who are
\* entitled only, leads with the review exactly when a card is due, and keeps
\* a block of the weakest skill if that is two levels behind.
MixServesLearner == IF Queue # {} THEN ServesWithReview ELSE ServesWithoutReview
=============================================================================
