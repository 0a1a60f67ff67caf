------------------------------- MODULE Mastery -------------------------------
(***************************************************************************)
(* What a learner's evidence is worth: unit tests and their cooldown, the  *)
(* weighted mastery of a skill, the level it may raise, and the journey    *)
(* and progress views over them.                                           *)
(*                                                                         *)
(* Four handlers write.  An accepted practice submit (see Practice) and    *)
(* the submit of a unit test, which waits for the evaluator of its         *)
(* speaking section, hold the catalogue's rows from their first statement  *)
(* to their commit.  The completion of the diagnostic and the correction   *)
(* of its placement (see Diagnostic) take no lock: they may commit between *)
(* another handler's read of the skill rows and its commit, which writes   *)
(* the columns it changed and compares nothing.                            *)
(*                                                                         *)
(* Scores are integers 0..100, the EMA and overall scores hundredths.      *)
(***************************************************************************)
EXTENDS Integers, FiniteSets, Sequences, Folds

CONSTANTS
    Requests,            \* the learner's requests that may be open at once
    Skills,
    UnitSequence,        \* the unit codes in learning order
    Bands,               \* sequence of the bands' sets of units
    MaxLevel,
    UnitsForLevel,       \* level -> the units it asks for
    BandTest,            \* levels whose advancement asks for a band test
    RequiredExercises,   \* level -> exercises it asks for
    Threshold,           \* level -> mastery it asks for
    Weight,              \* skill -> percent: SECTION_WEIGHTS, DISPLAY_WEIGHTS
    Activities,          \* exercises by content id
    Catalogue,           \* activity -> its skill, unit and level, if it has them
    Required,            \* unit -> the activities its completion flags ask for
    Revised,             \* skills whose exercises count by their best score
    Scores,              \* what an exercise or a section of a test may score
    Answers,             \* what may be handed in for a test
    Placements,          \* levels a placement may give, see Diagnostic
    Sample,              \* CORRECTION_SAMPLE
    Window,              \* CORRECTION_WINDOW_DAYS, in clock ticks
    Published,           \* units with a published test
    Cooldown,            \* clock ticks between two sittings of a unit
    MaxNow,              \* bound: the clock
    MaxRows,             \* bound: rows of evidence
    None

Units == {UnitSequence[i] : i \in DOMAIN UnitSequence}
Levels == 1 .. MaxLevel

ASSUME MasteryAssumption ==
    /\ MaxLevel \in Nat \ {0}
    /\ UnitsForLevel \in [Levels -> SUBSET Units]
    /\ \A u \in Units : \E l \in Levels : u \in UnitsForLevel[l]
    /\ BandTest \subseteq Levels
    /\ RequiredExercises \in [Levels -> Nat]
    /\ Threshold \in [Levels -> Nat]
    /\ Weight \in [Skills -> Nat]
    /\ Catalogue \in [Activities -> [skill : Skills, unit : Units \cup {None},
                                     level : Levels \cup {None}]]
    /\ Required \in [Units -> SUBSET Activities]
    /\ Revised \subseteq Skills
    /\ Scores \subseteq 0 .. 100
    /\ Placements \subseteq [Skills -> Levels]
    /\ Sample \in Nat \ {0} /\ Window \in Nat
    /\ Published \subseteq Units
    /\ Cooldown \in Nat /\ MaxNow \in Nat /\ MaxRows \in Nat
    /\ None \notin Nat \cup Units \cup Skills \cup Activities \cup Answers

\* Learning order names each unit once, the bands are made of units, and there
\* are skills.
ASSUME CurriculumAssumption ==
    /\ UnitSequence \in Seq(Units)
    /\ \A i, j \in DOMAIN UnitSequence : UnitSequence[i] = UnitSequence[j] => i = j
    /\ \A b \in DOMAIN Bands : Bands[b] \subseteq Units
    /\ IsFiniteSet(Skills) /\ Skills # {}

ExerciseWindow == 20
OverallMin == 7000
SkillMin == 60
UnitLevel(u) == CHOOSE l \in Levels : u \in UnitsForLevel[l]

VARIABLES
    now,        \* the clock
    ended,      \* when the diagnostic was completed
    corrected,  \* skills its document marks as corrected
    placed,     \* (history) the highest levels a completion left, 1 before
    granted,    \* (history) skill -> levels a correction raised it from
    level,      \* user_skill_levels.sonolo_level (1 when there is no row)
    ema,        \* user_skill_levels.ema_score
    exercises,  \* skill -> its submitted attempts, in order
    blocks,     \* unit -> skills whose completion flag is set
    sittings,   \* unit tests in the order they were committed
    passed,     \* unit -> user_unit_progress.unit_test_passed
    req         \* request -> its transaction

placement == <<ended, corrected, placed, granted>>
evidence == <<ema, exercises, blocks, sittings, passed>>
vars == <<now, placement, level, evidence, req>>

Sheet == [Skills -> Scores]
Exercise == [activity : Activities, score : Scores]
Sitting == [unit : Units, answers : Answers, at : 0 .. MaxNow, scores : Sheet]

\* activity, score: of an exercise; unit, answers, scores: of a test; at: its
\* stamp, or the placement's; skill, applied: what a correction is about and
\* the document it writes; loaded, written: the skill rows
Transaction ==
    [pc : {"idle", "practice", "grade", "test", "place", "correct"},
     activity : Activities \cup {None}, score : Scores \cup {None},
     unit : Units \cup {None}, answers : Answers \cup {None},
     scores : Sheet \cup {<<>>}, at : 0 .. MaxNow,
     skill : Skills \cup {None}, applied : SUBSET Skills,
     loaded : [Skills -> Levels], written : [Skills -> Levels]]

AllOnes == [s \in Skills |-> 1]

Idle == [pc |-> "idle", activity |-> None, score |-> None, unit |-> None,
         answers |-> None, scores |-> <<>>, at |-> 0, skill |-> None,
         applied |-> {}, loaded |-> AllOnes, written |-> AllOnes]

TypeOK ==
    /\ now \in 0 .. MaxNow
    /\ ended \in 0 .. MaxNow \cup {None}
    /\ corrected \subseteq Skills
    /\ placed \in [Skills -> Levels]
    /\ granted \in [Skills -> SUBSET Levels]
    /\ level \in [Skills -> Levels]
    /\ ema \in [Skills -> Nat \cup {None}]
    /\ exercises \in [Skills -> Seq(Exercise)]
    /\ blocks \in [Units -> SUBSET Skills]
    /\ sittings \in Seq(Sitting)
    /\ passed \in [Units -> BOOLEAN]
    /\ req \in [Requests -> Transaction]

Init ==
    /\ now = 0
    /\ ended = None
    /\ corrected = {}
    /\ placed = AllOnes
    /\ granted = [s \in Skills |-> {}]
    /\ level = AllOnes
    /\ ema = [s \in Skills |-> None]
    /\ exercises = [s \in Skills |-> <<>>]
    /\ blocks = [u \in Units |-> {}]
    /\ sittings = <<>>
    /\ passed = [u \in Units |-> FALSE]
    /\ req = [q \in Requests |-> Idle]

-----------------------------------------------------------------------------
(* Scores.                                                                 *)

Sum(f(_), S) == MapThenFoldSet(+, 0, f, LAMBDA T : CHOOSE x \in T : TRUE, S)
Tally(f) == Sum(LAMBDA i : f[i], DOMAIN f)
Best(S) == CHOOSE x \in S : \A y \in S : y <= x

\* Both tables of weights divide a whole.
ASSUME WeightAssumption == Sum(LAMBDA s : Weight[s], Skills) = 100

\* grade_unit_test: the weighted overall score, in hundredths
Overall(scores) == Sum(LAMBDA s : Weight[s] * scores[s], Skills)

Meets(scores) ==
    /\ Overall(scores) >= OverallMin
    /\ \A s \in Skills : scores[s] >= SkillMin

\* update_ema: 0.7 old + 0.3 new, rounded; the first score initialises it.
\* (An exact half is rounded up; the program's float may go either way.)
Folded(old, score) ==
    IF old = None THEN 100 * score ELSE (70 * old + 3000 * score + 50) \div 100

\* last_exercise_scores: the submits at a level that count; of the revisions
\* of a writing only the first, which stands for the best of them
Counted(rows, s, l) ==
    {i \in DOMAIN rows :
        /\ Catalogue[rows[i].activity].level = l
        /\ s \in Revised => \A j \in 1 .. i - 1 : rows[j].activity # rows[i].activity}

LastOnes(rows, s, l) ==
    {i \in Counted(rows, s, l) :
        Cardinality({j \in Counted(rows, s, l) : j > i}) < ExerciseWindow}

ScoreAt(rows, s, i) ==
    IF s \in Revised
    THEN Best({rows[j].score : j \in {k \in DOMAIN rows : rows[k].activity = rows[i].activity}})
    ELSE rows[i].score

\* compute_mastery_score against a threshold: 0.40 of the mean exercise score,
\* 0.35 of the mean test score and 0.25 of the EMA, multiplied out.  Without
\* exercises, tests or an EMA there is no mastery.
Masters(s, rows, l, tests, average, threshold) ==
    LET used == LastOnes(rows, s, l)
        n == Cardinality(used)
        m == Len(tests)
    IN  /\ n > 0 /\ m > 0 /\ average # None
        /\ 4000 * m * Sum(LAMBDA i : ScoreAt(rows, s, i), used)
             + 3500 * n * Sum(LAMBDA i : tests[i].scores[s], DOMAIN tests)
             + 25 * n * m * average >= 10000 * n * m * threshold

-----------------------------------------------------------------------------
(* Sittings.                                                               *)

\* Sitting i is the newest of its unit by submitted_at
Newest(rows, u, i) ==
    /\ rows[i].unit = u
    /\ \A j \in DOMAIN rows : rows[j].unit = u =>
           rows[j].at < rows[i].at \/ (rows[j].at = rows[i].at /\ j <= i)

\* count_units_passed: a unit counts by its newest sitting
UnitCounts(rows, u) ==
    \E i \in DOMAIN rows : Newest(rows, u, i) /\ Meets(rows[i].scores)

UnitsPassed(rows, l) == {u \in UnitsForLevel[l] : UnitCounts(rows, u)}

\* (bug) a unit counts once its test was taken
AdvancesEarly(s, current, rows, l, tests, average) ==
    /\ current < MaxLevel
    /\ Masters(s, rows, l, tests, average, Threshold[current])
    /\ Cardinality(LastOnes(rows, s, l)) >= RequiredExercises[current]
    /\ \A u \in UnitsForLevel[current] : \E i \in DOMAIN tests : tests[i].unit = u
    /\ current \notin BandTest

\* check_level_advancement with band_tests_passed = []: the exercises are
\* those of level l, the units those of the current level
Advances(s, current, rows, l, tests, average) ==
    /\ current < MaxLevel
    /\ Masters(s, rows, l, tests, average, Threshold[current])
    /\ Cardinality(LastOnes(rows, s, l)) >= RequiredExercises[current]
    /\ UnitsPassed(tests, current) = UnitsForLevel[current]
    /\ current \notin BandTest

-----------------------------------------------------------------------------
(* Handlers.                                                               *)

\* (bug) the catalogue's rows are not locked
CatalogueShared(q) == TRUE

\* persist_curriculum, the first statement of practice and test handlers,
\* updates the catalogue's rows: one of them works at a time.  (A request that
\* waits for the rows has read nothing, and is not in the model.)
CatalogueFree(q) == \A r \in Requests : req[r].pc \notin {"practice", "grade", "test"}

MayHandIn(q) ==
    /\ req[q].pc = "idle"
    /\ CatalogueFree(q)
    /\ Len(sittings) + Sum(LAMBDA s : Len(exercises[s]), Skills) < MaxRows

Open(q, t) ==
    /\ req' = [req EXCEPT ![q] = t]
    /\ UNCHANGED <<now, placement, level, evidence>>

\* The level rows of the skills in S go up by one
Up(S) == [s \in Skills |-> IF s \in S THEN level[s] + 1 ELSE level[s]]

\* attempt.sonolo_level or skill_row.sonolo_level
LevelOf(a, s) == IF Catalogue[a].level = None THEN level[s] ELSE Catalogue[a].level

\* The attempt is recorded and folded into the EMA, then what is committed and
\* this transaction's own rows decide the level: finalize_practice_attempt and
\* orchestrate_after_practice up to the flush of the level.
Practise(q, a, score) ==
    LET s == Catalogue[a].skill
        rows == Append(exercises[s], [activity |-> a, score |-> score])
        rises == Advances(s, level[s], rows, LevelOf(a, s), sittings, Folded(ema[s], score))
    IN  /\ MayHandIn(q)
        /\ Open(q, [Idle EXCEPT !.pc = "practice", !.activity = a, !.score = score,
                                !.loaded = level,
                                !.written = Up({t \in {s} : rises})])

\* The newest sitting of the unit, so every one, is a cooldown ago
CooledDown(u) ==
    \A i \in DOMAIN sittings :
        sittings[i].unit = u => now - sittings[i].at >= Cooldown

\* The newest sitting has the fingerprint of these answers: it is answered again
Replays(u, answers) ==
    \E i \in DOMAIN sittings : Newest(sittings, u, i) /\ sittings[i].answers = answers

\* The completion flags of all four blocks
UnitTestUnlocked(u) == blocks[u] = Skills

\* submit_unit_test up to the grading.  A test that is locked, that repeats
\* the newest sitting or that comes too early is answered without a change.
Sit(q, u, answers) ==
    /\ u \in Published
    /\ UnitTestUnlocked(u)
    /\ ~Replays(u, answers)
    /\ CooledDown(u)
    /\ MayHandIn(q)
    /\ Open(q, [Idle EXCEPT !.pc = "grade", !.unit = u, !.answers = answers])

\* record_unit_test_skill_score for every skill: the rows of one sitting, as
\* they are read back (unit_test_evidence_for_user)
Stamped(t, scores, at) ==
    [unit |-> t.unit, answers |-> t.answers, at |-> at, scores |-> scores]

\* The sections are graded, the speaking one by the evaluator, and the sitting
\* is stamped; then orchestrate_after_unit_test decides for every skill, the
\* new sitting among its evidence
Grade(q, scores) ==
    LET t == req[q]
        tests == Append(sittings, Stamped(t, scores, now))
    IN  /\ t.pc = "grade"
        /\ Open(q, [t EXCEPT !.pc = "test", !.scores = scores, !.at = now, !.loaded = level,
                !.written = Up({s \in Skills :
                    Advances(s, level[s], exercises[s], UnitLevel(t.unit), tests, ema[s])})])

\* complete_diagnostic: the open diagnostic has the answers it asks for
Place(q, p) ==
    /\ req[q].pc = "idle"
    /\ ended = None
    /\ Open(q, [Idle EXCEPT !.pc = "place", !.at = now, !.loaded = level, !.written = p])

\* The last scores of a skill, at whatever level, up to the k-th
LastScores(s, k) == [i \in 1 .. Sample |-> exercises[s][k - Sample + i].score]

Recent(s) == Tally(LastScores(s, Len(exercises[s])))

\* check_placement_correction: above 90 the level goes up by one, below 40
\* down, and otherwise the skill is only marked
Corrected(s) ==
    IF Recent(s) > 90 * Sample /\ level[s] < MaxLevel THEN level[s] + 1
    ELSE IF Recent(s) < 40 * Sample /\ level[s] > 1 THEN level[s] - 1
    ELSE level[s]

Correct(q, s) ==
    /\ req[q].pc = "idle"
    /\ ended # None /\ now - ended <= Window
    /\ s \notin corrected
    /\ Len(exercises[s]) >= Sample
    /\ Open(q, [Idle EXCEPT !.pc = "correct", !.skill = s, !.applied = corrected \cup {s},
                            !.loaded = level,
                            !.written = [level EXCEPT ![s] = Corrected(s)]])

\* (bug) the flag follows the newest sitting
PassedNow(u, scores) == Meets(scores)

\* record_unit_test_sitting sets unit_test_passed and never clears it
PassedAfter(u, scores) == passed[u] \/ Meets(scores)

\* A commit: of the skill rows it writes those it changed, whatever they hold
\* by then
Finish(q) ==
    /\ req' = [req EXCEPT ![q] = Idle]
    /\ level' = [s \in Skills |-> IF req[q].written[s] # req[q].loaded[s]
                                   THEN req[q].written[s] ELSE level[s]]
    /\ now' = now

\* refresh_..._complete: the activities of the unit's block were all submitted
BlockDone(u, s, rows) ==
    LET block == {a \in Required[u] : Catalogue[a].skill = s}
    IN  block # {} /\ block \subseteq {rows[i].activity : i \in DOMAIN rows}

Flagged(u, s, rows) ==
    IF BlockDone(u, s, rows) THEN blocks[u] \cup {s} ELSE blocks[u] \ {s}

CommitPractice(q) ==
    LET t == req[q]
        s == Catalogue[t.activity].skill
        u == Catalogue[t.activity].unit
        rows == Append(exercises[s], [activity |-> t.activity, score |-> t.score])
    IN  /\ t.pc = "practice"
        /\ Finish(q)
        /\ exercises' = [exercises EXCEPT ![s] = rows]
        /\ ema' = [ema EXCEPT ![s] = Folded(@, t.score)]
        /\ blocks' = [v \in Units |-> IF v = u THEN Flagged(v, s, rows) ELSE blocks[v]]
        /\ UNCHANGED <<placement, sittings, passed>>

CommitTest(q) ==
    LET t == req[q]
    IN  /\ t.pc = "test"
        /\ Finish(q)
        /\ sittings' = Append(sittings, Stamped(t, t.scores, t.at))
        /\ passed' = [passed EXCEPT ![t.unit] = PassedAfter(t.unit, t.scores)]
        /\ UNCHANGED <<placement, ema, exercises, blocks>>

\* The document is written whole: a correction it has not seen is lost
CommitPlace(q) ==
    LET p == req[q].written
    IN  /\ req[q].pc = "place"
        /\ Finish(q)
        /\ ended' = req[q].at
        /\ corrected' = {}
        /\ placed' = [s \in Skills |-> IF p[s] > placed[s] THEN p[s] ELSE placed[s]]
        /\ UNCHANGED <<granted, evidence>>

CommitCorrect(q) ==
    LET t == req[q]
        s == t.skill
    IN  /\ t.pc = "correct"
        /\ Finish(q)
        /\ corrected' = t.applied
        /\ granted' = [granted EXCEPT ![s] =
                          IF t.written[s] > t.loaded[s] THEN @ \cup {t.loaded[s]} ELSE @]
        /\ UNCHANGED <<ended, placed, evidence>>

\* The evaluator, the connection or a first insert of a row fails
Fail(q) ==
    /\ req[q].pc # "idle"
    /\ Open(q, Idle)

Tick ==
    /\ now < MaxNow
    /\ now' = now + 1
    /\ UNCHANGED <<placement, level, evidence, req>>

Next ==
    \/ \E q \in Requests :
         \/ \E a \in Activities, score \in Scores : Practise(q, a, score)
         \/ \E u \in Units, answers \in Answers : Sit(q, u, answers)
         \/ \E scores \in Sheet : Grade(q, scores)
         \/ \E p \in Placements : Place(q, p)
         \/ \E s \in Skills : Correct(q, s)
         \/ CommitPractice(q) \/ CommitTest(q) \/ CommitPlace(q) \/ CommitCorrect(q)
         \/ Fail(q)
    \/ Tick

Spec == Init /\ [][Next]_vars

-----------------------------------------------------------------------------
(* The journey map (journey_service).                                      *)

Position == [u \in Units |-> CHOOSE i \in DOMAIN UnitSequence : UnitSequence[i] = u]

Unlocked(u) == Position[u] = 1 \/ passed[UnitSequence[Position[u] - 1]]

OpenUnit(u) == Unlocked(u) /\ ~passed[u]

\* (bug) the last open unit
CurrentLast ==
    IF \E u \in Units : OpenUnit(u)
    THEN CHOOSE u \in Units : OpenUnit(u) /\
             \A v \in Units : OpenUnit(v) => Position[v] <= Position[u]
    ELSE None

\* current_unit_id: the first open unit
CurrentUnit ==
    IF \E u \in Units : OpenUnit(u)
    THEN CHOOSE u \in Units : OpenUnit(u) /\
             \A v \in Units : OpenUnit(v) => Position[u] <= Position[v]
    ELSE None

UnitStatus(u) ==
    IF ~Unlocked(u) THEN "locked"
    ELSE IF passed[u] THEN "completed"
    ELSE IF u = CurrentUnit THEN "current" ELSE "locked"

BandStatus(b) ==
    IF \A u \in Bands[b] : passed[u] THEN "completed"
    ELSE IF \A u \in Bands[b] : (\A v \in Bands[b] : Position[u] <= Position[v]) => ~Unlocked(u)
    THEN "locked" ELSE "active"

SkillStatus(u, s) ==
    IF ~Unlocked(u) THEN "locked"
    ELSE IF s \in blocks[u] THEN "complete"
    ELSE IF UnitStatus(u) = "current" \/ blocks[u] # {} THEN "in_progress"
    ELSE "not_started"

-----------------------------------------------------------------------------
(* The progress view (progress_service).                                   *)

Readiness == CHOOSE l \in Levels :
    (\E s \in Skills : level[s] = l) /\ \A s \in Skills : l <= level[s]
Strongest == Best({level[s] : s \in Skills})

\* (Exact.  So is the program from Python 3.12 on, whose sum() compensates: its
\* image and CI run that; before, the floor is one short for some levels.)
DisplayLevel == Sum(LAMBDA s : Weight[s] * level[s], Skills) \div 100

\* get_skill_recommendation: the weakest skill, if it is two levels behind
Priority == LET gap == Strongest - Readiness
            IN  IF gap >= 3 THEN "critical" ELSE IF gap >= 2 THEN "high" ELSE "balanced"

-----------------------------------------------------------------------------
(* Properties.                                                             *)

\* The unit tests of a level passed and as many exercises as it asks for
Earned(s, l) ==
    /\ l \notin BandTest
    /\ \A u \in UnitsForLevel[l] :
           \E i \in DOMAIN sittings : sittings[i].unit = u /\ Meets(sittings[i].scores)
    /\ \E k \in Levels : Cardinality(Counted(exercises[s], s, k)) >= RequiredExercises[l]

\* Exercises in a row that average above 90, as a correction asks for
Strong(s) ==
    \E k \in DOMAIN exercises[s] :
        /\ k >= Sample
        /\ Tally(LastScores(s, k)) > 90 * Sample

Justified(s, l) == Earned(s, l) \/ (l \in granted[s] /\ Strong(s))

\* Every level a learner holds above the placement rests on evidence that is
\* stored: passed tests of the level's units and enough exercises, or a
\* correction that met a strong week - in whatever order advances, corrections
\* and placements that were decided from older rows commit.  No band test can
\* be taken: only a correction leaves a band's last level.
LevelsEarned ==
    \A s \in Skills : \A l \in placed[s] .. level[s] - 1 : Justified(s, l)

\* Two sittings of a unit are a cooldown apart, whatever was graded meanwhile
\* and however many tests were handed in at once - also when the first of them
\* passed, though the decision log speaks of a "24h fail cooldown" (D-035).
SittingsSpaced ==
    \A i, j \in DOMAIN sittings :
        i < j /\ sittings[i].unit = sittings[j].unit
            => sittings[j].at - sittings[i].at >= Cooldown

\* A unit is passed exactly when one of its stored sittings meets the criteria
\* (the grade and the evidence rebuilt from its rows agree), also when a later
\* sitting failed: that one takes the unit from the advancement, not from the
\* journey.
PassedMatchesSittings ==
    \A u \in Units :
        /\ passed[u] <=> \E i \in DOMAIN sittings :
               sittings[i].unit = u /\ Meets(sittings[i].scores)
        /\ UnitCounts(sittings, u) => passed[u]

JourneyIsAPath ==
    LET current == CurrentUnit
        status == [u \in Units |-> UnitStatus(u)]
    IN  /\ current = None <=> \A u \in Units : passed[u]
        /\ \A u \in Units :
               /\ status[u] = "current" <=> u = current
               /\ (current # None /\ Position[u] < Position[current])
                      => status[u] = "completed"
               /\ status[u] = "completed" => \A s \in Skills : SkillStatus(u, s) = "complete"
        /\ \A b \in DOMAIN Bands : current \in Bands[b] => BandStatus(b) = "active"

LevelsSummarised ==
    LET display == DisplayLevel
    IN  /\ Readiness <= display /\ display <= Strongest
        /\ Priority = "balanced" => display <= Readiness + 1

\* In whatever order units are passed (a test asks for its own unit's blocks
\* only), the journey shows one current unit, everything before it completed,
\* and in an active band; the display level lies between the weakest and the
\* strongest skill.
LearnerViews == JourneyIsAPath /\ LevelsSummarised
=============================================================================
