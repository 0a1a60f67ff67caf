----------------------------- MODULE Diagnostic -----------------------------
(***************************************************************************)
(* The placement diagnostic.  Its state is one JSON document per row of    *)
(* learning_sessions (skill = "diagnostic"), which every request reads,    *)
(* changes and writes back whole; completing it sets the four skill levels *)
(* and the learner's level, and within a week each level may be corrected  *)
(* once.  No constraint keeps a learner to one row and nothing compares a  *)
(* version: Overlaps says whether requests may be in flight together.      *)
(*                                                                         *)
(* A handler reads what it needs in one step and commits in another.       *)
(***************************************************************************)
EXTENDS Integers, FiniteSets, Sequences

CONSTANTS
    Requests,        \* request handlers that may be in flight at once
    Skills,
    Skippable,       \* skills that may be skipped one by one
    Items,           \* items of the placement catalogue
    SkillOf,         \* Items -> Skills
    Tier,            \* Items -> {"easy", "medium", "hard"}
    ItemsPerSkill,
    Averages,        \* mean of a skill's five newest scores; None: fewer
    Overlaps,        \* whether clients may fail to wait for an answer
    MaxCalls,        \* bound: requests, by whether they may overlap
    None

ASSUME DiagnosticAssumption ==
    /\ Skippable \subseteq Skills /\ Skippable # Skills
    /\ SkillOf \in [Items -> Skills]
    /\ Tier \in [Items -> {"easy", "medium", "hard"}]
    /\ ItemsPerSkill \in Nat
    /\ Averages \subseteq (0 .. 100) \cup {None}
    /\ Overlaps \subseteq BOOLEAN
    /\ MaxCalls \in [BOOLEAN -> Nat]
    /\ None \notin Nat \cup [Skills -> 1 .. 9]

Levels == 1 .. 9

VARIABLES
    overlap,    \* whether this learner's requests may overlap
    sessions,   \* the diagnostic rows in the order they were inserted
    level,      \* user_skill_levels.sonolo_level
    learner,    \* users.sonolo_level
    req,        \* what each handler is about to commit
    calls

vars == <<overlap, sessions, level, learner, req, calls>>

\* answers: item -> scored 0 or 1; placement: None before the completion
Document ==
    [answers : [Items -> {0, 1, None}], skipped : SUBSET Skills,
     placement : [Skills -> Levels] \cup {None}, corrected : SUBSET Skills]

\* ended: 0 while open, else its place in the order of ended_at; lapsed: the
\* week for corrections is over
Session == [doc : Document, ended : Nat, lapsed : BOOLEAN]

EmptyState == [answers |-> [i \in Items |-> None], skipped |-> {},
               placement |-> None, corrected |-> {}]
NewSession == [doc |-> EmptyState, ended |-> 0, lapsed |-> FALSE]

\* row: index in sessions, 0: a row to insert; doc: what the handler writes;
\* ends: the row gets an ended_at; levels: rows it changed; learner: None if
\* it leaves the learner's level alone
Request ==
    [pc : {"idle", "commit"}, row : Nat, doc : Document, ends : BOOLEAN,
     levels : [Skills -> Levels \cup {None}], learner : Levels \cup {None}]

Idle == [pc |-> "idle", row |-> 0, doc |-> EmptyState, ends |-> FALSE,
         levels |-> [s \in Skills |-> None], learner |-> None]

TypeOK ==
    /\ overlap \in Overlaps
    /\ sessions \in Seq(Session)
    /\ level \in [Skills -> Levels]
    /\ learner \in Levels
    /\ req \in [Requests -> Request]
    /\ calls \in 0 .. MaxCalls[overlap]

Init ==
    /\ overlap \in Overlaps
    /\ sessions = <<>>
    /\ level = [s \in Skills |-> 1]
    /\ learner = 1
    /\ req = [q \in Requests |-> Idle]
    /\ calls = 0

-----------------------------------------------------------------------------
(* Placement.                                                              *)

Lowest(S) == CHOOSE x \in S : \A y \in S : x <= y
Highest(S) == CHOOSE x \in S : \A y \in S : y <= x

Answered(answers, s) == {i \in Items : SkillOf[i] = s /\ answers[i] # None}

\* The mean score of the answered items of a tier is at least percent
Reaches(answers, s, tier, percent) ==
    LET of == {i \in Answered(answers, s) : Tier[i] = tier}
    IN  of # {} /\ 100 * Cardinality({i \in of : answers[i] = 1})
                     >= percent * Cardinality(of)

\* calculate_placement: the first row of the table that applies
CalculatePlacement(answers, s) ==
    LET hard(p) == Reaches(answers, s, "hard", p)
        medium(p) == Reaches(answers, s, "medium", p)
        easy(p) == Reaches(answers, s, "easy", p)
    IN  IF hard(70) THEN 7
        ELSE IF hard(50) /\ medium(70) THEN 6
        ELSE IF medium(70) THEN 5
        ELSE IF medium(50) /\ easy(80) THEN 4
        ELSE IF easy(80) THEN 3
        ELSE IF easy(60) THEN 2 ELSE 1

\* apply_skipped_skills: a skipped skill is put one below the weakest other
PlacementOf(doc) ==
    LET rated == Skills \ doc.skipped
        weakest == Lowest({CalculatePlacement(doc.answers, s) : s \in rated})
    IN  [s \in Skills |->
            IF rated = {} THEN 1
            ELSE IF s \in rated THEN CalculatePlacement(doc.answers, s)
            ELSE Highest({1, weakest - 1})]

Weakest(levels) == Lowest({levels[s] : s \in Skills})

-----------------------------------------------------------------------------
(* What a SELECT finds.                                                    *)

OpenRows == {i \in DOMAIN sessions : sessions[i].ended = 0}
EndedRows == DOMAIN sessions \ OpenRows

\* (bug) the newest row, completed or not
CurrentAny == {i \in DOMAIN sessions : i = Len(sessions)}

\* The newest open row, if there is one
Current == {i \in OpenRows : \A j \in OpenRows : j <= i}
CompletedRow == CHOOSE i \in EndedRows :
    \A j \in EndedRows : sessions[j].ended <= sessions[i].ended

-----------------------------------------------------------------------------
(* Requests.  One that is refused, or answered from what is stored, changes *)
(* nothing and is left out.                                                *)

MayCall(q) ==
    /\ req[q].pc = "idle"
    /\ calls < MaxCalls[overlap]
    /\ ~overlap => \A p \in Requests : req[p].pc = "idle"

Call(q, r) ==
    /\ calls' = calls + 1
    /\ req' = [req EXCEPT ![q] = [r EXCEPT !.pc = "commit"]]
    /\ UNCHANGED <<overlap, sessions, level, learner>>

\* (bug) a completed diagnostic may be started again
StartAgain(q) == MayCall(q) /\ OpenRows = {} /\ Call(q, Idle)

\* start_diagnostic, of POST start and of GET alike
Start(q) == MayCall(q) /\ sessions = <<>> /\ Call(q, Idle)

Answer(q, i, score) ==
    /\ MayCall(q)
    /\ \E row \in Current :
           /\ SkillOf[i] \notin sessions[row].doc.skipped
           /\ Call(q, [Idle EXCEPT !.row = row,
                  !.doc = [sessions[row].doc EXCEPT !.answers[i] = score]])

\* skip_skills: some of the skippable ones, or all
Skip(q, S) ==
    /\ MayCall(q)
    /\ S \subseteq Skippable \/ S = Skills
    /\ \E row \in Current :
           Call(q, [Idle EXCEPT !.row = row,
                  !.doc = [sessions[row].doc EXCEPT !.skipped = @ \cup S]])

\* complete_diagnostic on a document: the placement, the levels that differ
\* from the rows as loaded, and the learner's level
Completed(row, doc) ==
    LET placement == PlacementOf(doc)
        weakest == Weakest(placement)
    IN  [Idle EXCEPT !.row = row, !.ends = TRUE,
            !.doc = [doc EXCEPT !.placement = placement],
            !.levels = [s \in Skills |->
                IF placement[s] = level[s] THEN None ELSE placement[s]],
            !.learner = IF weakest = learner THEN None ELSE weakest]

Ready(doc) ==
    \A s \in Skills \ doc.skipped :
        Cardinality(Answered(doc.answers, s)) >= ItemsPerSkill

Complete(q) ==
    /\ MayCall(q)
    /\ \E row \in Current :
           /\ Ready(sessions[row].doc)
           /\ Call(q, Completed(row, sessions[row].doc))

\* skip_all_and_place: start, skip all and complete in one transaction
SkipAll(q) ==
    /\ MayCall(q)
    /\ EndedRows = {}
    /\ IF OpenRows = {}
       THEN Call(q, Completed(0, [EmptyState EXCEPT !.skipped = Skills]))
       ELSE \E row \in Current :
                Call(q, Completed(row, [sessions[row].doc EXCEPT !.skipped = Skills]))

\* (bug) only a raise uses the correction up
MarkedIfRaised(doc, s, average) ==
    IF average > 90 THEN [doc EXCEPT !.corrected = @ \cup {s}] ELSE doc

Marked(doc, s, average) == [doc EXCEPT !.corrected = @ \cup {s}]

\* check_placement_correction: once per skill, up above 90, down below 40
Correct(q, s, average) ==
    /\ MayCall(q)
    /\ EndedRows # {} /\ average # None
    /\ LET row == sessions[CompletedRow]
           moved == IF average > 90 /\ level[s] < 9 THEN level[s] + 1
                    ELSE IF average < 40 /\ level[s] > 1 THEN level[s] - 1
                    ELSE level[s]
           weakest == Weakest([level EXCEPT ![s] = moved])
       IN  /\ ~row.lapsed
           /\ s \notin row.doc.corrected
           /\ Call(q, [Idle EXCEPT !.row = CompletedRow,
                         !.doc = Marked(row.doc, s, average),
                         !.levels[s] = IF moved = level[s] THEN None ELSE moved,
                         !.learner = IF moved = level[s] \/ weakest = learner
                                     THEN None ELSE weakest])

-----------------------------------------------------------------------------
(* The end of a request.                                                   *)

Finish(q) == req' = [req EXCEPT ![q] = Idle] /\ UNCHANGED <<overlap, calls>>

LastEnd == Highest({0} \cup {sessions[i].ended : i \in DOMAIN sessions})

\* The document is written whole; an open row stays open unless this request
\* ends it, and an ended one stays ended
Commit(q) ==
    LET r == req[q]
        End(ended) == IF r.ends THEN LastEnd + 1 ELSE ended
    IN  /\ r.pc = "commit"
        /\ sessions' =
             IF r.row = 0
             THEN Append(sessions, [NewSession EXCEPT !.doc = r.doc, !.ended = End(0)])
             ELSE [sessions EXCEPT ![r.row].doc = r.doc, ![r.row].ended = End(@)]
        /\ level' = [s \in Skills |-> IF r.levels[s] = None THEN level[s] ELSE r.levels[s]]
        /\ learner' = IF r.learner = None THEN learner ELSE r.learner
        /\ Finish(q)

\* The connection or a first insert of a skill row fails
Fail(q) ==
    /\ req[q].pc = "commit"
    /\ Finish(q)
    /\ UNCHANGED <<sessions, level, learner>>

\* Seven days pass since the completion
WeekPasses(i) ==
    /\ sessions[i].ended # 0 /\ ~sessions[i].lapsed
    /\ sessions' = [sessions EXCEPT ![i].lapsed = TRUE]
    /\ UNCHANGED <<overlap, level, learner, req, calls>>

Begin(q) ==
    \/ Start(q) \/ Complete(q) \/ SkipAll(q)
    \/ \E i \in Items, score \in {0, 1} : Answer(q, i, score)
    \/ \E S \in SUBSET Skills : Skip(q, S)
    \/ \E s \in Skills, average \in Averages : Correct(q, s, average)

Next ==
    \/ \E q \in Requests : Begin(q) \/ Commit(q) \/ Fail(q)
    \/ \E i \in DOMAIN sessions : WeekPasses(i)

Spec == Init /\ [][Next]_vars

-----------------------------------------------------------------------------
(* Properties.                                                             *)

\* However requests overlap, a stored placement is the one its own stored
\* answers and skips give: no answer slips in beside it, and no document mixes
\* two requests' changes.
PlacementFromAnswers ==
    \A i \in DOMAIN sessions :
        LET doc == sessions[i].doc
        IN  doc.placement # None => doc.placement = PlacementOf(doc) /\ Ready(doc)

OneDiagnostic ==
    /\ Len(sessions) <= 1
    /\ \A i \in DOMAIN sessions :
           sessions[i].ended # 0 <=> sessions[i].doc.placement # None

CorrectedOnce ==
    \A i \in EndedRows :
        /\ \A s \in Skills :
               LET placed == sessions[i].doc.placement[s]
               IN  /\ level[s] \in placed - 1 .. placed + 1
                   /\ s \notin sessions[i].doc.corrected => level[s] = placed
        /\ learner = Weakest(level)

\* A learner whose requests do not overlap has one diagnostic, which keeps its
\* placement once it is completed ("Restart after complete returns the stored
\* placement", D-030); the first-week correction moves a level once, by one,
\* and the learner's level follows the weakest skill.  (No level is raised by
\* evidence here: see Mastery.)
PlacementKept == ~overlap => OneDiagnostic /\ CorrectedOnce
=============================================================================
