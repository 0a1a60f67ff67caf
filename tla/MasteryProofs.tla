---------------------------- MODULE MasteryProofs ----------------------------
(***************************************************************************)
(* Theorems about Mastery, for any curriculum, any thresholds and weights, *)
(* any scores, any placements and any number of requests at once.          *)
(***************************************************************************)
EXTENDS Mastery, Sums, SequenceTheorems, FiniteSetTheorems, TLAPS

-----------------------------------------------------------------------------
(* Rows that are appended                                                  *)

LEMMA Appended ==
    ASSUME NEW S, NEW rows \in Seq(S), NEW x \in S
    PROVE  /\ Append(rows, x) \in Seq(S)
           /\ DOMAIN Append(rows, x) = DOMAIN rows \cup {Len(rows) + 1}
           /\ Append(rows, x)[Len(rows) + 1] = x
           /\ \A i \in DOMAIN rows : /\ i \in Nat /\ i < Len(rows) + 1
                                     /\ rows[i] \in S
                                     /\ Append(rows, x)[i] = rows[i]
           /\ Len(rows) + 1 \in Nat
<1>1. Len(rows) \in Nat /\ DOMAIN rows = 1 .. Len(rows)
  BY LenProperties
<1>2. Append(rows, x) \in Seq(S) /\ Len(Append(rows, x)) = Len(rows) + 1
  BY <1>1
<1>3. DOMAIN Append(rows, x) = 1 .. Len(rows) + 1
  BY <1>2, LenProperties
<1>4. \A i \in 1 .. Len(rows) : Append(rows, x)[i] = rows[i] /\ rows[i] \in S
  BY <1>1, ElementOfSeq
<1>5. Append(rows, x)[Len(rows) + 1] = x
  BY <1>1
<1> QED
  BY <1>1, <1>2, <1>3, <1>4, <1>5

-----------------------------------------------------------------------------
(* Types                                                                   *)

\* A transaction in flight is about an exercise, a test or a skill.
ReqFits(q) ==
    /\ req[q].pc = "practice" => req[q].activity \in Activities /\ req[q].score \in Scores
    /\ req[q].pc \in {"grade", "test"} => req[q].unit \in Units /\ req[q].answers \in Answers
    /\ req[q].pc = "test" => req[q].scores \in Sheet
    /\ req[q].pc = "correct" => req[q].skill \in Skills

Typed == TypeOK /\ \A q \in Requests : ReqFits(q)

LEMMA IdleIsTransaction ==
    /\ Idle \in Transaction /\ Idle.pc = "idle" /\ Idle.written = Idle.loaded
    /\ AllOnes \in [Skills -> Levels]
BY MasteryAssumption DEF Idle, Transaction, AllOnes, Levels

LEMMA AdvancesBelowTop ==
    ASSUME NEW s, NEW c, NEW r, NEW l, NEW t, NEW a, Advances(s, c, r, l, t, a)
    PROVE  c < MaxLevel
BY DEF Advances

LEMMA UpIsLevels ==
    ASSUME Typed, NEW S, \A s \in S : level[s] < MaxLevel
    PROVE  Up(S) \in [Skills -> Levels]
<1> SUFFICES ASSUME NEW s \in Skills
             PROVE  (IF s \in S THEN level[s] + 1 ELSE level[s]) \in Levels
  BY DEF Up
<1>1. level[s] \in Levels
  BY DEF Typed, TypeOK
<1> QED
  BY <1>1, MasteryAssumption DEF Levels

\* A handler that starts or goes on changes its own transaction only.
LEMMA Opened ==
    ASSUME Typed, NEW q \in Requests, NEW t, Open(q, t)
    PROVE  /\ req'[q] = t /\ \A r \in Requests : r # q => req'[r] = req[r]
           /\ UNCHANGED <<now, ended, corrected, placed, granted, level, ema, exercises,
                          blocks, sittings, passed>>
BY DEF Open, Typed, TypeOK, placement, evidence

LEMMA OpenTyped ==
    ASSUME Typed, NEW q \in Requests, NEW t, Open(q, t), t \in Transaction, ReqFits(q)'
    PROVE  Typed'
<1>1. /\ req'[q] = t /\ \A r \in Requests : r # q => req'[r] = req[r]
      /\ UNCHANGED <<now, ended, corrected, placed, granted, level, ema, exercises,
                     blocks, sittings, passed>>
  BY Opened
<1>2. req' \in [Requests -> Transaction]
  BY DEF Open, Typed, TypeOK
<1>3. \A r \in Requests : ReqFits(r)'
  BY <1>1 DEF Typed, ReqFits
<1> QED
  BY <1>1, <1>2, <1>3 DEF Typed, TypeOK

LEMMA ActivityTypes ==
    ASSUME NEW a \in Activities
    PROVE  /\ Catalogue[a].skill \in Skills /\ Catalogue[a].unit \in Units \cup {None}
           /\ Catalogue[a].level \in Levels \cup {None}
BY MasteryAssumption

\* What a handler of practice has open once it has decided.
LEMMA PractiseOpens ==
    ASSUME Typed, NEW q \in Requests, NEW a \in Activities, NEW score \in Scores,
           Practise(q, a, score)
    PROVE  \E S \in SUBSET {Catalogue[a].skill} :
             LET s == Catalogue[a].skill
                 rows == Append(exercises[s], [activity |-> a, score |-> score])
                 t == [Idle EXCEPT !.pc = "practice", !.activity = a, !.score = score,
                                   !.loaded = level, !.written = Up(S)]
             IN  /\ Open(q, t) /\ t \in Transaction /\ MayHandIn(q)
                 /\ \A k \in S : Advances(k, level[k], rows, LevelOf(a, k), sittings,
                                          Folded(ema[k], score))
<1> DEFINE s == Catalogue[a].skill
           rows == Append(exercises[s], [activity |-> a, score |-> score])
           rises == Advances(s, level[s], rows, LevelOf(a, s), sittings, Folded(ema[s], score))
           S == {k \in {s} : rises}
           t == [Idle EXCEPT !.pc = "practice", !.activity = a, !.score = score,
                             !.loaded = level, !.written = Up(S)]
<1>1. Open(q, t) /\ MayHandIn(q)
  BY DEF Practise
<1>2. \A k \in S : Advances(k, level[k], rows, LevelOf(a, k), sittings, Folded(ema[k], score))
  OBVIOUS
<1>3. Up(S) \in [Skills -> Levels]
  BY <1>2, AdvancesBelowTop, UpIsLevels
<1>4. S \in SUBSET {s}
  OBVIOUS
<1> HIDE DEF S
<1>5. t \in Transaction
  BY <1>3, MasteryAssumption, IdleIsTransaction DEF Idle, Transaction, Typed, TypeOK
<1> QED
  BY <1>1, <1>2, <1>4, <1>5

LEMMA PractiseTyped ==
    ASSUME Typed, NEW q \in Requests, NEW a \in Activities, NEW score \in Scores,
           Practise(q, a, score)
    PROVE  Typed'
<1> DEFINE T(S) == [Idle EXCEPT !.pc = "practice", !.activity = a, !.score = score,
                                !.loaded = level, !.written = Up(S)]
<1>1. PICK S : Open(q, T(S)) /\ T(S) \in Transaction
  BY PractiseOpens
<1>2. req'[q] = T(S)
  BY <1>1, Opened
<1>3. ReqFits(q)'
  BY <1>2 DEF ReqFits, Idle
<1> QED
  BY <1>1, <1>3, OpenTyped

LEMMA SitTyped ==
    ASSUME Typed, NEW q \in Requests, NEW u \in Units, NEW answers \in Answers,
           Sit(q, u, answers)
    PROVE  Typed'
<1> DEFINE t == [Idle EXCEPT !.pc = "grade", !.unit = u, !.answers = answers]
<1>1. Open(q, t)
  BY DEF Sit
<1>2. /\ t \in Transaction /\ t.pc = "grade" /\ t.unit = u /\ t.answers = answers
  BY IdleIsTransaction DEF Idle, Transaction
<1>3. req'[q] = t
  BY <1>1, Opened
<1>4. ReqFits(q)'
  BY <1>2, <1>3 DEF ReqFits
<1> QED
  BY <1>1, <1>2, <1>4, OpenTyped

LEMMA GradeOpens ==
    ASSUME Typed, NEW q \in Requests, NEW scores \in Sheet, Grade(q, scores)
    PROVE  \E S \in SUBSET Skills :
             LET t == [req[q] EXCEPT !.pc = "test", !.scores = scores, !.at = now,
                                     !.loaded = level, !.written = Up(S)]
                 tests == Append(sittings, Stamped(req[q], scores, now))
             IN  /\ Open(q, t) /\ t \in Transaction /\ req[q].pc = "grade"
                 /\ \A s \in S : Advances(s, level[s], exercises[s], UnitLevel(req[q].unit),
                                          tests, ema[s])
<1> DEFINE tests == Append(sittings, Stamped(req[q], scores, now))
           S == {s \in Skills : Advances(s, level[s], exercises[s], UnitLevel(req[q].unit),
                                         tests, ema[s])}
           t == [req[q] EXCEPT !.pc = "test", !.scores = scores, !.at = now,
                               !.loaded = level, !.written = Up(S)]
<1>1. Open(q, t) /\ req[q].pc = "grade"
  BY DEF Grade
<1>2. /\ S \in SUBSET Skills
      /\ \A s \in S : Advances(s, level[s], exercises[s], UnitLevel(req[q].unit), tests, ema[s])
  OBVIOUS
<1>3. Up(S) \in [Skills -> Levels]
  BY <1>2, AdvancesBelowTop, UpIsLevels
<1> HIDE DEF S
<1>4. req[q] \in Transaction /\ now \in 0 .. MaxNow /\ level \in [Skills -> Levels]
  BY DEF Typed, TypeOK
<1>5. t \in Transaction
  <2> DEFINE W == Up(S)
  <2>1. W \in [Skills -> Levels]
    BY <1>3
  <2> HIDE DEF W
  <2>2. [req[q] EXCEPT !.pc = "test", !.scores = scores, !.at = now,
                       !.loaded = level, !.written = W] \in Transaction
    BY <1>4, <2>1 DEF Transaction
  <2> QED
    BY <2>2 DEF W
<1> QED
  BY <1>1, <1>2, <1>5

LEMMA GradeTyped ==
    ASSUME Typed, NEW q \in Requests, NEW scores \in Sheet, Grade(q, scores) PROVE Typed'
<1> DEFINE T(S) == [req[q] EXCEPT !.pc = "test", !.scores = scores, !.at = now,
                                  !.loaded = level, !.written = Up(S)]
<1>1. PICK S : Open(q, T(S)) /\ T(S) \in Transaction /\ req[q].pc = "grade"
  BY GradeOpens
<1>2. req'[q] = T(S) /\ req[q] \in Transaction /\ ReqFits(q)
  BY <1>1, Opened DEF Typed, TypeOK
<1>3. /\ req'[q].pc = "test" /\ req'[q].unit = req[q].unit /\ req'[q].answers = req[q].answers
      /\ req'[q].scores = scores
  BY <1>2 DEF Transaction
<1>4. ReqFits(q)'
  BY <1>1, <1>2, <1>3 DEF ReqFits
<1> QED
  BY <1>1, <1>4, OpenTyped

LEMMA PlaceOpens ==
    ASSUME Typed, NEW q \in Requests, NEW p \in Placements, Place(q, p)
    PROVE  LET t == [Idle EXCEPT !.pc = "place", !.at = now, !.loaded = level, !.written = p]
           IN  Open(q, t) /\ t \in Transaction
BY IdleIsTransaction, MasteryAssumption DEF Place, Idle, Transaction, Typed, TypeOK

LEMMA CorrectedIsLevel ==
    ASSUME Typed, NEW s \in Skills
    PROVE  /\ Corrected(s) \in Levels
           /\ \/ Corrected(s) = level[s]
              \/ Corrected(s) = level[s] + 1 /\ Recent(s) > 90 * Sample
              \/ Corrected(s) = level[s] - 1
<1>1. level[s] \in Levels /\ Levels = 1 .. MaxLevel /\ MaxLevel \in Nat
  BY MasteryAssumption DEF Typed, TypeOK, Levels
<1>2. CASE Recent(s) > 90 * Sample /\ level[s] < MaxLevel
  <2>1. Corrected(s) = level[s] + 1
    BY Zenon, <1>2 DEF Corrected
  <2> QED
    BY <1>1, <1>2, <2>1
<1>3. CASE ~(Recent(s) > 90 * Sample /\ level[s] < MaxLevel)
  <2>1. Corrected(s) = IF Recent(s) < 40 * Sample /\ level[s] > 1 THEN level[s] - 1 ELSE level[s]
    BY Zenon, <1>3 DEF Corrected
  <2>2. CASE Recent(s) < 40 * Sample /\ level[s] > 1
    <3>1. Corrected(s) = level[s] - 1
      BY Zenon, <2>1, <2>2
    <3> QED
      BY <1>1, <2>2, <3>1
  <2>3. CASE ~(Recent(s) < 40 * Sample /\ level[s] > 1)
    BY <1>1, <2>1, <2>3, Zenon
  <2> QED
    BY <2>2, <2>3
<1> QED
  BY <1>2, <1>3

LEMMA CorrectOpens ==
    ASSUME Typed, NEW q \in Requests, NEW s \in Skills, Correct(q, s)
    PROVE  LET t == [Idle EXCEPT !.pc = "correct", !.skill = s, !.applied = corrected \cup {s},
                                 !.loaded = level,
                                 !.written = [level EXCEPT ![s] = Corrected(s)]]
           IN  Open(q, t) /\ t \in Transaction
<1> DEFINE t == [Idle EXCEPT !.pc = "correct", !.skill = s, !.applied = corrected \cup {s},
                             !.loaded = level, !.written = [level EXCEPT ![s] = Corrected(s)]]
<1>1. Open(q, t)
  BY DEF Correct
<1>2. [level EXCEPT ![s] = Corrected(s)] \in [Skills -> Levels]
  BY CorrectedIsLevel DEF Typed, TypeOK
<1>3. t \in Transaction
  BY <1>2, IdleIsTransaction DEF Idle, Transaction, Typed, TypeOK
<1> QED
  BY <1>1, <1>3

LEMMA FoldedIsScore ==
    ASSUME NEW old \in Nat \cup {None}, NEW score \in Scores PROVE Folded(old, score) \in Nat
<1>1. score \in Nat
  BY MasteryAssumption
<1>2. CASE old = None
  BY <1>1, <1>2 DEF Folded
<1>3. CASE old # None
  <2>1. old \in Nat
    BY <1>3
  <2>2. (70 * old + 3000 * score + 50) \in Nat
    BY <1>1, <2>1
  <2>3. (70 * old + 3000 * score + 50) \div 100 \in Nat
    BY <2>2
  <2> QED
    BY <1>3, <2>3 DEF Folded
<1> QED
  BY <1>2, <1>3

\* A commit ends its own transaction only, and leaves levels.
LEMMA Finished ==
    ASSUME Typed, NEW q \in Requests, Finish(q)
    PROVE  /\ req'[q] = Idle /\ \A r \in Requests : r # q => req'[r] = req[r]
           /\ req' \in [Requests -> Transaction] /\ \A r \in Requests : ReqFits(r)'
           /\ level' \in [Skills -> Levels] /\ now' = now
<1>1. req'[q] = Idle /\ \A r \in Requests : r # q => req'[r] = req[r]
  BY DEF Finish, Typed, TypeOK
<1>2. req' \in [Requests -> Transaction]
  BY IdleIsTransaction DEF Finish, Typed, TypeOK
<1>3. \A r \in Requests : ReqFits(r)'
  BY <1>1, IdleIsTransaction DEF Typed, ReqFits
<1>4. req[q].written \in [Skills -> Levels] /\ level \in [Skills -> Levels]
  BY DEF Typed, TypeOK, Transaction
<1>5. level' \in [Skills -> Levels]
  BY <1>4 DEF Finish
<1> QED
  BY <1>1, <1>2, <1>3, <1>5 DEF Finish

LEMMA CommitPracticeTyped ==
    ASSUME Typed, NEW q \in Requests, CommitPractice(q) PROVE Typed'
<1> DEFINE t == req[q]
           s == Catalogue[t.activity].skill
           row == [activity |-> t.activity, score |-> t.score]
           rows == Append(exercises[s], row)
<1>1. /\ Finish(q) /\ t.activity \in Activities /\ t.score \in Scores /\ s \in Skills
      /\ UNCHANGED <<ended, corrected, placed, granted, sittings, passed>>
  BY ActivityTypes DEF CommitPractice, Typed, ReqFits, placement
<1>2. /\ req' \in [Requests -> Transaction] /\ \A r \in Requests : ReqFits(r)'
      /\ level' \in [Skills -> Levels] /\ now' = now
  BY <1>1, Finished
<1>3. rows \in Seq(Exercise)
  <2>1. row \in Exercise /\ exercises[s] \in Seq(Exercise)
    BY <1>1 DEF Exercise, Typed, TypeOK
  <2> HIDE DEF row, s
  <2> QED
    BY <2>1, Appended
<1>4. exercises' \in [Skills -> Seq(Exercise)]
  <2>1. exercises' = [exercises EXCEPT ![s] = rows]
    BY DEF CommitPractice
  <2> HIDE DEF rows, s
  <2> QED
    BY <1>1, <1>3, <2>1 DEF Typed, TypeOK
<1>5. ema' \in [Skills -> Nat \cup {None}]
  <2>1. Folded(ema[s], t.score) \in Nat
    BY <1>1, FoldedIsScore DEF Typed, TypeOK
  <2>2. ema' = [ema EXCEPT ![s] = Folded(ema[s], t.score)]
    BY <1>1 DEF CommitPractice, Typed, TypeOK
  <2> HIDE DEF s, t
  <2> QED
    BY <2>1, <2>2 DEF Typed, TypeOK
<1>6. blocks' \in [Units -> SUBSET Skills]
  <2> DEFINE u == Catalogue[t.activity].unit
  <2>1. blocks' = [v \in Units |-> IF v = u THEN Flagged(v, s, rows) ELSE blocks[v]]
    BY DEF CommitPractice
  <2> HIDE DEF rows, s, u
  <2>2. \A v \in Units : blocks[v] \subseteq Skills /\ Flagged(v, s, rows) \subseteq Skills
    BY <1>1 DEF Flagged, Typed, TypeOK
  <2> QED
    BY <2>1, <2>2
<1> QED
  BY <1>1, <1>2, <1>4, <1>5, <1>6 DEF Typed, TypeOK

LEMMA SittingIs ==
    ASSUME Typed, NEW q \in Requests, req[q].pc = "test"
    PROVE  Stamped(req[q], req[q].scores, req[q].at) \in Sitting
BY DEF Typed, TypeOK, Transaction, ReqFits, Stamped, Sitting

LEMMA CommitTestTyped == ASSUME Typed, NEW q \in Requests, CommitTest(q) PROVE Typed'
<1> DEFINE t == req[q]
           new == Stamped(t, t.scores, t.at)
<1>1. /\ Finish(q) /\ t.pc = "test"
      /\ UNCHANGED <<ended, corrected, placed, granted, ema, exercises, blocks>>
  BY DEF CommitTest, placement
<1>2. /\ req' \in [Requests -> Transaction] /\ \A r \in Requests : ReqFits(r)'
      /\ level' \in [Skills -> Levels] /\ now' = now
  BY <1>1, Finished
<1>3. sittings' \in Seq(Sitting)
  <2>1. new \in Sitting /\ sittings \in Seq(Sitting)
    BY <1>1, SittingIs DEF Typed, TypeOK
  <2>2. sittings' = Append(sittings, new)
    BY DEF CommitTest
  <2> HIDE DEF new
  <2> QED
    BY <2>1, <2>2, Appended
<1>4. passed' \in [Units -> BOOLEAN]
  <2>1. PassedAfter(t.unit, t.scores) \in BOOLEAN
    BY DEF PassedAfter
  <2>2. passed' = [passed EXCEPT ![t.unit] = PassedAfter(t.unit, t.scores)]
    BY DEF CommitTest
  <2> QED
    BY <2>1, <2>2 DEF Typed, TypeOK
<1> QED
  BY <1>1, <1>2, <1>3, <1>4 DEF Typed, TypeOK

LEMMA CommitPlaceTyped == ASSUME Typed, NEW q \in Requests, CommitPlace(q) PROVE Typed'
<1>1. /\ Finish(q) /\ ended' = req[q].at /\ corrected' = {}
      /\ placed' = [s \in Skills |-> IF req[q].written[s] > placed[s]
                                     THEN req[q].written[s] ELSE placed[s]]
      /\ UNCHANGED <<granted, ema, exercises, blocks, sittings, passed>>
  BY DEF CommitPlace, evidence
<1>2. req[q].at \in 0 .. MaxNow /\ placed' \in [Skills -> Levels]
  BY <1>1 DEF Typed, TypeOK, Transaction
<1> QED
  BY <1>1, <1>2, Finished DEF Typed, TypeOK

LEMMA CommitCorrectTyped == ASSUME Typed, NEW q \in Requests, CommitCorrect(q) PROVE Typed'
<1> DEFINE t == req[q]
           more == IF t.written[t.skill] > t.loaded[t.skill]
                   THEN granted[t.skill] \cup {t.loaded[t.skill]} ELSE granted[t.skill]
<1>1. /\ Finish(q) /\ t.skill \in Skills /\ corrected' = t.applied
      /\ UNCHANGED <<ended, placed, ema, exercises, blocks, sittings, passed>>
  BY DEF CommitCorrect, evidence, Typed, ReqFits
<1>2. t.applied \subseteq Skills /\ more \subseteq Levels
  BY <1>1 DEF Typed, TypeOK, Transaction
<1>3. granted' = [granted EXCEPT ![t.skill] = more]
  BY <1>1 DEF CommitCorrect, Typed, TypeOK
<1> HIDE DEF more
<1>4. granted' \in [Skills -> SUBSET Levels]
  BY <1>2, <1>3 DEF Typed, TypeOK
<1> QED
  BY <1>1, <1>2, <1>4, Finished DEF Typed, TypeOK

LEMMA TypedNext == Typed /\ [Next]_vars => Typed'
<1> SUFFICES ASSUME Typed, [Next]_vars PROVE Typed'
  OBVIOUS
<1>1. ASSUME NEW q \in Requests, NEW a \in Activities, NEW score \in Scores,
             Practise(q, a, score)
      PROVE  Typed'
  BY <1>1, PractiseTyped
<1>2. ASSUME NEW q \in Requests, NEW u \in Units, NEW answers \in Answers, Sit(q, u, answers)
      PROVE  Typed'
  BY <1>2, SitTyped
<1>3. ASSUME NEW q \in Requests, NEW scores \in Sheet, Grade(q, scores) PROVE Typed'
  BY <1>3, GradeTyped
<1>4. ASSUME NEW q \in Requests, NEW p \in Placements, Place(q, p) PROVE Typed'
  <2> DEFINE t == [Idle EXCEPT !.pc = "place", !.at = now, !.loaded = level, !.written = p]
  <2>1. Open(q, t) /\ t \in Transaction
    BY <1>4, PlaceOpens
  <2>2. req'[q] = t
    BY <2>1, Opened
  <2>3. ReqFits(q)'
    BY <2>2 DEF ReqFits, Idle
  <2> QED
    BY <2>1, <2>3, OpenTyped
<1>5. ASSUME NEW q \in Requests, NEW s \in Skills, Correct(q, s) PROVE Typed'
  <2> DEFINE t == [Idle EXCEPT !.pc = "correct", !.skill = s, !.applied = corrected \cup {s},
                               !.loaded = level,
                               !.written = [level EXCEPT ![s] = Corrected(s)]]
  <2>1. Open(q, t) /\ t \in Transaction
    BY <1>5, CorrectOpens
  <2>2. req'[q] = t
    BY <2>1, Opened
  <2>3. ReqFits(q)'
    BY <2>2 DEF ReqFits, Idle
  <2> QED
    BY <2>1, <2>3, OpenTyped
<1>6. ASSUME NEW q \in Requests,
             CommitPractice(q) \/ CommitTest(q) \/ CommitPlace(q) \/ CommitCorrect(q)
      PROVE  Typed'
  BY <1>6, CommitPracticeTyped, CommitTestTyped, CommitPlaceTyped, CommitCorrectTyped
<1>7. ASSUME NEW q \in Requests, Fail(q) PROVE Typed'
  <2>1. Open(q, Idle)
    BY <1>7 DEF Fail
  <2>2. req'[q] = Idle
    BY <2>1, Opened
  <2>3. ReqFits(q)'
    BY <2>2, IdleIsTransaction DEF ReqFits
  <2> QED
    BY <2>1, <2>3, IdleIsTransaction, OpenTyped
<1>8. CASE Tick
  BY <1>8, MasteryAssumption DEF Tick, Typed, TypeOK, ReqFits, placement, evidence
<1>9. CASE UNCHANGED vars
  BY <1>9 DEF vars, Typed, TypeOK, ReqFits, placement, evidence
<1> QED
  BY <1>1, <1>2, <1>3, <1>4, <1>5, <1>6, <1>7, <1>8, <1>9 DEF Next

LEMMA TypedInit == Init => Typed
<1> SUFFICES ASSUME Init PROVE Typed
  OBVIOUS
<1>1. exercises \in [Skills -> Seq(Exercise)] /\ sittings \in Seq(Sitting)
  BY EmptySeq DEF Init
<1>2. now \in 0 .. MaxNow /\ ended \in 0 .. MaxNow \cup {None} /\ corrected \subseteq Skills
  BY MasteryAssumption DEF Init
<1>3. placed \in [Skills -> Levels] /\ level \in [Skills -> Levels]
  BY IdleIsTransaction DEF Init
<1>4. /\ ema \in [Skills -> Nat \cup {None}] /\ blocks \in [Units -> SUBSET Skills]
      /\ passed \in [Units -> BOOLEAN] /\ granted \in [Skills -> SUBSET Levels]
  BY DEF Init
<1>5. req \in [Requests -> Transaction] /\ \A q \in Requests : req[q] = Idle
  BY IdleIsTransaction DEF Init
<1>6. TypeOK
  BY <1>1, <1>2, <1>3, <1>4, <1>5 DEF TypeOK
<1> QED
  BY <1>5, <1>6, IdleIsTransaction DEF Typed, ReqFits

\* Type correctness of Mastery, for any curriculum: scores, levels and the EMA
\* stay in range, also when advances, corrections and placements that were
\* decided from older rows are committed.
THEOREM TypeCorrect == Spec => []TypeOK
<1>1. Spec => []Typed
  BY TypedInit, TypedNext, PTL DEF Spec
<1>2. Typed => TypeOK
  BY DEF Typed
<1> QED
  BY <1>1, <1>2, PTL

-----------------------------------------------------------------------------
(* Who holds the catalogue                                                 *)

Holds(q) == req[q].pc \in {"practice", "grade", "test"}

OneHolder == \A q, r \in Requests : Holds(q) /\ Holds(r) => q = r

\* The steps of one request, of its transaction and of the clock: what each
\* leaves alone.
Alone(q) == \A r \in Requests : r # q => req'[r] = req[r]

LEMMA PractiseAlone ==
    ASSUME Typed, NEW q \in Requests, NEW a \in Activities, NEW score \in Scores,
           Practise(q, a, score)
    PROVE  /\ Alone(q) /\ req'[q].pc = "practice" /\ \A r \in Requests : ~Holds(r)
           /\ UNCHANGED <<now, placed, granted, level, exercises, blocks, sittings, passed>>
<1> DEFINE T(S) == [Idle EXCEPT !.pc = "practice", !.activity = a, !.score = score,
                                !.loaded = level, !.written = Up(S)]
<1>1. PICK S : Open(q, T(S)) /\ MayHandIn(q)
  BY PractiseOpens
<1>2. T(S).pc = "practice"
  BY DEF Idle
<1> HIDE DEF T
<1> QED
  BY <1>1, <1>2, Opened DEF Alone, MayHandIn, CatalogueFree, Holds

LEMMA SitAlone ==
    ASSUME Typed, NEW q \in Requests, NEW u \in Units, NEW answers \in Answers,
           Sit(q, u, answers)
    PROVE  /\ Alone(q) /\ \A r \in Requests : ~Holds(r)
           /\ req'[q].pc = "grade" /\ req'[q].unit = u
           /\ UNCHANGED <<now, placed, granted, level, exercises, blocks, sittings, passed>>
<1> DEFINE t == [Idle EXCEPT !.pc = "grade", !.unit = u, !.answers = answers]
<1>1. Open(q, t) /\ MayHandIn(q)
  BY DEF Sit
<1>2. t.pc = "grade" /\ t.unit = u
  BY DEF Idle
<1> HIDE DEF t
<1> QED
  BY <1>1, <1>2, Opened DEF Alone, MayHandIn, CatalogueFree, Holds

LEMMA GradeAlone ==
    ASSUME Typed, NEW q \in Requests, NEW scores \in Sheet, Grade(q, scores)
    PROVE  /\ Alone(q) /\ req[q].pc = "grade"
           /\ req'[q].pc = "test" /\ req'[q].unit = req[q].unit /\ req'[q].at = now
           /\ UNCHANGED <<now, placed, granted, level, exercises, blocks, sittings, passed>>
<1> DEFINE T(S) == [req[q] EXCEPT !.pc = "test", !.scores = scores, !.at = now,
                                  !.loaded = level, !.written = Up(S)]
<1>1. PICK S : Open(q, T(S)) /\ req[q].pc = "grade"
  BY GradeOpens
<1>2. T(S).pc = "test" /\ T(S).unit = req[q].unit /\ T(S).at = now
  BY DEF Typed, TypeOK, Transaction
<1> HIDE DEF T
<1> QED
  BY <1>1, <1>2, Opened DEF Alone

\* Steps after which the request holds no catalogue, and which store no
\* evidence.
Aside(q) ==
    /\ Alone(q) /\ req'[q].pc \in {"idle", "place", "correct"}
    /\ UNCHANGED <<now, exercises, blocks, sittings, passed>>

LEMMA Asides ==
    ASSUME Typed, NEW q \in Requests,
           \/ \E p \in Placements : Place(q, p)
           \/ \E s \in Skills : Correct(q, s)
           \/ CommitPlace(q) \/ CommitCorrect(q) \/ Fail(q)
    PROVE  Aside(q)
<1>1. ASSUME NEW p \in Placements, Place(q, p) PROVE Aside(q)
  <2> DEFINE t == [Idle EXCEPT !.pc = "place", !.at = now, !.loaded = level, !.written = p]
  <2>1. Open(q, t) /\ t.pc = "place"
    BY <1>1 DEF Place, Idle
  <2> HIDE DEF t
  <2> QED
    BY <2>1, Opened DEF Aside, Alone
<1>2. ASSUME NEW s \in Skills, Correct(q, s) PROVE Aside(q)
  <2> DEFINE t == [Idle EXCEPT !.pc = "correct", !.skill = s, !.applied = corrected \cup {s},
                               !.loaded = level,
                               !.written = [level EXCEPT ![s] = Corrected(s)]]
  <2>1. Open(q, t) /\ t.pc = "correct"
    BY <1>2 DEF Correct, Idle
  <2> HIDE DEF t
  <2> QED
    BY <2>1, Opened DEF Aside, Alone
<1>3. CASE CommitPlace(q)
  BY <1>3, Finished, IdleIsTransaction DEF CommitPlace, Aside, Alone, evidence
<1>4. CASE CommitCorrect(q)
  BY <1>4, Finished, IdleIsTransaction DEF CommitCorrect, Aside, Alone, evidence
<1>5. CASE Fail(q)
  BY <1>5, Opened, IdleIsTransaction DEF Fail, Aside, Alone
<1> QED
  BY <1>1, <1>2, <1>3, <1>4, <1>5

LEMMA CommitPracticeAlone ==
    ASSUME Typed, NEW q \in Requests, CommitPractice(q)
    PROVE  /\ Alone(q) /\ req[q].pc = "practice" /\ req'[q].pc = "idle"
           /\ UNCHANGED <<now, placed, granted, sittings, passed>>
BY Finished, IdleIsTransaction DEF CommitPractice, Alone, placement

LEMMA CommitTestAlone ==
    ASSUME Typed, NEW q \in Requests, CommitTest(q)
    PROVE  /\ Alone(q) /\ req[q].pc = "test" /\ req'[q].pc = "idle"
           /\ UNCHANGED <<now, placed, granted, exercises, blocks>>
BY Finished, IdleIsTransaction DEF CommitTest, Alone, placement

LEMMA HolderNext == Typed /\ OneHolder /\ [Next]_vars => OneHolder'
<1> SUFFICES ASSUME Typed, OneHolder, [Next]_vars PROVE OneHolder'
  OBVIOUS
<1>1. ASSUME NEW q \in Requests, Alone(q), \A r \in Requests : ~Holds(r) PROVE OneHolder'
  BY <1>1 DEF Alone, OneHolder, Holds
<1>2. ASSUME NEW q \in Requests, Alone(q), Holds(q) \/ ~Holds(q)' PROVE OneHolder'
  BY <1>2 DEF Alone, OneHolder, Holds
<1>3. ASSUME NEW q \in Requests, NEW a \in Activities, NEW score \in Scores,
             Practise(q, a, score)
      PROVE  OneHolder'
  BY <1>1, <1>3, PractiseAlone
<1>4. ASSUME NEW q \in Requests, NEW u \in Units, NEW answers \in Answers, Sit(q, u, answers)
      PROVE  OneHolder'
  BY <1>1, <1>4, SitAlone
<1>5. ASSUME NEW q \in Requests, NEW scores \in Sheet, Grade(q, scores) PROVE OneHolder'
  BY <1>2, <1>5, GradeAlone DEF Holds
<1>6. ASSUME NEW q \in Requests, Aside(q) PROVE OneHolder'
  BY <1>2, <1>6 DEF Aside, Holds
<1>7. ASSUME NEW q \in Requests, CommitPractice(q) \/ CommitTest(q) PROVE OneHolder'
  BY <1>2, <1>7, CommitPracticeAlone, CommitTestAlone DEF Holds
<1>8. CASE req' = req
  BY <1>8 DEF OneHolder, Holds
<1> QED
  BY <1>3, <1>4, <1>5, <1>6, <1>7, <1>8, Asides DEF Next, Tick, vars

-----------------------------------------------------------------------------
(* Sittings                                                                *)

\* What was checked when the test was taken is true of the stamp it gets.
StampFits(q) ==
    /\ req[q].pc = "grade" =>
         \A i \in DOMAIN sittings :
             sittings[i].unit = req[q].unit => now - sittings[i].at >= Cooldown
    /\ req[q].pc = "test" =>
         /\ req[q].at <= now
         /\ \A i \in DOMAIN sittings :
                sittings[i].unit = req[q].unit => req[q].at - sittings[i].at >= Cooldown

StampsFit ==
    /\ \A i \in DOMAIN sittings : sittings[i].at <= now
    /\ \A q \in Requests : StampFits(q)

PassedHasSitting ==
    \A u \in Units :
        passed[u] <=> \E i \in DOMAIN sittings :
            sittings[i].unit = u /\ Meets(sittings[i].scores)

SitInv == Typed /\ OneHolder /\ StampsFit /\ SittingsSpaced /\ PassedHasSitting

LEMMA SittingTypes ==
    ASSUME Typed
    PROVE  /\ now \in Nat /\ Cooldown \in Nat /\ MaxNow \in Nat
           /\ \A q \in Requests : req[q].at \in Nat
           /\ \A i \in DOMAIN sittings : i \in Nat /\ sittings[i].at \in Nat
<1>1. sittings \in Seq(Sitting)
  BY DEF Typed, TypeOK
<1>2. \A i \in DOMAIN sittings : i \in Nat /\ sittings[i] \in Sitting
  BY <1>1, LenProperties, ElementOfSeq
<1> QED
  BY <1>2, MasteryAssumption DEF Typed, TypeOK, Transaction, Sitting

LEMMA NewSitting ==
    ASSUME Typed, NEW q \in Requests, CommitTest(q)
    PROVE  LET k == Len(sittings) + 1
           IN  /\ DOMAIN sittings' = DOMAIN sittings \cup {k}
               /\ \A i \in DOMAIN sittings : i < k /\ sittings'[i] = sittings[i]
               /\ k \in Nat /\ sittings'[k].unit = req[q].unit
               /\ sittings'[k].at = req[q].at /\ sittings'[k].scores = req[q].scores
<1> DEFINE new == Stamped(req[q], req[q].scores, req[q].at)
<1>1. req[q].pc = "test" /\ sittings' = Append(sittings, new)
  BY DEF CommitTest
<1>2. /\ sittings \in Seq(Sitting) /\ new \in Sitting
      /\ new.unit = req[q].unit /\ new.at = req[q].at /\ new.scores = req[q].scores
  BY <1>1, SittingIs DEF Typed, TypeOK, Stamped
<1> HIDE DEF new
<1> QED
  BY <1>1, <1>2, Appended

\* Steps that store no sitting and let no time pass.
LEMMA SittingsKept ==
    ASSUME SitInv, UNCHANGED <<now, sittings, passed>>,
           \A q \in Requests : StampFits(q)'
    PROVE  (StampsFit /\ SittingsSpaced /\ PassedHasSitting)'
BY DEF SitInv, StampsFit, SittingsSpaced, PassedHasSitting

LEMMA AloneKeepsSittings ==
    ASSUME SitInv, NEW q \in Requests, Alone(q), UNCHANGED <<now, sittings, passed>>,
           StampFits(q)'
    PROVE  (StampsFit /\ SittingsSpaced /\ PassedHasSitting)'
<1>1. ASSUME NEW r \in Requests PROVE StampFits(r)'
  <2>1. CASE r = q
    BY <2>1
  <2>2. CASE r # q
    BY <2>2 DEF Alone, SitInv, StampsFit, StampFits
  <2> QED
    BY <2>1, <2>2
<1> QED
  BY <1>1, SittingsKept

LEMMA TestKeepsSittings ==
    ASSUME SitInv, NEW q \in Requests, CommitTest(q)
    PROVE  (StampsFit /\ SittingsSpaced /\ PassedHasSitting)'
<1> DEFINE k == Len(sittings) + 1
           t == req[q]
<1>1. /\ t.pc = "test" /\ req'[q].pc = "idle" /\ Alone(q) /\ now' = now
      /\ passed' = [passed EXCEPT ![t.unit] = PassedAfter(t.unit, t.scores)]
  BY CommitTestAlone DEF SitInv, CommitTest
<1>2. /\ DOMAIN sittings' = DOMAIN sittings \cup {k} /\ k \in Nat
      /\ \A i \in DOMAIN sittings : i < k /\ sittings'[i] = sittings[i]
      /\ sittings'[k].unit = t.unit /\ sittings'[k].at = t.at
      /\ sittings'[k].scores = t.scores
  BY NewSitting DEF SitInv
<1> HIDE DEF k
<1>3. /\ t.at <= now
      /\ \A i \in DOMAIN sittings :
             sittings[i].unit = t.unit => t.at - sittings[i].at >= Cooldown
  BY <1>1 DEF SitInv, StampsFit, StampFits
<1>4. StampsFit'
  <2>1. ASSUME NEW r \in Requests PROVE StampFits(r)'
    <3>1. r = q \/ (req'[r] = req[r] /\ ~Holds(r))
      BY <1>1 DEF Alone, SitInv, OneHolder, Holds
    <3> QED
      BY <1>1, <3>1 DEF StampFits, Holds
  <2>2. \A i \in DOMAIN sittings' : sittings'[i].at <= now'
    BY <1>1, <1>2, <1>3 DEF SitInv, StampsFit
  <2> QED
    BY <2>1, <2>2 DEF StampsFit
<1>5. SittingsSpaced'
  <2> SUFFICES ASSUME NEW i \in DOMAIN sittings \cup {k}, NEW j \in DOMAIN sittings \cup {k},
                      i < j, sittings'[i].unit = sittings'[j].unit
               PROVE  sittings'[j].at - sittings'[i].at >= Cooldown
    BY <1>2 DEF SittingsSpaced
  <2>1. i \in DOMAIN sittings
    BY <1>2, SittingTypes DEF SitInv
  <2>2. CASE j \in DOMAIN sittings
    BY <1>2, <2>1, <2>2 DEF SitInv, SittingsSpaced
  <2>3. CASE j = k
    BY <1>2, <1>3, <2>1, <2>3
  <2> QED
    BY <2>2, <2>3
<1>6. PassedHasSitting'
  <2> SUFFICES ASSUME NEW u \in Units
               PROVE  passed'[u] <=> \E i \in DOMAIN sittings \cup {k} :
                          sittings'[i].unit = u /\ Meets(sittings'[i].scores)
    <3>1. DOMAIN sittings' = DOMAIN sittings \cup {k}
      BY <1>2
    <3> QED
      BY <3>1 DEF PassedHasSitting
  <2>1. passed[u] <=> \E i \in DOMAIN sittings :
            sittings[i].unit = u /\ Meets(sittings[i].scores)
    BY DEF SitInv, PassedHasSitting
  <2>2. (\E i \in DOMAIN sittings \cup {k} :
            sittings'[i].unit = u /\ Meets(sittings'[i].scores))
        <=> \/ \E i \in DOMAIN sittings : sittings[i].unit = u /\ Meets(sittings[i].scores)
            \/ t.unit = u /\ Meets(t.scores)
    BY <1>2
  <2>3. CASE u = t.unit
    <3>1. passed'[u] = PassedAfter(u, t.scores)
      BY <1>1, <2>3 DEF SitInv, Typed, TypeOK
    <3> QED
      BY <2>1, <2>2, <2>3, <3>1 DEF PassedAfter
  <2>4. CASE u # t.unit
    <3>1. passed'[u] = passed[u]
      BY <1>1, <2>4 DEF SitInv, Typed, TypeOK
    <3> QED
      BY <2>1, <2>2, <2>4, <3>1
  <2> QED
    BY <2>3, <2>4
<1> QED
  BY <1>4, <1>5, <1>6

LEMMA SitNext == SitInv /\ [Next]_vars => SitInv'
<1> SUFFICES ASSUME SitInv, [Next]_vars
             PROVE  (StampsFit /\ SittingsSpaced /\ PassedHasSitting)'
  BY TypedNext, HolderNext DEF SitInv
<1> DEFINE Goal == (StampsFit /\ SittingsSpaced /\ PassedHasSitting)'
<1>1. ASSUME NEW q \in Requests, NEW a \in Activities, NEW score \in Scores,
             Practise(q, a, score)
      PROVE  Goal
  <2>1. /\ Alone(q) /\ req'[q].pc = "practice" /\ UNCHANGED <<now, sittings, passed>>
    BY <1>1, PractiseAlone DEF SitInv
  <2>2. StampFits(q)'
    BY <2>1 DEF StampFits
  <2> QED
    BY <2>1, <2>2, AloneKeepsSittings
<1>2. ASSUME NEW q \in Requests, NEW u \in Units, NEW answers \in Answers, Sit(q, u, answers)
      PROVE  Goal
  <2>1. /\ Alone(q) /\ req'[q].pc = "grade" /\ req'[q].unit = u
        /\ UNCHANGED <<now, sittings, passed>>
    BY <1>2, SitAlone DEF SitInv
  <2>2. \A i \in DOMAIN sittings : sittings[i].unit = u => now - sittings[i].at >= Cooldown
    BY <1>2 DEF Sit, CooledDown
  <2>3. StampFits(q)'
    BY <2>1, <2>2 DEF StampFits
  <2> QED
    BY <2>1, <2>3, AloneKeepsSittings
<1>3. ASSUME NEW q \in Requests, NEW scores \in Sheet, Grade(q, scores) PROVE Goal
  <2>1. /\ Alone(q) /\ req[q].pc = "grade" /\ req'[q].pc = "test"
        /\ req'[q].unit = req[q].unit /\ req'[q].at = now /\ UNCHANGED <<now, sittings, passed>>
    BY <1>3, GradeAlone DEF SitInv
  <2>2. StampFits(q) /\ now <= now
    BY SittingTypes DEF SitInv, StampsFit
  <2>3. StampFits(q)'
    BY <2>1, <2>2 DEF StampFits
  <2> QED
    BY <2>1, <2>3, AloneKeepsSittings
<1>4. ASSUME NEW q \in Requests, Aside(q) PROVE Goal
  <2>1. StampFits(q)'
    BY <1>4 DEF Aside, StampFits
  <2> QED
    BY <1>4, <2>1, AloneKeepsSittings DEF Aside
<1>5. ASSUME NEW q \in Requests, CommitPractice(q) PROVE Goal
  <2>1. Alone(q) /\ req'[q].pc = "idle" /\ UNCHANGED <<now, sittings, passed>>
    BY <1>5, CommitPracticeAlone DEF SitInv
  <2>2. StampFits(q)'
    BY <2>1 DEF StampFits
  <2> QED
    BY <2>1, <2>2, AloneKeepsSittings
<1>6. ASSUME NEW q \in Requests, CommitTest(q) PROVE Goal
  BY <1>6, TestKeepsSittings
<1>7. CASE Tick
  <2>1. now' = now + 1 /\ UNCHANGED <<sittings, passed, req>>
    BY <1>7 DEF Tick, evidence
  <2>2. StampsFit'
    <3>1. \A i \in DOMAIN sittings : sittings[i].at <= now + 1
      BY SittingTypes DEF SitInv, StampsFit
    <3>2. ASSUME NEW q \in Requests PROVE StampFits(q)'
      BY <2>1, SittingTypes DEF SitInv, StampsFit, StampFits
    <3> QED
      BY <2>1, <3>1, <3>2 DEF StampsFit
  <2> QED
    BY <2>1, <2>2 DEF SitInv, SittingsSpaced, PassedHasSitting
<1>8. CASE UNCHANGED vars
  <2>1. UNCHANGED <<now, sittings, passed, req>>
    BY <1>8 DEF vars, evidence
  <2>2. \A q \in Requests : StampFits(q)'
    BY <2>1 DEF SitInv, StampsFit, StampFits
  <2> QED
    BY <2>1, <2>2, SittingsKept
<1> QED
  BY <1>1, <1>2, <1>3, <1>4, <1>5, <1>6, <1>7, <1>8, Asides DEF Next, SitInv

LEMMA SitInit == Init => SitInv
<1> SUFFICES ASSUME Init PROVE OneHolder /\ StampsFit /\ SittingsSpaced /\ PassedHasSitting
  BY TypedInit DEF SitInv
<1>1. DOMAIN sittings = {} /\ \A u \in Units : passed[u] = FALSE
  BY DEF Init
<1>2. \A q \in Requests : req[q].pc = "idle"
  BY IdleIsTransaction DEF Init
<1> QED
  BY <1>1, <1>2 DEF OneHolder, Holds, StampsFit, StampFits, SittingsSpaced, PassedHasSitting

\* Two sittings of a unit are a cooldown apart, however many tests are handed
\* in at once, though the cooldown is checked before the speaking section is
\* graded and the stamp is taken after it: the catalogue's rows, held from the
\* check to the commit, are what keeps them apart.
THEOREM CooldownHolds == Spec => []SittingsSpaced
<1>1. Spec => []SitInv
  BY SitInit, SitNext, PTL DEF Spec
<1>2. SitInv => SittingsSpaced
  BY DEF SitInv
<1> QED
  BY <1>1, <1>2, PTL

\* The flag that opens the next unit is set exactly when a stored sitting of
\* the unit meets the criteria.
THEOREM PassedIsRebuilt == Spec => []PassedMatchesSittings
<1>1. Spec => []SitInv
  BY SitInit, SitNext, PTL DEF Spec
<1>2. SitInv => PassedMatchesSittings
  BY DEF SitInv, PassedHasSitting, PassedMatchesSittings, UnitCounts, Newest
<1> QED
  BY <1>1, <1>2, PTL

-----------------------------------------------------------------------------
(* Levels                                                                  *)

\* The evidence of a level, whatever rows it is looked for in.
EarnedBy(rows, tests, s, l) ==
    /\ l \notin BandTest
    /\ \A u \in UnitsForLevel[l] :
           \E i \in DOMAIN tests : tests[i].unit = u /\ Meets(tests[i].scores)
    /\ \E k \in Levels : Cardinality(Counted(rows, s, k)) >= RequiredExercises[l]

\* The rows with what the transaction in flight will commit.
WorkRows(q, s) ==
    IF req[q].pc = "practice" /\ Catalogue[req[q].activity].skill = s
    THEN Append(exercises[s], [activity |-> req[q].activity, score |-> req[q].score])
    ELSE exercises[s]

WorkTests(q) ==
    IF req[q].pc = "test"
    THEN Append(sittings, Stamped(req[q], req[q].scores, req[q].at))
    ELSE sittings

Changes(q, s) == req[q].written[s] # req[q].loaded[s]

\* The levels below the one a request has loaded, down to the placement.
Below(q, s) == \A l \in placed[s] .. req[q].loaded[s] - 1 : Justified(s, l)

\* An advance that was decided is earned by the rows it decided upon, a raise
\* of a correction by a strong week, and the levels below either, down to the
\* placement, are justified already.
RiseFits(q) ==
    /\ req[q].pc \in {"practice", "test"} =>
         \A s \in Skills : Changes(q, s) =>
             /\ req[q].written[s] = req[q].loaded[s] + 1 /\ Below(q, s)
             /\ EarnedBy(WorkRows(q, s), WorkTests(q), s, req[q].loaded[s])
    /\ req[q].pc = "correct" =>
         \A s \in Skills : Changes(q, s) =>
             /\ Below(q, s)
             /\ \/ req[q].written[s] = req[q].loaded[s] - 1
                \/ /\ req[q].written[s] = req[q].loaded[s] + 1
                   /\ s = req[q].skill /\ Strong(s)

LevInv == Typed /\ OneHolder /\ LevelsEarned /\ \A q \in Requests : RiseFits(q)

LEMMA EarnedIsBy ==
    \A s, l : Earned(s, l) <=> EarnedBy(exercises[s], sittings, s, l)
BY DEF Earned, EarnedBy

LEMMA CountedFinite ==
    ASSUME NEW rows \in Seq(Exercise), NEW s, NEW l
    PROVE  /\ IsFiniteSet(Counted(rows, s, l))
           /\ Cardinality(Counted(rows, s, l)) \in Nat
<1>1. Counted(rows, s, l) \subseteq 1 .. Len(rows) /\ 1 \in Int /\ Len(rows) \in Int
  BY LenProperties DEF Counted
<1>2. IsFiniteSet(1 .. Len(rows))
  BY <1>1, FS_Interval
<1>3. IsFiniteSet(Counted(rows, s, l))
  BY <1>1, <1>2, FS_Subset
<1> QED
  BY <1>3, FS_CardinalityType

LEMMA CountedGrows ==
    ASSUME NEW rows \in Seq(Exercise), NEW x \in Exercise, NEW s, NEW l
    PROVE  Cardinality(Counted(Append(rows, x), s, l)) >= Cardinality(Counted(rows, s, l))
<1> DEFINE more == Append(rows, x)
<1>1. /\ more \in Seq(Exercise)
      /\ DOMAIN more = DOMAIN rows \cup {Len(rows) + 1}
      /\ \A i \in DOMAIN rows : more[i] = rows[i]
  BY Appended
<1>2. DOMAIN rows = 1 .. Len(rows) /\ Len(rows) \in Nat
  BY LenProperties
<1> HIDE DEF more
<1>3. \A i \in DOMAIN rows : 1 .. i - 1 \subseteq DOMAIN rows
  BY <1>2
<1>4. Counted(rows, s, l) \subseteq Counted(more, s, l)
  BY <1>1, <1>3 DEF Counted
<1>5. /\ IsFiniteSet(Counted(more, s, l)) /\ Cardinality(Counted(more, s, l)) \in Nat
      /\ Cardinality(Counted(rows, s, l)) \in Nat
  BY <1>1, CountedFinite
<1>6. Cardinality(Counted(rows, s, l)) <= Cardinality(Counted(more, s, l))
  BY <1>4, <1>5, FS_Subset
<1> QED
  BY <1>5, <1>6 DEF more

\* Evidence is only added to.
LEMMA EarnedGrows ==
    ASSUME NEW s, NEW l \in Levels,
           NEW rows \in Seq(Exercise), NEW moreRows,
           moreRows = rows \/ \E x \in Exercise : moreRows = Append(rows, x),
           NEW tests \in Seq(Sitting), NEW moreTests,
           moreTests = tests \/ \E y \in Sitting : moreTests = Append(tests, y),
           EarnedBy(rows, tests, s, l)
    PROVE  EarnedBy(moreRows, moreTests, s, l)
<1>1. \A u \in UnitsForLevel[l] :
          \E i \in DOMAIN moreTests : moreTests[i].unit = u /\ Meets(moreTests[i].scores)
  <2>1. \A i \in DOMAIN tests : i \in DOMAIN moreTests /\ moreTests[i] = tests[i]
    BY Appended
  <2> QED
    BY <2>1 DEF EarnedBy
<1>2. \E k \in Levels : Cardinality(Counted(moreRows, s, k)) >= RequiredExercises[l]
  <2>1. PICK k \in Levels : Cardinality(Counted(rows, s, k)) >= RequiredExercises[l]
    BY DEF EarnedBy
  <2>2. Cardinality(Counted(rows, s, k)) \in Nat /\ RequiredExercises[l] \in Nat
    BY CountedFinite, MasteryAssumption
  <2>3. CASE moreRows = rows
    BY <2>1, <2>3
  <2>4. CASE \E x \in Exercise : moreRows = Append(rows, x)
    <3>1. PICK x \in Exercise : moreRows = Append(rows, x)
      BY <2>4
    <3>2. moreRows \in Seq(Exercise)
      BY <3>1, Appended
    <3>3. Cardinality(Counted(moreRows, s, k)) >= Cardinality(Counted(rows, s, k))
      BY <3>1, CountedGrows
    <3>4. Cardinality(Counted(moreRows, s, k)) \in Nat
      BY <3>2, CountedFinite
    <3> QED
      BY <2>1, <2>2, <3>3, <3>4
  <2> QED
    BY <2>3, <2>4
<1> QED
  BY <1>1, <1>2 DEF EarnedBy

\* What check_level_advancement asks for is evidence of the level.
LEMMA AdvanceEarns ==
    ASSUME NEW s, NEW c \in Levels, NEW m \in Levels, NEW rows \in Seq(Exercise),
           NEW tests, NEW average, Advances(s, c, rows, m, tests, average)
    PROVE  EarnedBy(rows, tests, s, c)
<1>2. /\ Cardinality(LastOnes(rows, s, m)) >= RequiredExercises[c]
      /\ UnitsPassed(tests, c) = UnitsForLevel[c] /\ c \notin BandTest
  BY DEF Advances
<1>3. \A v \in UnitsForLevel[c] :
          \E i \in DOMAIN tests : tests[i].unit = v /\ Meets(tests[i].scores)
  BY <1>2 DEF UnitsPassed, UnitCounts, Newest
<1>4. Cardinality(Counted(rows, s, m)) >= RequiredExercises[c]
  <2>1. LastOnes(rows, s, m) \subseteq Counted(rows, s, m)
    BY DEF LastOnes
  <2>2. IsFiniteSet(Counted(rows, s, m)) /\ Cardinality(Counted(rows, s, m)) \in Nat
    BY CountedFinite
  <2>3. /\ Cardinality(LastOnes(rows, s, m)) <= Cardinality(Counted(rows, s, m))
        /\ IsFiniteSet(LastOnes(rows, s, m))
    BY <2>1, <2>2, FS_Subset
  <2>4. Cardinality(LastOnes(rows, s, m)) \in Nat /\ RequiredExercises[c] \in Nat
    BY <2>3, FS_CardinalityType, MasteryAssumption
  <2> QED
    BY <1>2, <2>2, <2>3, <2>4
<1> QED
  BY <1>2, <1>3, <1>4 DEF EarnedBy

LEMMA LevelTypes ==
    ASSUME Typed, NEW s \in Skills
    PROVE  /\ placed[s] \in Levels /\ level[s] \in Levels
           /\ \A q \in Requests : req[q].loaded[s] \in Levels /\ req[q].written[s] \in Levels
           /\ exercises[s] \in Seq(Exercise) /\ sittings \in Seq(Sitting)
           /\ MaxLevel \in Nat /\ Levels = 1 .. MaxLevel
<1>1. placed[s] \in Levels /\ level[s] \in Levels
  BY DEF Typed, TypeOK
<1>2. ASSUME NEW q \in Requests
      PROVE  req[q].loaded[s] \in Levels /\ req[q].written[s] \in Levels
  <2>1. req[q] \in Transaction
    BY DEF Typed, TypeOK
  <2>2. req[q].loaded \in [Skills -> Levels] /\ req[q].written \in [Skills -> Levels]
    BY <2>1 DEF Transaction
  <2> QED
    BY <2>2
<1>3. exercises[s] \in Seq(Exercise) /\ sittings \in Seq(Sitting)
  BY DEF Typed, TypeOK
<1>4. MaxLevel \in Nat /\ Levels = 1 .. MaxLevel
  BY MasteryAssumption DEF Levels
<1> QED
  BY <1>1, <1>2, <1>3, <1>4

\* Nothing a level rests on is ever taken back.
Grows ==
    /\ \A s \in Skills :
         /\ exercises'[s] = exercises[s]
              \/ \E x \in Exercise : exercises'[s] = Append(exercises[s], x)
         /\ granted[s] \subseteq granted'[s]
         /\ placed[s] <= placed'[s]
    /\ sittings' = sittings \/ \E y \in Sitting : sittings' = Append(sittings, y)

LEMMA StrongGrows ==
    ASSUME Typed, Grows, NEW s \in Skills, Strong(s) PROVE Strong(s)'
<1>1. CASE exercises'[s] = exercises[s]
  BY <1>1 DEF Strong, LastScores
<1>2. CASE \E x \in Exercise : exercises'[s] = Append(exercises[s], x)
  <2>1. PICK x \in Exercise : exercises'[s] = Append(exercises[s], x)
    BY <1>2
  <2>2. PICK k \in DOMAIN exercises[s] :
          k >= Sample /\ Tally(LastScores(s, k)) > 90 * Sample
    BY DEF Strong
  <2>3. exercises[s] \in Seq(Exercise)
    BY LevelTypes
  <2>4. /\ DOMAIN exercises[s] = 1 .. Len(exercises[s]) /\ Len(exercises[s]) \in Nat
        /\ \A i \in DOMAIN exercises[s] : i \in DOMAIN exercises'[s]
                                          /\ exercises'[s][i] = exercises[s][i]
    BY <2>1, <2>3, Appended, LenProperties
  <2>5. \A i \in 1 .. Sample : k - Sample + i \in DOMAIN exercises[s]
    BY <2>2, <2>4, MasteryAssumption
  <2>6. LastScores(s, k)' = LastScores(s, k)
    BY <2>4, <2>5 DEF LastScores
  <2>7. k \in DOMAIN exercises'[s] /\ k >= Sample /\ Tally(LastScores(s, k)') > 90 * Sample
    BY <2>2, <2>4, <2>6
  <2> QED
    BY <2>7 DEF Strong
<1> QED
  BY <1>1, <1>2 DEF Grows

LEMMA JustifiedGrows ==
    ASSUME Typed, Grows, NEW s \in Skills, NEW l \in Levels, Justified(s, l)
    PROVE  Justified(s, l)'
<1>1. CASE Earned(s, l)
  <2>1. EarnedBy(exercises[s], sittings, s, l)
    BY <1>1, EarnedIsBy
  <2>2. EarnedBy(exercises'[s], sittings', s, l)
    BY <2>1, EarnedGrows, LevelTypes DEF Grows
  <2>3. Earned(s, l)'
    BY <2>2 DEF Earned, EarnedBy
  <2> QED
    BY <2>3 DEF Justified
<1>2. CASE l \in granted[s] /\ Strong(s)
  BY <1>2, StrongGrows DEF Grows, Justified
<1> QED
  BY <1>1, <1>2 DEF Justified

\* Levels that were justified down to the placement stay so.
LEMMA RangeGrows ==
    ASSUME Typed, Grows, NEW s \in Skills, NEW c \in Levels,
           \A l \in placed[s] .. c - 1 : Justified(s, l), Typed'
    PROVE  \A l \in placed'[s] .. c - 1 : Justified(s, l)'
<1>1. /\ placed[s] \in Levels /\ placed'[s] \in Levels /\ placed[s] <= placed'[s]
      /\ Levels = 1 .. MaxLevel /\ MaxLevel \in Nat
  BY LevelTypes DEF Grows, Typed, TypeOK
<1>2. ASSUME NEW l \in placed'[s] .. c - 1
      PROVE  l \in placed[s] .. c - 1 /\ l \in Levels
  BY <1>1
<1> QED
  BY <1>2, JustifiedGrows

LEMMA LevelStays ==
    ASSUME LevInv, Grows, Typed', NEW s \in Skills
    PROVE  \A l \in placed'[s] .. level[s] - 1 : Justified(s, l)'
BY RangeGrows, LevelTypes DEF LevInv, LevelsEarned

\* A request that goes on waiting while others work.
LEMMA RiseStays ==
    ASSUME LevInv, Grows, Typed', NEW r \in Requests, req'[r] = req[r],
           UNCHANGED <<exercises, sittings>> \/ ~Holds(r)
    PROVE  RiseFits(r)'
<1>1. ASSUME NEW s \in Skills, Below(r, s) PROVE Below(r, s)'
  <2>1. \A l \in placed'[s] .. req[r].loaded[s] - 1 : Justified(s, l)'
    BY <1>1, RangeGrows, LevelTypes DEF LevInv, Below
  <2> QED
    BY <2>1 DEF Below
<1>2. \A s \in Skills : Changes(r, s)' <=> Changes(r, s)
  BY DEF Changes
<1>3. ASSUME req[r].pc \in {"practice", "test"}, NEW s \in Skills, Changes(r, s)
      PROVE  /\ req'[r].written[s] = req'[r].loaded[s] + 1 /\ Below(r, s)'
             /\ EarnedBy(WorkRows(r, s), WorkTests(r), s, req[r].loaded[s])'
  <2>1. UNCHANGED <<exercises, sittings>>
    BY <1>3 DEF Holds
  <2>2. WorkRows(r, s)' = WorkRows(r, s) /\ WorkTests(r)' = WorkTests(r)
    BY <2>1 DEF WorkRows, WorkTests, Stamped
  <2>3. /\ req[r].written[s] = req[r].loaded[s] + 1 /\ Below(r, s)
        /\ EarnedBy(WorkRows(r, s), WorkTests(r), s, req[r].loaded[s])
    BY <1>3 DEF LevInv, RiseFits
  <2> QED
    BY <1>1, <2>2, <2>3 DEF EarnedBy, Counted
<1>4. ASSUME req[r].pc = "correct", NEW s \in Skills, Changes(r, s)
      PROVE  /\ Below(r, s)'
             /\ \/ req'[r].written[s] = req'[r].loaded[s] - 1
                \/ /\ req'[r].written[s] = req'[r].loaded[s] + 1
                   /\ s = req'[r].skill /\ Strong(s)'
  BY <1>1, <1>4, StrongGrows DEF LevInv, RiseFits
<1> QED
  BY <1>2, <1>3, <1>4 DEF RiseFits

\* Steps that store no evidence and change no level.
LEMMA LevelsKept ==
    ASSUME LevInv, Typed', NEW q \in Requests, Alone(q), RiseFits(q)',
           UNCHANGED <<exercises, sittings, placed, granted, level>>
    PROVE  LevelsEarned' /\ \A r \in Requests : RiseFits(r)'
<1>1. Grows
  BY LevelTypes DEF Grows, LevInv
<1>2. LevelsEarned'
  BY <1>1, LevelStays DEF LevelsEarned
<1>3. ASSUME NEW r \in Requests, r # q PROVE RiseFits(r)'
  BY <1>1, <1>3, RiseStays DEF Alone
<1> QED
  BY <1>2, <1>3

LEMMA LevelOfIsLevel ==
    ASSUME Typed, NEW a \in Activities, NEW s \in Skills PROVE LevelOf(a, s) \in Levels
BY ActivityTypes DEF LevelOf, Typed, TypeOK

LEMMA UnitLevelIsLevel == ASSUME NEW u \in Units PROVE UnitLevel(u) \in Levels
BY MasteryAssumption DEF UnitLevel

LEMMA UpChanges ==
    ASSUME Typed, NEW S, NEW s \in Skills, Up(S)[s] # level[s]
    PROVE  s \in S /\ Up(S)[s] = level[s] + 1
BY DEF Up

LEMMA PractiseEarns ==
    ASSUME LevInv, Typed', NEW q \in Requests, NEW a \in Activities, NEW score \in Scores,
           Practise(q, a, score)
    PROVE  LevelsEarned' /\ \A r \in Requests : RiseFits(r)'
<1> DEFINE c == Catalogue[a].skill
           row == [activity |-> a, score |-> score]
           rows == Append(exercises[c], row)
           T(S) == [Idle EXCEPT !.pc = "practice", !.activity = a, !.score = score,
                                !.loaded = level, !.written = Up(S)]
<1>1. PICK S \in SUBSET {c} :
        /\ Open(q, T(S))
        /\ \A k \in S : Advances(k, level[k], rows, LevelOf(a, k), sittings,
                                 Folded(ema[k], score))
  BY PractiseOpens DEF LevInv
<1>2. /\ req'[q] = T(S) /\ Alone(q)
      /\ UNCHANGED <<exercises, sittings, placed, granted, level>>
  BY <1>1, Opened DEF LevInv, Alone
<1>3. /\ req'[q].pc = "practice" /\ req'[q].activity = a /\ req'[q].score = score
      /\ req'[q].loaded = level /\ req'[q].written = Up(S)
  BY <1>2 DEF Idle
<1>4. c \in Skills
  BY ActivityTypes
<1>5. rows \in Seq(Exercise)
  <2>1. row \in Exercise /\ exercises[c] \in Seq(Exercise)
    BY <1>4, LevelTypes DEF Exercise, LevInv
  <2> HIDE DEF row, c
  <2> QED
    BY <2>1, Appended
<1>6. ASSUME NEW s \in Skills, Changes(q, s)'
      PROVE  /\ req'[q].written[s] = req'[q].loaded[s] + 1 /\ Below(q, s)'
             /\ EarnedBy(WorkRows(q, s)', WorkTests(q)', s, req'[q].loaded[s])
  <2>1. s = c /\ s \in S /\ Up(S)[s] = level[s] + 1
    BY <1>1, <1>3, <1>6, UpChanges DEF Changes, LevInv
  <2>2. Advances(s, level[s], rows, LevelOf(a, s), sittings, Folded(ema[s], score))
    BY <1>1, <2>1
  <2>3. level[s] \in Levels /\ LevelOf(a, s) \in Levels
    BY LevelTypes, LevelOfIsLevel DEF LevInv
  <2> HIDE DEF rows
  <2>4. EarnedBy(rows, sittings, s, level[s])
    BY <1>5, <2>2, <2>3, AdvanceEarns
  <2>5. WorkRows(q, s)' = rows /\ WorkTests(q)' = sittings
    BY <1>2, <1>3, <2>1 DEF WorkRows, WorkTests, rows
  <2>6. \A l \in placed[s] .. level[s] - 1 : Justified(s, l)'
    BY <1>2 DEF LevInv, LevelsEarned, Justified, Earned, Strong, LastScores
  <2>7. /\ req'[q].written[s] = level[s] + 1 /\ req'[q].loaded[s] = level[s]
        /\ placed'[s] = placed[s]
    BY <1>2, <1>3, <2>1
  <2>8. Below(q, s)'
    BY <2>6, <2>7 DEF Below
  <2>9. EarnedBy(WorkRows(q, s)', WorkTests(q)', s, req'[q].loaded[s])
    BY <2>4, <2>5, <2>7
  <2> QED
    BY <2>7, <2>8, <2>9
<1>7. RiseFits(q)'
  BY <1>3, <1>6 DEF RiseFits
<1> QED
  BY <1>2, <1>7, LevelsKept

LEMMA GradeEarns ==
    ASSUME LevInv, Typed', NEW q \in Requests, NEW scores \in Sheet, Grade(q, scores)
    PROVE  LevelsEarned' /\ \A r \in Requests : RiseFits(r)'
<1> DEFINE tests == Append(sittings, Stamped(req[q], scores, now))
           T(S) == [req[q] EXCEPT !.pc = "test", !.scores = scores, !.at = now,
                                  !.loaded = level, !.written = Up(S)]
<1>1. PICK S \in SUBSET Skills :
        /\ Open(q, T(S)) /\ req[q].pc = "grade"
        /\ \A s \in S : Advances(s, level[s], exercises[s], UnitLevel(req[q].unit),
                                 tests, ema[s])
  BY GradeOpens DEF LevInv
<1>2. /\ req'[q] = T(S) /\ Alone(q) /\ now' = now
      /\ UNCHANGED <<exercises, sittings, placed, granted, level>>
  BY <1>1, Opened DEF LevInv, Alone
<1>3. /\ req'[q].pc = "test" /\ req'[q].unit = req[q].unit /\ req'[q].answers = req[q].answers
      /\ req'[q].scores = scores /\ req'[q].at = now
      /\ req'[q].loaded = level /\ req'[q].written = Up(S)
  BY <1>2 DEF LevInv, Typed, TypeOK, Transaction
<1>4. req[q].unit \in Units
  BY <1>1 DEF LevInv, Typed, ReqFits
<1>5. ASSUME NEW s \in Skills, Changes(q, s)'
      PROVE  /\ req'[q].written[s] = req'[q].loaded[s] + 1 /\ Below(q, s)'
             /\ EarnedBy(WorkRows(q, s)', WorkTests(q)', s, req'[q].loaded[s])
  <2>1. s \in S /\ Up(S)[s] = level[s] + 1
    BY <1>1, <1>3, <1>5, UpChanges DEF Changes, LevInv
  <2>2. Advances(s, level[s], exercises[s], UnitLevel(req[q].unit), tests, ema[s])
    BY <1>1, <2>1
  <2>3. /\ level[s] \in Levels /\ UnitLevel(req[q].unit) \in Levels
        /\ exercises[s] \in Seq(Exercise)
    BY <1>4, LevelTypes, UnitLevelIsLevel DEF LevInv
  <2> HIDE DEF tests
  <2>4. EarnedBy(exercises[s], tests, s, level[s])
    BY <2>2, <2>3, AdvanceEarns
  <2>5. WorkRows(q, s)' = exercises[s] /\ WorkTests(q)' = tests
    BY <1>2, <1>3 DEF WorkRows, WorkTests, Stamped, tests
  <2>6. \A l \in placed[s] .. level[s] - 1 : Justified(s, l)'
    BY <1>2 DEF LevInv, LevelsEarned, Justified, Earned, Strong, LastScores
  <2>7. /\ req'[q].written[s] = level[s] + 1 /\ req'[q].loaded[s] = level[s]
        /\ placed'[s] = placed[s]
    BY <1>2, <1>3, <2>1
  <2>8. Below(q, s)'
    BY <2>6, <2>7 DEF Below
  <2>9. EarnedBy(WorkRows(q, s)', WorkTests(q)', s, req'[q].loaded[s])
    BY <2>4, <2>5, <2>7
  <2> QED
    BY <2>7, <2>8, <2>9
<1>6. RiseFits(q)'
  BY <1>3, <1>5 DEF RiseFits, EarnedBy, Counted
<1> QED
  BY <1>2, <1>6, LevelsKept

LEMMA CorrectEarns ==
    ASSUME LevInv, Typed', NEW q \in Requests, NEW k \in Skills, Correct(q, k)
    PROVE  LevelsEarned' /\ \A r \in Requests : RiseFits(r)'
<1> DEFINE w == [level EXCEPT ![k] = Corrected(k)]
           t == [Idle EXCEPT !.pc = "correct", !.skill = k, !.applied = corrected \cup {k},
                             !.loaded = level, !.written = w]
<1>1. Open(q, t) /\ Len(exercises[k]) >= Sample
  BY DEF Correct
<1>2. /\ req'[q] = t /\ Alone(q)
      /\ UNCHANGED <<exercises, sittings, placed, granted, level>>
  BY <1>1, Opened DEF LevInv, Alone
<1>3. /\ req'[q].pc = "correct" /\ req'[q].skill = k
      /\ req'[q].loaded = level /\ req'[q].written = w
  BY <1>2 DEF Idle
<1>4. ASSUME Recent(k) > 90 * Sample PROVE Strong(k)'
  <2>1. exercises[k] \in Seq(Exercise)
    BY LevelTypes DEF LevInv
  <2>2. Len(exercises[k]) \in DOMAIN exercises[k]
    BY <1>1, <2>1, LenProperties, MasteryAssumption
  <2>3. Strong(k)
    BY <1>1, <1>4, <2>2 DEF Strong, Recent
  <2> QED
    BY <1>2, <2>3 DEF Strong, LastScores
<1>5. ASSUME NEW s \in Skills, Changes(q, s)'
      PROVE  /\ Below(q, s)'
             /\ \/ req'[q].written[s] = req'[q].loaded[s] - 1
                \/ /\ req'[q].written[s] = req'[q].loaded[s] + 1
                   /\ s = req'[q].skill /\ Strong(s)'
  <2>1. s = k /\ w[s] = Corrected(k) /\ w[s] # level[s]
    BY <1>3, <1>5 DEF Changes, LevInv, Typed, TypeOK
  <2>2. \/ Corrected(k) = level[k] + 1 /\ Recent(k) > 90 * Sample
        \/ Corrected(k) = level[k] - 1
    BY <2>1, CorrectedIsLevel DEF LevInv
  <2>3. \A l \in placed[s] .. level[s] - 1 : Justified(s, l)'
    BY <1>2 DEF LevInv, LevelsEarned, Justified, Earned, Strong, LastScores
  <2>4. Below(q, s)'
    BY <1>2, <1>3, <2>3 DEF Below
  <2> HIDE DEF w
  <2> QED
    BY <1>3, <1>4, <2>1, <2>2, <2>4
<1>6. RiseFits(q)'
  BY <1>3, <1>5 DEF RiseFits
<1> QED
  BY <1>2, <1>6, LevelsKept

\* A commit whose written levels are justified, and that stores what they rest
\* on.
LEMMA CommitEarns ==
    ASSUME LevInv, Typed', NEW q \in Requests, Finish(q), Grows,
           \A r \in Requests : r # q => UNCHANGED <<exercises, sittings>> \/ ~Holds(r),
           \A s \in Skills : Changes(q, s) =>
               \A l \in placed'[s] .. req[q].written[s] - 1 : Justified(s, l)'
    PROVE  LevelsEarned' /\ \A r \in Requests : RiseFits(r)'
<1>1. /\ req'[q].pc = "idle" /\ \A r \in Requests : r # q => req'[r] = req[r]
  BY Finished, IdleIsTransaction DEF LevInv
<1>2. ASSUME NEW s \in Skills PROVE \A l \in placed'[s] .. level'[s] - 1 : Justified(s, l)'
  <2>1. CASE Changes(q, s)
    <3>1. level'[s] = req[q].written[s]
      BY <2>1 DEF Finish, Changes
    <3> QED
      BY <2>1, <3>1
  <2>2. CASE ~Changes(q, s)
    <3>1. level'[s] = level[s]
      BY <2>2 DEF Finish, Changes
    <3> QED
      BY <3>1, LevelStays
  <2> QED
    BY <2>1, <2>2
<1>3. LevelsEarned'
  BY <1>2 DEF LevelsEarned
<1>4. ASSUME NEW r \in Requests PROVE RiseFits(r)'
  <2>1. CASE r = q
    BY <1>1, <2>1 DEF RiseFits
  <2>2. CASE r # q
    BY <1>1, <2>2, RiseStays
  <2> QED
    BY <2>1, <2>2
<1> QED
  BY <1>3, <1>4

\* An advance that is committed with the evidence it was decided upon.
LEMMA AdvanceCommits ==
    ASSUME LevInv, Typed', NEW q \in Requests, req[q].pc \in {"practice", "test"}, Grows,
           sittings' = WorkTests(q), \A s \in Skills : exercises'[s] = WorkRows(q, s),
           NEW s \in Skills, Changes(q, s)
    PROVE  \A l \in placed'[s] .. req[q].written[s] - 1 : Justified(s, l)'
<1>0. PICK c \in Levels : c = req[q].loaded[s]
  BY LevelTypes DEF LevInv
<1>1. /\ req[q].written[s] = c + 1 /\ Below(q, s)
      /\ EarnedBy(WorkRows(q, s), WorkTests(q), s, c)
  BY <1>0 DEF LevInv, RiseFits
<1>2. c \in Levels /\ c \in Nat /\ placed'[s] \in Nat
  <2>1. c \in Levels /\ placed'[s] \in Levels /\ Levels = 1 .. MaxLevel /\ MaxLevel \in Nat
    BY LevelTypes DEF LevInv, Typed, TypeOK
  <2> QED
    BY <2>1
<1>3. Justified(s, c)'
  <2>1. exercises'[s] = WorkRows(q, s)
    OBVIOUS
  <2>2. EarnedBy(exercises'[s], sittings', s, c)
    BY <1>1, <2>1
  <2>3. Earned(s, c)'
    BY <2>2 DEF Earned, EarnedBy
  <2> QED
    BY <2>3 DEF Justified
<1>4. \A l \in placed'[s] .. c - 1 : Justified(s, l)'
  BY <1>1, <1>2, RangeGrows, <1>0 DEF LevInv, Below
<1>5. \A l \in placed'[s] .. req[q].written[s] - 1 : l = c \/ l \in placed'[s] .. c - 1
  BY <1>1, <1>2
<1> QED
  BY <1>3, <1>4, <1>5

LEMMA CommitPracticeEarns ==
    ASSUME LevInv, Typed', NEW q \in Requests, CommitPractice(q)
    PROVE  LevelsEarned' /\ \A r \in Requests : RiseFits(r)'
<1> DEFINE t == req[q]
           c == Catalogue[t.activity].skill
           row == [activity |-> t.activity, score |-> t.score]
<1>1. /\ t.pc = "practice" /\ Finish(q) /\ UNCHANGED <<placed, granted, sittings>>
      /\ exercises' = [exercises EXCEPT ![c] = Append(exercises[c], row)]
  BY DEF CommitPractice, placement
<1>2. t.activity \in Activities /\ t.score \in Scores
  BY <1>1 DEF LevInv, Typed, ReqFits
<1>3. c \in Skills /\ row \in Exercise
  BY <1>2, ActivityTypes DEF Exercise
<1>4. \A s \in Skills : exercises'[s] = WorkRows(q, s)
  BY <1>1, <1>3 DEF WorkRows, LevInv, Typed, TypeOK
<1>5. sittings' = WorkTests(q)
  BY <1>1 DEF WorkTests
<1>6. Grows
  <2> HIDE DEF row, c
  <2>1. \A s \in Skills : \/ exercises'[s] = exercises[s]
                          \/ \E x \in Exercise : exercises'[s] = Append(exercises[s], x)
    BY <1>1, <1>3 DEF LevInv, Typed, TypeOK
  <2>2. \A s \in Skills : granted[s] \subseteq granted'[s] /\ placed[s] <= placed'[s]
    BY <1>1, LevelTypes DEF LevInv
  <2> QED
    BY <1>1, <2>1, <2>2 DEF Grows
<1>7. \A r \in Requests : r # q => ~Holds(r)
  BY <1>1 DEF LevInv, OneHolder, Holds
<1>8. \A s \in Skills : Changes(q, s) =>
          \A l \in placed'[s] .. req[q].written[s] - 1 : Justified(s, l)'
  BY <1>1, <1>4, <1>5, <1>6, AdvanceCommits
<1> QED
  BY <1>1, <1>6, <1>7, <1>8, CommitEarns

LEMMA CommitTestEarns ==
    ASSUME LevInv, Typed', NEW q \in Requests, CommitTest(q)
    PROVE  LevelsEarned' /\ \A r \in Requests : RiseFits(r)'
<1> DEFINE new == Stamped(req[q], req[q].scores, req[q].at)
<1>1. /\ req[q].pc = "test" /\ Finish(q) /\ UNCHANGED <<placed, granted, exercises>>
      /\ sittings' = Append(sittings, new)
  BY DEF CommitTest, placement
<1>2. \A s \in Skills : exercises'[s] = WorkRows(q, s)
  BY <1>1 DEF WorkRows
<1>3. sittings' = WorkTests(q) /\ new \in Sitting
  BY <1>1, SittingIs DEF WorkTests, LevInv
<1>4. Grows
  <2> HIDE DEF new
  <2>1. \A s \in Skills : placed[s] \in Nat
    BY LevelTypes DEF LevInv
  <2>2. \A s \in Skills : granted[s] \subseteq granted'[s] /\ placed[s] <= placed'[s]
    BY <1>1, <2>1
  <2> QED
    BY <1>1, <1>3, <2>2 DEF Grows
<1>5. \A r \in Requests : r # q => ~Holds(r)
  BY <1>1 DEF LevInv, OneHolder, Holds
<1>6. \A s \in Skills : Changes(q, s) =>
          \A l \in placed'[s] .. req[q].written[s] - 1 : Justified(s, l)'
  BY <1>1, <1>2, <1>3, <1>4, AdvanceCommits
<1> QED
  BY <1>1, <1>4, <1>5, <1>6, CommitEarns

LEMMA CommitPlaceEarns ==
    ASSUME LevInv, Typed', NEW q \in Requests, CommitPlace(q)
    PROVE  LevelsEarned' /\ \A r \in Requests : RiseFits(r)'
<1>1. /\ Finish(q) /\ UNCHANGED <<granted, exercises, sittings>>
      /\ \A s \in Skills : placed'[s] = IF req[q].written[s] > placed[s]
                                        THEN req[q].written[s] ELSE placed[s]
  BY DEF CommitPlace, evidence
<1>2. \A s \in Skills : /\ placed[s] \in Nat /\ req[q].written[s] \in Nat
                        /\ placed[s] <= placed'[s] /\ req[q].written[s] <= placed'[s]
  BY <1>1, LevelTypes DEF LevInv, Levels
<1>3. Grows
  BY <1>1, <1>2 DEF Grows
<1>4. \A s \in Skills : placed'[s] \in Nat
  BY <1>1, <1>2
<1>5. \A s \in Skills : \A l \in placed'[s] .. req[q].written[s] - 1 : FALSE
  BY <1>2, <1>4
<1>6. \A s \in Skills : Changes(q, s) =>
          \A l \in placed'[s] .. req[q].written[s] - 1 : Justified(s, l)'
  BY <1>5
<1> QED
  BY <1>1, <1>3, <1>6, CommitEarns

LEMMA CommitCorrectEarns ==
    ASSUME LevInv, Typed', NEW q \in Requests, CommitCorrect(q)
    PROVE  LevelsEarned' /\ \A r \in Requests : RiseFits(r)'
<1> DEFINE t == req[q]
<1>1. /\ t.pc = "correct" /\ Finish(q) /\ t.skill \in Skills
      /\ UNCHANGED <<placed, exercises, sittings>>
      /\ granted' = [granted EXCEPT ![t.skill] =
                        IF t.written[t.skill] > t.loaded[t.skill]
                        THEN @ \cup {t.loaded[t.skill]} ELSE @]
  BY DEF CommitCorrect, evidence, LevInv, Typed, ReqFits
<1>2. \A s \in Skills : /\ granted[s] \subseteq granted'[s] /\ placed[s] <= placed'[s]
  BY <1>1, LevelTypes DEF LevInv, Typed, TypeOK, Levels
<1>3. Grows
  BY <1>1, <1>2 DEF Grows
<1>4. ASSUME NEW s \in Skills, Changes(q, s)
      PROVE  \A l \in placed'[s] .. t.written[s] - 1 : Justified(s, l)'
  <2>0. PICK c \in Levels : c = t.loaded[s]
    BY LevelTypes DEF LevInv
  <2>1. c \in Levels /\ c \in Nat /\ placed'[s] \in Nat /\ t.written[s] \in Nat
    <3>1. /\ c \in Levels /\ placed'[s] \in Levels /\ t.written[s] \in Levels
          /\ Levels = 1 .. MaxLevel /\ MaxLevel \in Nat
      BY <1>1, <2>0, LevelTypes DEF LevInv
    <3> QED
      BY <3>1
  <2>2. /\ Below(q, s)
        /\ t.written[s] = c - 1 \/ (t.written[s] = c + 1 /\ s = t.skill /\ Strong(s))
    BY <1>1, <1>4, <2>0 DEF LevInv, RiseFits
  <2>3. \A l \in placed'[s] .. c - 1 : Justified(s, l)'
    BY <1>3, <2>0, <2>1, <2>2, RangeGrows DEF LevInv, Below
  <2>4. CASE t.written[s] = c - 1
    <3>1. \A l \in placed'[s] .. t.written[s] - 1 : l \in placed'[s] .. c - 1
      BY <2>1, <2>4
    <3> QED
      BY <2>3, <3>1
  <2>5. CASE t.written[s] = c + 1 /\ s = t.skill /\ Strong(s)
    <3>1. c \in granted'[s]
      BY <1>1, <2>0, <2>1, <2>5 DEF LevInv, Typed, TypeOK
    <3>2. Strong(s)'
      <4>1. Typed /\ Strong(s)
        BY <2>5 DEF LevInv
      <4> QED
        BY <1>3, <4>1, StrongGrows
    <3>3. Justified(s, c)'
      BY <3>1, <3>2 DEF Justified
    <3>4. \A l \in placed'[s] .. t.written[s] - 1 : l = c \/ l \in placed'[s] .. c - 1
      BY <2>1, <2>5
    <3>5. \A l \in placed'[s] .. t.written[s] - 1 : Justified(s, l)'
      BY <2>3, <3>3, <3>4
    <3> QED
      BY <3>5
  <2> QED
    BY <2>2, <2>4, <2>5
<1> QED
  BY <1>1, <1>3, <1>4, CommitEarns

LEMMA LevNext == LevInv /\ [Next]_vars => LevInv'
<1> SUFFICES ASSUME LevInv, [Next]_vars
             PROVE  LevelsEarned' /\ \A r \in Requests : RiseFits(r)'
  BY TypedNext, HolderNext DEF LevInv
<1> DEFINE Goal == LevelsEarned' /\ \A r \in Requests : RiseFits(r)'
<1>0. Typed'
  BY TypedNext DEF LevInv
<1>1. ASSUME NEW q \in Requests, NEW a \in Activities, NEW score \in Scores,
             Practise(q, a, score)
      PROVE  Goal
  BY <1>0, <1>1, PractiseEarns
<1>2. ASSUME NEW q \in Requests, NEW u \in Units, NEW answers \in Answers, Sit(q, u, answers)
      PROVE  Goal
  <2>1. /\ Alone(q) /\ req'[q].pc = "grade"
        /\ UNCHANGED <<exercises, sittings, placed, granted, level>>
    BY <1>2, SitAlone DEF LevInv
  <2>2. RiseFits(q)'
    BY <2>1 DEF RiseFits
  <2> QED
    BY <1>0, <2>1, <2>2, LevelsKept
<1>3. ASSUME NEW q \in Requests, NEW scores \in Sheet, Grade(q, scores) PROVE Goal
  BY <1>0, <1>3, GradeEarns
<1>4. ASSUME NEW q \in Requests, NEW p \in Placements, Place(q, p) PROVE Goal
  <2> DEFINE t == [Idle EXCEPT !.pc = "place", !.at = now, !.loaded = level, !.written = p]
  <2>1. Open(q, t) /\ t.pc = "place"
    BY <1>4 DEF Place, Idle
  <2> HIDE DEF t
  <2>2. /\ Alone(q) /\ req'[q].pc = "place"
        /\ UNCHANGED <<exercises, sittings, placed, granted, level>>
    BY <2>1, Opened DEF LevInv, Alone
  <2>3. RiseFits(q)'
    BY <2>2 DEF RiseFits
  <2> QED
    BY <1>0, <2>2, <2>3, LevelsKept
<1>5. ASSUME NEW q \in Requests, NEW s \in Skills, Correct(q, s) PROVE Goal
  BY <1>0, <1>5, CorrectEarns
<1>6. ASSUME NEW q \in Requests,
             CommitPractice(q) \/ CommitTest(q) \/ CommitPlace(q) \/ CommitCorrect(q)
      PROVE  Goal
  BY <1>0, <1>6, CommitPracticeEarns, CommitTestEarns, CommitPlaceEarns, CommitCorrectEarns
<1>7. ASSUME NEW q \in Requests, Fail(q) PROVE Goal
  <2>1. /\ Alone(q) /\ req'[q].pc = "idle"
        /\ UNCHANGED <<exercises, sittings, placed, granted, level>>
    BY <1>7, Opened, IdleIsTransaction DEF Fail, LevInv, Alone
  <2>2. RiseFits(q)'
    BY <2>1 DEF RiseFits
  <2> QED
    BY <1>0, <2>1, <2>2, LevelsKept
<1>8. CASE UNCHANGED <<exercises, sittings, placed, granted, level, req>>
  <2>1. Grows
    BY <1>8, LevelTypes DEF Grows, LevInv, Levels
  <2>2. LevelsEarned'
    BY <1>0, <1>8, <2>1, LevelStays DEF LevelsEarned
  <2>3. \A r \in Requests : RiseFits(r)'
    BY <1>0, <1>8, <2>1, RiseStays
  <2> QED
    BY <2>2, <2>3
<1>9. CASE Tick
  BY <1>8, <1>9 DEF Tick, placement, evidence
<1>10. CASE UNCHANGED vars
  BY <1>8, <1>10 DEF vars, placement, evidence
<1> QED
  BY <1>1, <1>2, <1>3, <1>4, <1>5, <1>6, <1>7, <1>9, <1>10 DEF Next

LEMMA LevInit == Init => LevInv
<1> SUFFICES ASSUME Init
             PROVE  OneHolder /\ LevelsEarned /\ \A q \in Requests : RiseFits(q)
  BY TypedInit DEF LevInv
<1>1. \A s \in Skills : level[s] = 1 /\ placed[s] = 1
  BY DEF Init, AllOnes
<1>2. \A q \in Requests : req[q].pc = "idle"
  BY IdleIsTransaction DEF Init
<1> QED
  BY <1>1, <1>2 DEF OneHolder, Holds, LevelsEarned, RiseFits

\* Whatever commits between the read of a level and its write - an advance, a
\* correction of the first week or the placement - every level above the
\* placement rests on what is stored: passed tests of its units and enough
\* exercises, or a strong week a correction found.
THEOREM NoLevelUnearned == Spec => []LevelsEarned
<1>1. Spec => []LevInv
  BY LevInit, LevNext, PTL DEF Spec
<1>2. LevInv => LevelsEarned
  BY DEF LevInv
<1> QED
  BY <1>1, <1>2, PTL

-----------------------------------------------------------------------------
(* The journey is a path                                                   *)

\* A completion flag that is set has its block submitted, so that no later
\* exercise clears it.
BlocksFit == \A u \in Units : \A s \in blocks[u] : BlockDone(u, s, exercises[s])

\* A passed unit's blocks are complete: its test asked for them, and they stay.
TestAsked(q) == req[q].pc \in {"grade", "test"} => blocks[req[q].unit] = Skills

PassedIsDone ==
    /\ \A u \in Units : passed[u] => blocks[u] = Skills
    /\ \A q \in Requests : TestAsked(q)

DoneInv == Typed /\ BlocksFit /\ PassedIsDone

LEMMA DoneInit == Init => DoneInv
<1> SUFFICES ASSUME Init PROVE BlocksFit /\ PassedIsDone
  BY TypedInit DEF DoneInv
<1>1. /\ \A u \in Units : blocks[u] = {} /\ passed[u] = FALSE
      /\ \A q \in Requests : req[q].pc = "idle"
  BY IdleIsTransaction DEF Init
<1> QED
  BY <1>1 DEF BlocksFit, PassedIsDone, TestAsked

LEMMA BlockStays ==
    ASSUME NEW u, NEW s, NEW rows \in Seq(Exercise), NEW x \in Exercise, BlockDone(u, s, rows)
    PROVE  BlockDone(u, s, Append(rows, x))
<1>1. \A i \in DOMAIN rows : i \in DOMAIN Append(rows, x) /\ Append(rows, x)[i] = rows[i]
  BY Appended
<1>2. {rows[i].activity : i \in DOMAIN rows}
        \subseteq {Append(rows, x)[i].activity : i \in DOMAIN Append(rows, x)}
  BY <1>1
<1> QED
  BY <1>2 DEF BlockDone

\* Steps that leave the flags, and put no other test in flight.
LEMMA DoneKept ==
    ASSUME DoneInv, NEW q \in Requests, Alone(q), UNCHANGED <<blocks, passed, exercises>>,
           TestAsked(q)'
    PROVE  (BlocksFit /\ PassedIsDone)'
<1>1. ASSUME NEW r \in Requests, r # q PROVE TestAsked(r)'
  BY <1>1 DEF Alone, DoneInv, PassedIsDone, TestAsked
<1> QED
  BY <1>1 DEF DoneInv, BlocksFit, PassedIsDone

LEMMA PracticeKeepsDone ==
    ASSUME DoneInv, NEW q \in Requests, CommitPractice(q) PROVE (BlocksFit /\ PassedIsDone)'
<1> DEFINE t == req[q]
           s == Catalogue[t.activity].skill
           u == Catalogue[t.activity].unit
           row == [activity |-> t.activity, score |-> t.score]
           rows == Append(exercises[s], row)
<1>1. /\ t.activity \in Activities /\ s \in Skills /\ row \in Exercise
      /\ exercises[s] \in Seq(Exercise)
  BY ActivityTypes DEF CommitPractice, DoneInv, Typed, TypeOK, ReqFits, Exercise
<1>2. /\ exercises' = [exercises EXCEPT ![s] = rows]
      /\ blocks' = [v \in Units |-> IF v = u THEN Flagged(v, s, rows) ELSE blocks[v]]
      /\ passed' = passed /\ Alone(q) /\ req'[q].pc = "idle"
  BY CommitPracticeAlone DEF CommitPractice, DoneInv
<1>3. \A v \in Units : \A k \in blocks[v] : k \in Skills
  BY DEF DoneInv, Typed, TypeOK
<1>4. \A v, k : k \in Skills /\ BlockDone(v, k, exercises[k]) => BlockDone(v, k, exercises'[k])
  <2> SUFFICES ASSUME NEW v, NEW k \in Skills, BlockDone(v, k, exercises[k])
               PROVE  BlockDone(v, k, exercises'[k])
    OBVIOUS
  <2>1. CASE k = s
    <3>1. exercises'[k] = Append(exercises[k], row)
      BY <1>1, <1>2, <2>1 DEF DoneInv, Typed, TypeOK
    <3> HIDE DEF row
    <3> QED
      BY <1>1, <2>1, <3>1, BlockStays
  <2>2. CASE k # s
    <3>1. exercises'[k] = exercises[k]
      BY <1>1, <1>2, <2>2 DEF DoneInv, Typed, TypeOK
    <3> QED
      BY <3>1
  <2> QED
    BY <2>1, <2>2
<1>5. exercises'[s] = rows
  BY <1>1, <1>2 DEF DoneInv, Typed, TypeOK
<1> HIDE DEF rows, row, s, u
<1>6. \A v \in Units : blocks[v] \subseteq blocks'[v]
  <2> SUFFICES ASSUME NEW v \in Units, NEW k \in blocks[v] PROVE k \in blocks'[v]
    OBVIOUS
  <2>1. CASE k = s
    <3>1. BlockDone(v, s, rows)
      BY <1>1, <1>3, <1>4, <1>5, <2>1 DEF DoneInv, BlocksFit
    <3> QED
      BY <1>2, <3>1 DEF Flagged
  <2>2. CASE k # s
    BY <1>2, <2>2 DEF Flagged
  <2> QED
    BY <2>1, <2>2
<1>7. BlocksFit'
  <2> SUFFICES ASSUME NEW v \in Units, NEW k \in blocks'[v]
               PROVE  BlockDone(v, k, exercises'[k])
    BY DEF BlocksFit, BlockDone
  <2>1. k \in blocks[v] \/ (k = s /\ BlockDone(v, s, rows))
    BY <1>2 DEF Flagged
  <2>2. CASE k \in blocks[v]
    BY <1>3, <1>4, <2>2 DEF DoneInv, BlocksFit
  <2>3. CASE k = s /\ BlockDone(v, s, rows)
    BY <1>5, <2>3
  <2> QED
    BY <2>1, <2>2, <2>3
<1>8. blocks' \in [Units -> SUBSET Skills]
  BY CommitPracticeTyped DEF DoneInv, Typed, TypeOK
<1>9. \A v \in Units : blocks[v] = Skills => blocks'[v] = Skills
  BY <1>6, <1>8
<1>10. ASSUME NEW r \in Requests PROVE TestAsked(r)'
  <2>1. CASE r = q
    BY <1>2, <2>1 DEF TestAsked
  <2>2. CASE r # q
    <3>1. req'[r] = req[r]
      BY <1>2, <2>2 DEF Alone
    <3>2. req[r].pc \in {"grade", "test"} => req[r].unit \in Units
      BY DEF DoneInv, Typed, ReqFits
    <3> QED
      BY <1>9, <3>1, <3>2 DEF DoneInv, PassedIsDone, TestAsked
  <2> QED
    BY <2>1, <2>2
<1> QED
  BY <1>2, <1>7, <1>9, <1>10 DEF DoneInv, PassedIsDone

LEMMA TestKeepsDone ==
    ASSUME DoneInv, NEW q \in Requests, CommitTest(q) PROVE (BlocksFit /\ PassedIsDone)'
<1> DEFINE t == req[q]
<1>1. /\ t.pc = "test" /\ t.unit \in Units /\ blocks[t.unit] = Skills
      /\ Alone(q) /\ req'[q].pc = "idle" /\ UNCHANGED <<exercises, blocks>>
      /\ passed' = [passed EXCEPT ![t.unit] = PassedAfter(t.unit, t.scores)]
  BY CommitTestAlone DEF CommitTest, DoneInv, Typed, ReqFits, PassedIsDone, TestAsked
<1>2. \A u \in Units : u # t.unit => passed'[u] = passed[u]
  BY <1>1 DEF DoneInv, Typed, TypeOK
<1>3. ASSUME NEW r \in Requests PROVE TestAsked(r)'
  BY <1>1 DEF Alone, DoneInv, PassedIsDone, TestAsked
<1> QED
  BY <1>1, <1>2, <1>3 DEF DoneInv, BlocksFit, PassedIsDone

LEMMA DoneNext == DoneInv /\ [Next]_vars => DoneInv'
<1> SUFFICES ASSUME DoneInv, [Next]_vars PROVE (BlocksFit /\ PassedIsDone)'
  BY TypedNext DEF DoneInv
<1> DEFINE Goal == (BlocksFit /\ PassedIsDone)'
<1>1. ASSUME NEW q \in Requests, NEW a \in Activities, NEW score \in Scores,
             Practise(q, a, score)
      PROVE  Goal
  <2>1. /\ Alone(q) /\ UNCHANGED <<blocks, passed, exercises>> /\ req'[q].pc = "practice"
    BY <1>1, PractiseAlone DEF DoneInv
  <2> QED
    BY <2>1, DoneKept DEF TestAsked
<1>2. ASSUME NEW q \in Requests, NEW u \in Units, NEW answers \in Answers, Sit(q, u, answers)
      PROVE  Goal
  <2>1. /\ Alone(q) /\ UNCHANGED <<blocks, passed, exercises>> /\ req'[q].unit = u
    BY <1>2, SitAlone DEF DoneInv
  <2>2. blocks[u] = Skills
    BY <1>2 DEF Sit, UnitTestUnlocked
  <2> QED
    BY <2>1, <2>2, DoneKept DEF TestAsked
<1>3. ASSUME NEW q \in Requests, NEW scores \in Sheet, Grade(q, scores) PROVE Goal
  <2>1. /\ Alone(q) /\ UNCHANGED <<blocks, passed, exercises>>
        /\ req[q].pc = "grade" /\ req'[q].unit = req[q].unit
    BY <1>3, GradeAlone DEF DoneInv
  <2>2. TestAsked(q)'
    BY <2>1 DEF TestAsked, DoneInv, PassedIsDone
  <2> QED
    BY <2>1, <2>2, DoneKept
<1>4. ASSUME NEW q \in Requests,
             \/ \E p \in Placements : Place(q, p)
             \/ \E s \in Skills : Correct(q, s)
             \/ CommitPlace(q) \/ CommitCorrect(q) \/ Fail(q)
      PROVE  Goal
  <2>1. /\ Alone(q) /\ UNCHANGED <<blocks, passed, exercises>>
        /\ req'[q].pc \in {"idle", "place", "correct"}
    BY <1>4, Asides DEF DoneInv, Aside
  <2> QED
    BY <2>1, DoneKept DEF TestAsked
<1>5. ASSUME NEW q \in Requests, CommitPractice(q) PROVE Goal
  BY <1>5, PracticeKeepsDone
<1>6. ASSUME NEW q \in Requests, CommitTest(q) PROVE Goal
  BY <1>6, TestKeepsDone
<1>7. CASE UNCHANGED <<blocks, passed, exercises, req>>
  BY <1>7 DEF DoneInv, BlocksFit, PassedIsDone, TestAsked
<1>8. CASE Tick
  BY <1>7, <1>8 DEF Tick, evidence
<1>9. CASE UNCHANGED vars
  BY <1>7, <1>9 DEF vars, evidence
<1> QED
  BY <1>1, <1>2, <1>3, <1>4, <1>5, <1>6, <1>8, <1>9 DEF Next

LEMMA Positions ==
    /\ \A u \in Units : /\ Position[u] \in DOMAIN UnitSequence /\ Position[u] \in Nat
                        /\ Position[u] >= 1 /\ UnitSequence[Position[u]] = u
    /\ \A u \in Units : Position[u] # 1 =>
         /\ UnitSequence[Position[u] - 1] \in Units
         /\ Position[UnitSequence[Position[u] - 1]] = Position[u] - 1
<1>1. DOMAIN UnitSequence = 1 .. Len(UnitSequence) /\ Len(UnitSequence) \in Nat
  BY CurriculumAssumption, LenProperties
<1>2. \A u \in Units : Position[u] \in DOMAIN UnitSequence /\ UnitSequence[Position[u]] = u
  BY DEF Position, Units
<1>3. ASSUME NEW u \in Units, Position[u] # 1
      PROVE  /\ UnitSequence[Position[u] - 1] \in Units
             /\ Position[UnitSequence[Position[u] - 1]] = Position[u] - 1
  <2> DEFINE i == Position[u] - 1
             v == UnitSequence[i]
  <2>1. i \in DOMAIN UnitSequence
    BY <1>1, <1>2, <1>3
  <2>2. v \in Units
    BY <2>1 DEF Units
  <2>3. Position[v] \in DOMAIN UnitSequence /\ UnitSequence[Position[v]] = v
    BY <1>2, <2>2
  <2> HIDE DEF i
  <2>4. Position[v] = i
    BY <2>1, <2>3, CurriculumAssumption
  <2> QED
    BY <2>2, <2>4 DEF i
<1> QED
  BY <1>1, <1>2, <1>3

\* Among the units of any set the journey comes to one first.
LEMMA FirstOf ==
    ASSUME NEW S \in SUBSET Units, S # {}
    PROVE  \E u \in S : \A v \in S : Position[u] <= Position[v]
<1> DEFINE B == {Position[u] : u \in S}
<1>1. B \in SUBSET Nat /\ B # {}
  BY Positions
<1>2. PICK m \in B : \A n \in B : m <= n
  <2> HIDE DEF B
  <2> QED
    BY <1>1, LeastNumber
<1> QED
  BY <1>2

\* The current unit is the first that is not passed: the one before it is.
LEMMA CurrentIsFirst ==
    /\ CurrentUnit = None <=> \A u \in Units : passed[u]
    /\ CurrentUnit # None =>
         /\ CurrentUnit \in Units /\ OpenUnit(CurrentUnit)
         /\ \A u \in Units : Position[u] < Position[CurrentUnit] => passed[u] /\ Unlocked(u)
<1> DEFINE left == {u \in Units : ~passed[u]}
<1>1. ASSUME left # {}
      PROVE  \E u \in Units : /\ OpenUnit(u)
                              /\ \A v \in Units : ~passed[v] => Position[u] <= Position[v]
  <2>1. PICK u \in left : \A v \in left : Position[u] <= Position[v]
    BY <1>1, FirstOf
  <2>2. Unlocked(u)
    <3> SUFFICES ASSUME Position[u] # 1 PROVE passed[UnitSequence[Position[u] - 1]]
      BY DEF Unlocked
    <3> DEFINE v == UnitSequence[Position[u] - 1]
    <3>1. /\ v \in Units /\ Position[v] = Position[u] - 1
          /\ Position[u] \in Nat
      BY Positions
    <3> HIDE DEF v
    <3>2. v \notin left
      BY <2>1, <3>1
    <3>3. passed[v]
      BY <3>1, <3>2
    <3> QED
      BY <3>3 DEF v
  <2> QED
    BY <2>1, <2>2 DEF OpenUnit
<1>2. CASE left = {}
  <2>1. \A u \in Units : passed[u]
    BY <1>2
  <2>2. CurrentUnit = None
    BY <2>1 DEF CurrentUnit, OpenUnit
  <2> QED
    BY <2>1, <2>2
<1>3. CASE left # {}
  <2>1. PICK u \in Units : /\ OpenUnit(u)
                           /\ \A v \in Units : ~passed[v] => Position[u] <= Position[v]
    BY <1>1, <1>3
  <2>2. \A v \in Units : OpenUnit(v) => Position[u] <= Position[v]
    BY <2>1 DEF OpenUnit
  <2>3. /\ CurrentUnit \in Units /\ OpenUnit(CurrentUnit)
        /\ \A v \in Units : OpenUnit(v) => Position[CurrentUnit] <= Position[v]
    BY <2>1, <2>2 DEF CurrentUnit
  <2>4. Position[CurrentUnit] <= Position[u]
    BY <2>1, <2>3
  <2>5. \A v \in Units : Position[v] \in Nat
    BY Positions
  <2>6. \A v \in Units : Position[v] < Position[CurrentUnit] => passed[v]
    BY <2>1, <2>3, <2>4, <2>5
  <2>7. ASSUME NEW v \in Units, Position[v] < Position[CurrentUnit]
        PROVE  Unlocked(v)
    <3>1. Position[v] # 1 =>
            /\ UnitSequence[Position[v] - 1] \in Units
            /\ Position[UnitSequence[Position[v] - 1]] = Position[v] - 1
      BY Positions
    <3>2. Position[v] - 1 < Position[CurrentUnit]
      BY <2>3, <2>5, <2>7
    <3> QED
      BY <2>6, <3>1, <3>2 DEF Unlocked
  <2>8. CurrentUnit # None
    BY <2>3, MasteryAssumption
  <2>9. ~passed[CurrentUnit]
    BY <2>3 DEF OpenUnit
  <2> QED
    BY <2>3, <2>6, <2>7, <2>8, <2>9
<1> QED
  BY <1>2, <1>3

LEMMA JourneyPath == DoneInv => JourneyIsAPath
<1> SUFFICES ASSUME DoneInv PROVE JourneyIsAPath
  OBVIOUS
<1>1. CurrentUnit = None <=> \A u \in Units : passed[u]
  BY CurrentIsFirst
<1>2. ASSUME NEW u \in Units
      PROVE  /\ UnitStatus(u) = "current" <=> u = CurrentUnit
             /\ CurrentUnit # None /\ Position[u] < Position[CurrentUnit] =>
                  UnitStatus(u) = "completed"
             /\ UnitStatus(u) = "completed" =>
                  \A s \in Skills : SkillStatus(u, s) = "complete"
  <2>1. u # None
    BY MasteryAssumption
  <2>2. u = CurrentUnit => Unlocked(u) /\ ~passed[u]
    BY <2>1, CurrentIsFirst DEF OpenUnit
  <2>3. CurrentUnit # None /\ Position[u] < Position[CurrentUnit] => passed[u] /\ Unlocked(u)
    BY CurrentIsFirst
  <2>4. passed[u] => blocks[u] = Skills
    BY DEF DoneInv, PassedIsDone
  <2>5. UnitStatus(u) = "completed" => Unlocked(u) /\ passed[u]
    BY DEF UnitStatus
  <2> QED
    BY <2>2, <2>3, <2>4, <2>5 DEF UnitStatus, SkillStatus
<1>3. ASSUME NEW b \in DOMAIN Bands, CurrentUnit \in Bands[b]
      PROVE  BandStatus(b) = "active"
  <2>1. Bands[b] \in SUBSET Units /\ CurrentUnit # None
    BY <1>3, CurriculumAssumption, MasteryAssumption
  <2>2. OpenUnit(CurrentUnit) /\ CurrentUnit \in Units
    BY <2>1, CurrentIsFirst
  <2>3. PICK u \in Bands[b] : \A v \in Bands[b] : Position[u] <= Position[v]
    BY <1>3, <2>1, FirstOf
  <2>4. /\ u \in Units /\ Position[u] \in Nat /\ Position[CurrentUnit] \in Nat
        /\ Position[u] <= Position[CurrentUnit]
        /\ UnitSequence[Position[u]] = u
        /\ UnitSequence[Position[CurrentUnit]] = CurrentUnit
    BY <1>3, <2>1, <2>2, <2>3, Positions
  <2>5. Unlocked(u)
    <3>1. CASE Position[u] = Position[CurrentUnit]
      BY <2>2, <2>4, <3>1 DEF OpenUnit
    <3>2. CASE Position[u] < Position[CurrentUnit]
      BY <2>1, <2>4, <3>2, CurrentIsFirst
    <3> QED
      BY <2>4, <3>1, <3>2
  <2> QED
    BY <1>3, <2>2, <2>3, <2>5 DEF BandStatus, OpenUnit
<1> QED
  BY <1>1, <1>2, <1>3 DEF JourneyIsAPath

-----------------------------------------------------------------------------
(* The display level is an average: the weights divide a whole (a sum over *)
(* the skills), so it lies between the weakest and the strongest level.    *)

Shares == [s \in Skills |-> Weight[s] * level[s]]

LEMMA WeightsAreTotal == Sum(LAMBDA s : Weight[s], Skills) = Total(Weight, Skills)
<1> DEFINE Eq(g) == g = [U \in SUBSET Skills |->
                            IF U = {} THEN 0
                            ELSE Weight[CHOOSE x \in U : TRUE]
                                   + g[U \ {CHOOSE x \in U : TRUE}]]
           sum == CHOOSE g : Eq(g)
<1>1. Sum(LAMBDA s : Weight[s], Skills) = sum[Skills]
  BY Zenon DEF Sum, MapThenFoldSet
<1>2. \A g : Eq(g) <=> IsTotal(g, Weight, Skills)
  BY DEF IsTotal, Pick
<1>3. IsTotal(sum, Weight, Skills)
  <2> HIDE DEF Eq
  <2>1. PICK g : IsTotal(g, Weight, Skills)
    BY CurriculumAssumption, TotalExists
  <2>2. Eq(g)
    BY <1>2, <2>1
  <2>3. Eq(sum)
    BY <2>2
  <2>4. QED
    BY <1>2, <2>3
<1>4. QED
  BY <1>1, <1>3, CurriculumAssumption, TotalIs

LEMMA SharesAreTotal == DisplayLevel = Total(Shares, Skills) \div 100
<1> DEFINE Eq(g) == g = [U \in SUBSET Skills |->
                            IF U = {} THEN 0
                            ELSE Weight[CHOOSE x \in U : TRUE]
                                   * level[CHOOSE x \in U : TRUE]
                                   + g[U \ {CHOOSE x \in U : TRUE}]]
           sum == CHOOSE g : Eq(g)
<1>1. Sum(LAMBDA s : Weight[s] * level[s], Skills) = sum[Skills]
  BY Zenon DEF Sum, MapThenFoldSet
<1>2. \A g : Eq(g) <=> IsTotal(g, Shares, Skills)
  <2>1. \A U \in SUBSET Skills : U # {} =>
            Shares[Pick(U)] = Weight[Pick(U)] * level[Pick(U)]
    BY PickIn DEF Shares
  <2>2. QED
    BY <2>1 DEF IsTotal, Pick
<1>3. IsTotal(sum, Shares, Skills)
  <2> HIDE DEF Eq
  <2>1. PICK g : IsTotal(g, Shares, Skills)
    BY CurriculumAssumption, TotalExists
  <2>2. Eq(g)
    BY <1>2, <2>1
  <2>3. Eq(sum)
    BY <2>2
  <2>4. QED
    BY <1>2, <2>3
<1>4. Sum(LAMBDA s : Weight[s] * level[s], Skills) = Total(Shares, Skills)
  BY <1>1, <1>3, CurriculumAssumption, TotalIs
<1>5. QED
  BY Zenon, <1>4 DEF DisplayLevel

LEMMA WeakestIs ==
    Typed => Readiness \in Levels /\ \A s \in Skills : Readiness <= level[s]
<1> SUFFICES ASSUME Typed
             PROVE  \E l \in Levels : /\ \E s \in Skills : level[s] = l
                                      /\ \A s \in Skills : l <= level[s]
  BY DEF Readiness
<1>1. \A s \in Skills : level[s] \in Levels /\ level[s] \in Nat
  BY DEF Typed, TypeOK, Levels
<1> DEFINE B == {level[s] : s \in Skills}
<1>2. B \in SUBSET Nat /\ B # {}
  BY <1>1, CurriculumAssumption
<1>3. PICK l \in B : \A n \in B : l <= n
  <2> HIDE DEF B
  <2>1. QED
    BY <1>2, LeastNumber
<1>4. QED
  BY <1>1, <1>3

LEMMA StrongestIs ==
    Typed => Strongest \in Levels /\ \A s \in Skills : level[s] <= Strongest
<1> SUFFICES ASSUME Typed
             PROVE  Strongest \in Levels /\ \A s \in Skills : level[s] <= Strongest
  OBVIOUS
<1>1. \A s \in Skills : level[s] \in Levels /\ level[s] \in Nat /\ level[s] <= MaxLevel
  BY MasteryAssumption DEF Typed, TypeOK, Levels
<1> DEFINE held == {level[s] : s \in Skills}
           B == {MaxLevel - l : l \in held}
<1>2. B \in SUBSET Nat /\ B # {}
  <2>1. MaxLevel \in Nat
    BY MasteryAssumption
  <2>2. Skills # {}
    BY CurriculumAssumption
  <2>3. held # {} /\ \A l \in held : l \in Nat /\ l <= MaxLevel
    BY <1>1, <2>2
  <2> HIDE DEF held
  <2> QED
    BY <2>1, <2>3
<1>3. PICK m \in B : \A n \in B : m <= n
  <2> HIDE DEF B
  <2>1. QED
    BY <1>2, LeastNumber
<1>4. PICK l \in held : m = MaxLevel - l
  BY <1>3
<1>5. \A k \in held : k <= l
  <2>1. ASSUME NEW k \in held PROVE k <= l
    <3>1. MaxLevel - l <= MaxLevel - k
      BY <1>3, <1>4
    <3>2. k \in Nat /\ l \in Nat /\ MaxLevel \in Nat
      BY <1>1, MasteryAssumption
    <3>3. QED
      BY <3>1, <3>2
  <2>2. QED
    BY <2>1
<1>6. Strongest \in held /\ \A k \in held : k <= Strongest
  <2> HIDE DEF held
  <2>1. Best(held) \in held /\ \A k \in held : k <= Best(held)
    BY <1>5 DEF Best
  <2>2. QED
    BY <2>1 DEF Strongest, held
<1>7. QED
  BY <1>1, <1>6

LEMMA Average ==
    ASSUME NEW x \in Int, NEW lo \in Int, NEW hi \in Int, lo * 100 <= x, x <= hi * 100
    PROVE  lo <= x \div 100 /\ x \div 100 <= hi
OBVIOUS

LEMMA LevelsAveraged == Typed => LevelsSummarised
<1> SUFFICES ASSUME Typed PROVE LevelsSummarised
  OBVIOUS
<1>1. /\ Readiness \in Nat /\ Strongest \in Nat
      /\ \A s \in Skills : /\ level[s] \in Nat /\ Weight[s] \in Nat
                           /\ Readiness <= level[s] /\ level[s] <= Strongest
  <2>1. Readiness \in Levels /\ Strongest \in Levels /\ \A s \in Skills : level[s] \in Levels
    BY WeakestIs, StrongestIs, LevelTypes
  <2>2. \A l \in Levels : l \in Nat
    BY MasteryAssumption DEF Levels
  <2>3. \A s \in Skills : Weight[s] \in Nat
    BY MasteryAssumption
  <2> QED
    BY <2>1, <2>2, <2>3, WeakestIs, StrongestIs
<1>2. ASSUME NEW c \in Nat
      PROVE  Total([s \in Skills |-> c * Weight[s]], Skills) = c * 100
  <2> DEFINE v == [s \in Skills |-> c * Weight[s]]
  <2>1. \A s \in Skills : Weight[s] \in Int /\ v[s] = c * Weight[s]
    BY <1>1
  <2>2. c \in Int /\ IsFiniteSet(Skills)
    BY CurriculumAssumption
  <2> HIDE DEF v
  <2>3. Total(v, Skills) = c * Total(Weight, Skills)
    BY <2>1, <2>2, TotalScaled
  <2>4. Total(Weight, Skills) = 100
    BY WeightsAreTotal, WeightAssumption
  <2>5. QED
    BY <2>3, <2>4 DEF v
<1> DEFINE low == [s \in Skills |-> Readiness * Weight[s]]
           high == [s \in Skills |-> Strongest * Weight[s]]
<1>3. \A s \in Skills : /\ low[s] \in Int /\ Shares[s] \in Int /\ high[s] \in Int
                        /\ low[s] <= Shares[s] /\ Shares[s] <= high[s]
  <2>1. \A a, b, c \in Nat : a <= b => a * c <= c * b /\ c * a <= b * c
    OBVIOUS
  <2>2. QED
    BY <1>1, <2>1 DEF Shares
<1>4. Total(low, Skills) = Readiness * 100 /\ Total(high, Skills) = Strongest * 100
  BY <1>1, <1>2
<1> HIDE DEF low, high
<1>5. /\ Total(low, Skills) <= Total(Shares, Skills)
      /\ Total(Shares, Skills) <= Total(high, Skills)
      /\ Total(Shares, Skills) \in Int
  BY <1>3, CurriculumAssumption, TotalMonotone, TotalInt
<1>6. Readiness <= DisplayLevel /\ DisplayLevel <= Strongest
  BY <1>1, <1>4, <1>5, Average, SharesAreTotal
<1>7. Priority = "balanced" => DisplayLevel <= Readiness + 1
  <2>1. DisplayLevel \in Int
    BY <1>5, SharesAreTotal
  <2>2. Priority = "balanced" => Strongest - Readiness <= 1
    BY <1>1 DEF Priority
  <2>3. QED
    BY <1>1, <1>6, <2>1, <2>2
<1>8. QED
  BY <1>6, <1>7 DEF LevelsSummarised

(***************************************************************************)
(* What the learner is shown is consistent in every reachable state: one   *)
(* current unit, the first that is unlocked and not passed, everything     *)
(* before it completed and its band active, although a unit test asks only *)
(* for its own unit's blocks; and a display level between the weakest and  *)
(* the strongest skill (journey_service, progress_service).                *)
(***************************************************************************)
THEOREM ViewsAreTrue == Spec => []LearnerViews
<1>1. Spec => []DoneInv
  BY DoneInit, DoneNext, PTL DEF Spec
<1>2. DoneInv => LearnerViews
  BY JourneyPath, LevelsAveraged DEF DoneInv, LearnerViews
<1>3. QED
  BY <1>1, <1>2, PTL
=============================================================================
