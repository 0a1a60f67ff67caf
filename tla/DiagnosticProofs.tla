-------------------------- MODULE DiagnosticProofs --------------------------
(***************************************************************************)
(* Theorems about Diagnostic, for any catalogue of items, any number of    *)
(* handlers and any number of requests.                                    *)
(***************************************************************************)
EXTENDS Diagnostic, SequenceTheorems, TLAPS

-----------------------------------------------------------------------------
(* Levels                                                                  *)

LEMMA LowestIn ==
    ASSUME NEW S \in SUBSET Levels, S # {}
    PROVE  Lowest(S) \in S /\ \A y \in S : Lowest(S) <= y
<1>1. \A y \in S : y \in 1 .. 9
  BY DEF Levels
<1>2. \E x \in S : \A y \in S : x <= y
  <2> DEFINE Above(n) == \A y \in S : y >= n
  <2>1. Above(1)
    BY <1>1
  <2>2. ASSUME NEW n \in 1 .. 9, Above(n) PROVE n \in S \/ Above(n + 1)
    BY <1>1, <2>2
  <2>3. ASSUME NEW n \in S, Above(n) PROVE \E x \in S : \A y \in S : x <= y
    BY <1>1, <2>3
  <2>4. ~Above(10)
    BY <1>1
  <2> HIDE DEF Above
  <2>5. SUFFICES ASSUME \A n \in 1 .. 9 : ~(n \in S /\ Above(n)) PROVE FALSE
    BY <1>1, <2>3
  <2>6. \A n \in 1 .. 9 : Above(n) => Above(n + 1)
    BY <2>2, <2>5
  <2>7. Above(2)
    BY <2>1, <2>6
  <2>8. Above(3)
    BY <2>6, <2>7
  <2>9. Above(4)
    BY <2>6, <2>8
  <2>10. Above(5)
    BY <2>6, <2>9
  <2>11. Above(6)
    BY <2>6, <2>10
  <2>12. Above(7)
    BY <2>6, <2>11
  <2>13. Above(8)
    BY <2>6, <2>12
  <2>14. Above(9)
    BY <2>6, <2>13
  <2> QED
    BY <2>4, <2>6, <2>14
<1> QED
  BY <1>2 DEF Lowest

LEMMA SomeSkill == Skills # {}
BY DiagnosticAssumption

LEMMA WeakestIsLevel ==
    ASSUME NEW l \in [Skills -> Levels] PROVE Weakest(l) \in Levels
<1>1. {l[s] : s \in Skills} \in SUBSET Levels /\ {l[s] : s \in Skills} # {}
  BY SomeSkill
<1> QED
  BY <1>1, LowestIn DEF Weakest

LEMMA CalculatedIsLevel == \A answers, s : CalculatePlacement(answers, s) \in Levels
BY DEF CalculatePlacement, Levels

LEMMA PlacementIsLevels == \A doc : PlacementOf(doc) \in [Skills -> Levels]
<1> SUFFICES ASSUME NEW doc PROVE PlacementOf(doc) \in [Skills -> Levels]
  OBVIOUS
<1> DEFINE rated == Skills \ doc.skipped
           S == {CalculatePlacement(doc.answers, s) : s \in rated}
<1>1. S \in SUBSET Levels
  BY CalculatedIsLevel
<1>2. ASSUME NEW w \in Levels PROVE Highest({1, w - 1}) \in Levels
  <2>1. w \in 1 .. 9
    BY DEF Levels
  <2>2. \E x \in {1, w - 1} : \A y \in {1, w - 1} : y <= x
    BY <2>1
  <2>3. Highest({1, w - 1}) \in {1, w - 1} /\ 1 <= Highest({1, w - 1})
    BY <2>2 DEF Highest
  <2> QED
    BY <2>1, <2>3 DEF Levels
<1>3. ASSUME NEW s \in Skills
      PROVE  (IF rated = {} THEN 1
              ELSE IF s \in rated THEN CalculatePlacement(doc.answers, s)
              ELSE Highest({1, Lowest(S) - 1})) \in Levels
  <2>1. CASE rated = {}
    BY <2>1 DEF Levels
  <2>2. CASE s \in rated
    BY <2>2, CalculatedIsLevel
  <2>3. CASE rated # {} /\ s \notin rated
    <3>1. S # {}
      BY <2>3
    <3> HIDE DEF S
    <3>2. Lowest(S) \in Levels
      BY <1>1, <3>1, LowestIn
    <3> QED
      BY <1>2, <2>3, <3>2
  <2> QED
    BY <2>1, <2>2, <2>3
<1> QED
  BY <1>3 DEF PlacementOf

\* A placement depends on the answers and the skips only.
LEMMA SameEvidence ==
    ASSUME NEW d, NEW e, d.answers = e.answers, d.skipped = e.skipped
    PROVE  PlacementOf(d) = PlacementOf(e) /\ (Ready(d) <=> Ready(e))
BY DEF PlacementOf, Ready

-----------------------------------------------------------------------------
(* The inductive invariant                                                 *)

Consistent(doc) == doc.placement # None => doc.placement = PlacementOf(doc) /\ Ready(doc)

\* The row is ended once the request is committed.
WillEnd(r) == r.ends \/ (r.row # 0 /\ sessions[r.row].ended # 0)

\* What a request writes is consistent, and a placement goes to an ended row.
Fits(r) ==
    /\ r.row \in DOMAIN sessions \cup {0}
    /\ Consistent(r.doc)
    /\ r.doc.placement # None => WillEnd(r)

\* The places in the order of ended_at have a greatest one.
Ends == {0} \cup {sessions[i].ended : i \in DOMAIN sessions}
HasLast == \E x \in Ends : \A y \in Ends : y <= x

OpenUnplaced == \A i \in OpenRows : sessions[i].doc.placement = None

Inv ==
    /\ TypeOK /\ HasLast /\ OpenUnplaced /\ PlacementFromAnswers
    /\ \A q \in Requests : Fits(req[q])

LEMMA Rows ==
    ASSUME TypeOK
    PROVE  /\ Len(sessions) \in Nat /\ DOMAIN sessions = 1 .. Len(sessions)
           /\ sessions \in Seq(Session) /\ 0 \notin DOMAIN sessions
           /\ \A i \in DOMAIN sessions : i \in Nat /\ sessions[i] \in Session
           /\ Ends \subseteq Nat
<1>1. sessions \in Seq(Session)
  BY DEF TypeOK
<1>2. \A i \in DOMAIN sessions : i \in Nat /\ sessions[i] \in Session
  BY <1>1, LenProperties, ElementOfSeq
<1>3. Ends \subseteq Nat
  BY <1>2 DEF Ends, Session
<1> QED
  BY <1>1, <1>2, <1>3, LenProperties

LEMMA LastIsGreatest ==
    ASSUME Inv
    PROVE  LastEnd \in Nat /\ \A i \in DOMAIN sessions : sessions[i].ended <= LastEnd
<1>1. \E x \in Ends : \A y \in Ends : y <= x
  BY DEF Inv, HasLast
<1>2. LastEnd \in Ends /\ \A y \in Ends : y <= LastEnd
  BY <1>1 DEF LastEnd, Highest, Ends
<1> QED
  BY <1>2, Rows DEF Inv, Ends

LEMMA CompletedIsEnded == ASSUME Inv, EndedRows # {} PROVE CompletedRow \in EndedRows
<1>1. PICK x \in Ends : \A y \in Ends : y <= x
  BY DEF Inv, HasLast
<1>2. PICK e \in EndedRows : TRUE
  OBVIOUS
<1>3. e \in DOMAIN sessions /\ sessions[e].ended # 0 /\ sessions[e].ended \in Nat
  BY Rows DEF EndedRows, OpenRows, Inv, Session
<1>4. sessions[e].ended \in Ends
  BY <1>3 DEF Ends
<1>5. x # 0
  BY <1>1, <1>3, <1>4
<1>6. PICK i \in DOMAIN sessions : sessions[i].ended = x
  BY <1>1, <1>5 DEF Ends
<1>7. i \in EndedRows /\ \A j \in EndedRows : sessions[j].ended <= sessions[i].ended
  BY <1>1, <1>5, <1>6 DEF EndedRows, OpenRows, Ends
<1> QED
  BY <1>7 DEF CompletedRow

LEMMA IdleFits == Idle \in Request /\ Fits(Idle) /\ Idle.pc = "idle"
<1>1. EmptyState \in Document
  BY DEF EmptyState, Document
<1> QED
  BY <1>1 DEF Idle, Request, Fits, Consistent, EmptyState

-----------------------------------------------------------------------------
(* Requests                                                                *)

LEMMA RequestKeeps ==
    ASSUME Inv, NEW q \in Requests, NEW r \in Request, Fits(r),
           req' = [req EXCEPT ![q] = r], calls' \in 0 .. MaxCalls[overlap],
           UNCHANGED <<overlap, sessions, level, learner>>
    PROVE  Inv'
<1>1. TypeOK'
  BY DEF Inv, TypeOK
<1>2. HasLast' /\ OpenUnplaced' /\ PlacementFromAnswers'
  BY DEF Inv, HasLast, Ends, OpenUnplaced, OpenRows, PlacementFromAnswers
<1>3. \A p \in Requests : Fits(req'[p])
  BY DEF Inv, TypeOK
<1>4. ASSUME NEW p \in Requests PROVE Fits(req[p])'
  BY <1>3 DEF Fits, WillEnd
<1> QED
  BY <1>1, <1>2, <1>4 DEF Inv

LEMMA CallKeeps ==
    ASSUME Inv, NEW q \in Requests, NEW r \in Request, Fits(r), MayCall(q), Call(q, r)
    PROVE  Inv'
<1>1. [r EXCEPT !.pc = "commit"] \in Request /\ Fits([r EXCEPT !.pc = "commit"])
  BY DEF Request, Fits, WillEnd
<1>2. calls' \in 0 .. MaxCalls[overlap]
  BY DiagnosticAssumption DEF Call, MayCall, Inv, TypeOK
<1> QED
  BY <1>1, <1>2, RequestKeeps DEF Call

\* The document of an open row with other answers or skips.
LEMMA RewriteFits ==
    ASSUME Inv, NEW row \in OpenRows, NEW doc \in Document,
           doc.placement = sessions[row].doc.placement
    PROVE  LET r == [Idle EXCEPT !.row = row, !.doc = doc]
           IN  r \in Request /\ Fits(r)
<1>1. row \in DOMAIN sessions /\ row \in Nat /\ doc.placement = None
  BY Rows DEF Inv, OpenUnplaced, OpenRows
<1> QED
  BY <1>1, IdleFits DEF Request, Idle, Fits, Consistent

LEMMA CompletedFits ==
    ASSUME Inv, NEW row \in DOMAIN sessions \cup {0}, NEW doc \in Document, Ready(doc)
    PROVE  Completed(row, doc) \in Request /\ Fits(Completed(row, doc))
<1> DEFINE placement == PlacementOf(doc)
           new == [doc EXCEPT !.placement = placement]
           levels == [s \in Skills |-> IF placement[s] = level[s] THEN None ELSE placement[s]]
           up == IF Weakest(placement) = learner THEN None ELSE Weakest(placement)
           r == [Idle EXCEPT !.row = row, !.ends = TRUE, !.doc = new, !.levels = levels,
                             !.learner = up]
<1>1. placement \in [Skills -> Levels]
  BY PlacementIsLevels
<1> HIDE DEF placement
<1>2. /\ new \in Document /\ new.answers = doc.answers /\ new.skipped = doc.skipped
      /\ new.placement = placement
  BY <1>1 DEF Document
<1>3. levels \in [Skills -> Levels \cup {None}] /\ up \in Levels \cup {None}
  BY <1>1, WeakestIsLevel
<1>4. row \in Nat
  BY Rows DEF Inv
<1>5. Completed(row, doc) = r
  BY DEF Completed, placement
<1>6. Consistent(new)
  BY <1>2, SameEvidence DEF Consistent, placement
<1> HIDE DEF new, levels, up
<1>7. r \in Request /\ r.row = row /\ r.doc = new /\ r.ends = TRUE
  BY <1>2, <1>3, <1>4, IdleFits DEF Request, Idle
<1> QED
  BY <1>5, <1>6, <1>7 DEF Fits, WillEnd

LEMMA CorrectedFits ==
    ASSUME Inv, NEW s \in Skills, NEW average, EndedRows # {},
           NEW levels \in [Skills -> Levels \cup {None}], NEW up \in Levels \cup {None},
           NEW r, r = [Idle EXCEPT !.row = CompletedRow,
                         !.doc = Marked(sessions[CompletedRow].doc, s, average),
                         !.levels = levels, !.learner = up]
    PROVE  r \in Request /\ Fits(r)
<1> DEFINE row == CompletedRow
           old == sessions[row].doc
           new == Marked(old, s, average)
<1>1. /\ row \in DOMAIN sessions /\ row \in Nat /\ sessions[row].ended # 0
      /\ old \in Document
  BY CompletedIsEnded, Rows DEF Inv, EndedRows, OpenRows, Session
<1>2. /\ new \in Document /\ new.answers = old.answers /\ new.skipped = old.skipped
      /\ new.placement = old.placement
  BY <1>1 DEF Marked, Document
<1>3. Consistent(old)
  BY <1>1 DEF Inv, PlacementFromAnswers, Consistent
<1> HIDE DEF row, old, new
<1>4. Consistent(new)
  BY <1>2, <1>3, SameEvidence DEF Consistent
<1>5. r = [Idle EXCEPT !.row = row, !.doc = new, !.levels = levels, !.learner = up]
  BY DEF row, old, new
<1>6. r \in Request /\ r.row = row /\ r.doc = new
  BY <1>1, <1>2, <1>5, IdleFits DEF Request, Idle
<1>7. Fits(r)
  BY <1>1, <1>4, <1>6, Rows DEF Fits, WillEnd, Inv, row
<1> QED
  BY <1>6, <1>7

\* What a correction does to the levels: one goes up or down by one, or stays.
Moved(s, average) ==
    IF average > 90 /\ level[s] < 9 THEN level[s] + 1
    ELSE IF average < 40 /\ level[s] > 1 THEN level[s] - 1
    ELSE level[s]

Correction(s, average) ==
    LET moved == Moved(s, average)
        weakest == Weakest([level EXCEPT ![s] = moved])
    IN  [Idle EXCEPT !.row = CompletedRow,
            !.doc = Marked(sessions[CompletedRow].doc, s, average),
            !.levels = [Idle.levels EXCEPT ![s] = IF moved = level[s] THEN None ELSE moved],
            !.learner = IF moved = level[s] \/ weakest = learner THEN None ELSE weakest]

LEMMA MovedIsLevel ==
    ASSUME TypeOK, NEW s \in Skills, NEW average
    PROVE  /\ Moved(s, average) \in Levels
           /\ Moved(s, average) \in level[s] - 1 .. level[s] + 1
           /\ [level EXCEPT ![s] = Moved(s, average)] \in [Skills -> Levels]
<1>1. level[s] \in 1 .. 9
  BY DEF TypeOK, Levels
<1>2. Moved(s, average) \in 1 .. 9 /\ Moved(s, average) \in level[s] - 1 .. level[s] + 1
  BY <1>1 DEF Moved
<1> QED
  BY <1>2 DEF TypeOK, Levels

LEMMA CorrectCalls ==
    ASSUME Inv, NEW q \in Requests, NEW s \in Skills, NEW average, Correct(q, s, average)
    PROVE  /\ MayCall(q) /\ EndedRows # {} /\ Call(q, Correction(s, average))
           /\ s \notin sessions[CompletedRow].doc.corrected
BY DEF Correct, Correction, Moved, Idle

LEMMA CorrectionFits ==
    ASSUME Inv, NEW s \in Skills, NEW average, EndedRows # {}
    PROVE  Correction(s, average) \in Request /\ Fits(Correction(s, average))
<1> SUFFICES ASSUME NEW r, r = Correction(s, average) PROVE r \in Request /\ Fits(r)
  OBVIOUS
<1> DEFINE moved == Moved(s, average)
           levels == [Idle.levels EXCEPT ![s] = IF moved = level[s] THEN None ELSE moved]
           weakest == Weakest([level EXCEPT ![s] = moved])
           up == IF moved = level[s] \/ weakest = learner THEN None ELSE weakest
<1>1. moved \in Levels /\ weakest \in Levels
  BY MovedIsLevel, WeakestIsLevel DEF Inv
<1>2. levels \in [Skills -> Levels \cup {None}] /\ up \in Levels \cup {None}
  BY <1>1 DEF Idle
<1>3. r =
        [Idle EXCEPT !.row = CompletedRow,
            !.doc = Marked(sessions[CompletedRow].doc, s, average),
            !.levels = levels, !.learner = up]
  BY DEF Correction
<1> HIDE DEF levels, up, moved, weakest
<1> QED
  BY <1>2, <1>3, CorrectedFits

\* Every request makes a call that fits.
LEMMA BeginCalls ==
    ASSUME Inv, NEW q \in Requests, Begin(q)
    PROVE  MayCall(q) /\ \E r \in Request : Fits(r) /\ Call(q, r)
<1>1. CASE Start(q)
  BY <1>1, IdleFits DEF Start
<1>2. CASE Complete(q)
  <2>1. PICK row \in Current :
            Ready(sessions[row].doc) /\ Call(q, Completed(row, sessions[row].doc))
    BY <1>2 DEF Complete
  <2>2. row \in DOMAIN sessions /\ sessions[row].doc \in Document
    BY Rows DEF Inv, Current, OpenRows, Session
  <2> QED
    BY <1>2, <2>1, <2>2, CompletedFits DEF Complete
<1>3. CASE SkipAll(q)
  <2>1. CASE OpenRows = {}
    <3> DEFINE doc == [EmptyState EXCEPT !.skipped = Skills]
    <3>1. doc \in Document /\ doc.skipped = Skills
      BY DEF EmptyState, Document
    <3> HIDE DEF doc
    <3>2. Ready(doc)
      BY <3>1 DEF Ready
    <3>3. Call(q, Completed(0, doc))
      BY <1>3, <2>1 DEF SkipAll, doc
    <3> QED
      BY <1>3, <3>1, <3>2, <3>3, CompletedFits DEF SkipAll
  <2>2. CASE OpenRows # {}
    <3>1. PICK row \in Current :
              Call(q, Completed(row, [sessions[row].doc EXCEPT !.skipped = Skills]))
      BY <1>3, <2>2 DEF SkipAll
    <3> DEFINE doc == [sessions[row].doc EXCEPT !.skipped = Skills]
    <3>2. row \in DOMAIN sessions /\ sessions[row].doc \in Document
      BY Rows DEF Inv, Current, OpenRows, Session
    <3>3. doc \in Document /\ doc.skipped = Skills
      BY <3>2 DEF Document
    <3>4. Call(q, Completed(row, doc))
      BY <3>1
    <3> HIDE DEF doc
    <3>5. Ready(doc)
      BY <3>3 DEF Ready
    <3> QED
      BY <1>3, <3>2, <3>3, <3>4, <3>5, CompletedFits DEF SkipAll
  <2> QED
    BY <2>1, <2>2
<1>4. ASSUME NEW i \in Items, NEW score \in {0, 1}, Answer(q, i, score)
      PROVE  MayCall(q) /\ \E r \in Request : Fits(r) /\ Call(q, r)
  <2>1. PICK row \in Current :
            Call(q, [Idle EXCEPT !.row = row,
                        !.doc = [sessions[row].doc EXCEPT !.answers[i] = score]])
    BY <1>4 DEF Answer
  <2> DEFINE doc == [sessions[row].doc EXCEPT !.answers[i] = score]
  <2>2. row \in OpenRows /\ sessions[row].doc \in Document
    BY Rows DEF Inv, Current, OpenRows, Session
  <2>3. doc \in Document /\ doc.placement = sessions[row].doc.placement
    BY <2>2 DEF Document
  <2>4. Call(q, [Idle EXCEPT !.row = row, !.doc = doc])
    BY <2>1
  <2> HIDE DEF doc
  <2> QED
    BY <1>4, <2>2, <2>3, <2>4, RewriteFits DEF Answer
<1>5. ASSUME NEW S \in SUBSET Skills, Skip(q, S)
      PROVE  MayCall(q) /\ \E r \in Request : Fits(r) /\ Call(q, r)
  <2>1. PICK row \in Current :
            Call(q, [Idle EXCEPT !.row = row,
                        !.doc = [sessions[row].doc EXCEPT !.skipped = @ \cup S]])
    BY <1>5 DEF Skip
  <2> DEFINE doc == [sessions[row].doc EXCEPT !.skipped = @ \cup S]
  <2>2. row \in OpenRows /\ sessions[row].doc \in Document
    BY Rows DEF Inv, Current, OpenRows, Session
  <2>3. doc \in Document /\ doc.placement = sessions[row].doc.placement
    BY <2>2 DEF Document
  <2>4. Call(q, [Idle EXCEPT !.row = row, !.doc = doc])
    BY <2>1
  <2> HIDE DEF doc
  <2> QED
    BY <1>5, <2>2, <2>3, <2>4, RewriteFits DEF Skip
<1>6. ASSUME NEW s \in Skills, NEW average \in Averages, Correct(q, s, average)
      PROVE  MayCall(q) /\ \E r \in Request : Fits(r) /\ Call(q, r)
  BY <1>6, CorrectCalls, CorrectionFits
<1> QED
  BY <1>1, <1>2, <1>3, <1>4, <1>5, <1>6 DEF Begin

-----------------------------------------------------------------------------
(* Commits                                                                 *)

\* The row that a commit inserts or rewrites.
Written(r) == IF r.row = 0 THEN Len(sessions) + 1 ELSE r.row

LEMMA CommitWrites ==
    ASSUME Inv, NEW q \in Requests, Commit(q)
    PROVE  LET r == req[q]
               k == Written(r)
           IN  /\ sessions' \in Seq(Session)
               /\ DOMAIN sessions' = DOMAIN sessions \cup {k} /\ k \in Nat \ {0}
               /\ r.row # 0 => k \in DOMAIN sessions
               /\ r.row = 0 => k \notin DOMAIN sessions
               /\ \A i \in DOMAIN sessions : i # k => sessions'[i] = sessions[i]
               /\ sessions'[k].doc = r.doc
               /\ sessions'[k].ended = IF r.ends THEN LastEnd + 1
                                       ELSE IF r.row = 0 THEN 0 ELSE sessions[k].ended
<1> DEFINE r == req[q]
           k == Written(r)
<1>1. /\ r \in Request /\ r.doc \in Document /\ r.row \in DOMAIN sessions \cup {0}
      /\ r.row \in Nat
  BY DEF Inv, TypeOK, Fits, Request
<1>2. LastEnd \in Nat
  BY LastIsGreatest
<1>3. CASE r.row = 0
  <2> DEFINE e == IF r.ends THEN LastEnd + 1 ELSE 0
             row == [NewSession EXCEPT !.doc = r.doc, !.ended = e]
  <2>1. sessions' = Append(sessions, row)
    BY <1>3 DEF Commit
  <2>2. e \in Nat
    BY <1>2
  <2> HIDE DEF e
  <2>3. row \in Session /\ row.doc = r.doc /\ row.ended = e
    BY <1>1, <2>2 DEF NewSession, Session
  <2> HIDE DEF row
  <2>4. /\ Len(sessions) \in Nat /\ DOMAIN sessions = 1 .. Len(sessions)
        /\ sessions \in Seq(Session)
    BY Rows DEF Inv
  <2>5. /\ sessions' \in Seq(Session) /\ Len(sessions') = Len(sessions) + 1
        /\ \A i \in 1 .. Len(sessions) : sessions'[i] = sessions[i]
        /\ sessions'[Len(sessions) + 1] = row
    BY <2>1, <2>3, <2>4
  <2>6. DOMAIN sessions' = 1 .. Len(sessions) + 1
    BY <2>5, LenProperties
  <2>7. k = Len(sessions) + 1
    BY <1>3 DEF Written
  <2> QED
    BY <1>3, <2>3, <2>4, <2>5, <2>6, <2>7 DEF e
<1>4. CASE r.row # 0
  <2> DEFINE old == sessions[k]
             e == IF r.ends THEN LastEnd + 1 ELSE old.ended
             row == [old EXCEPT !.doc = r.doc, !.ended = e]
  <2>1. k = r.row /\ k \in DOMAIN sessions /\ old \in Session /\ k \in Nat \ {0}
    BY <1>1, <1>4, Rows DEF Inv, Written
  <2>2. sessions' = [sessions EXCEPT ![k] = row]
    BY <1>4, <2>1 DEF Commit, Session
  <2>3. e \in Nat
    BY <1>2, <2>1 DEF Session
  <2> HIDE DEF e
  <2>4. row \in Session /\ row.doc = r.doc /\ row.ended = e
    BY <1>1, <2>1, <2>3 DEF Session
  <2> HIDE DEF row, k, r, old
  <2>5. /\ sessions' \in Seq(Session) /\ DOMAIN sessions' = DOMAIN sessions
        /\ sessions'[k] = row
        /\ \A i \in DOMAIN sessions : i # k => sessions'[i] = sessions[i]
    BY <2>1, <2>2, <2>4, Rows, ExceptSeq DEF Inv
  <2> QED
    BY <1>4, <2>1, <2>4, <2>5 DEF e, r, k, old
<1> QED
  BY <1>3, <1>4

LEMMA CommitKeeps == ASSUME Inv, NEW q \in Requests, Commit(q) PROVE Inv'
<1> SUFFICES ASSUME NEW r, r = req[q], NEW k, k = Written(r) PROVE Inv'
  OBVIOUS
<1>1. r \in Request /\ Fits(r)
  BY DEF Inv, TypeOK
<1>2. /\ sessions' \in Seq(Session)
      /\ DOMAIN sessions' = DOMAIN sessions \cup {k} /\ k \in Nat \ {0}
      /\ r.row # 0 => k \in DOMAIN sessions
      /\ r.row = 0 => k \notin DOMAIN sessions
      /\ \A i \in DOMAIN sessions : i # k => sessions'[i] = sessions[i]
      /\ sessions'[k].doc = r.doc
      /\ sessions'[k].ended = IF r.ends THEN LastEnd + 1
                              ELSE IF r.row = 0 THEN 0 ELSE sessions[k].ended
  BY CommitWrites
<1>3. LastEnd \in Nat /\ \A i \in DOMAIN sessions : sessions[i].ended <= LastEnd
  BY LastIsGreatest
<1>4. /\ req' = [req EXCEPT ![q] = Idle] /\ UNCHANGED <<overlap, calls>>
      /\ level' = [s \in Skills |-> IF r.levels[s] = None THEN level[s] ELSE r.levels[s]]
      /\ learner' = IF r.learner = None THEN learner ELSE r.learner
  BY DEF Commit, Finish
<1>5. \A p \in Requests : req'[p] = IF p = q THEN Idle ELSE req[p]
  BY <1>4 DEF Inv, TypeOK
<1>6. level' \in [Skills -> Levels] /\ learner' \in Levels
  BY <1>1, <1>4 DEF Inv, TypeOK, Request
<1>7. TypeOK'
  BY <1>2, <1>4, <1>6, IdleFits DEF Inv, TypeOK
<1>8. WillEnd(r) <=> sessions'[k].ended # 0
  <2>1. CASE r.ends
    BY <1>2, <1>3, <2>1 DEF WillEnd
  <2>2. CASE ~r.ends
    BY <1>2, <2>2 DEF WillEnd, Written
  <2> QED
    BY <2>1, <2>2
<1>9. \A i \in DOMAIN sessions : sessions[i].ended # 0 => sessions'[i].ended # 0
  <2>1. k \in DOMAIN sessions => (sessions[k].ended # 0 => sessions'[k].ended # 0)
    BY <1>2, <1>3
  <2> QED
    BY <1>2, <2>1
<1>10. HasLast'
  <2>1. \A i \in DOMAIN sessions : sessions[i].ended \in Nat
    BY Rows DEF Inv, Session
  <2>2. CASE r.ends
    <3>1. sessions'[k].ended = LastEnd + 1
      BY <1>2, <2>2
    <3>2. \A i \in DOMAIN sessions' : sessions'[i].ended <= LastEnd + 1
      BY <1>2, <1>3, <2>1, <3>1
    <3>3. 0 <= LastEnd + 1
      BY <1>3
    <3>4. LastEnd + 1 \in {0} \cup {sessions'[i].ended : i \in DOMAIN sessions'}
      BY <1>2, <3>1
    <3> QED
      BY <3>2, <3>3, <3>4 DEF HasLast, Ends
  <2>3. CASE ~r.ends
    <3>1. {0} \cup {sessions'[i].ended : i \in DOMAIN sessions'} = Ends
      <4>1. CASE r.row = 0
        BY <1>2, <2>3, <4>1 DEF Ends
      <4>2. CASE r.row # 0
        BY <1>2, <2>3, <4>2 DEF Ends
      <4> QED
        BY <4>1, <4>2
    <3> QED
      BY <3>1 DEF Inv, HasLast, Ends
  <2> QED
    BY <2>2, <2>3
<1>11. OpenUnplaced'
  BY <1>1, <1>2, <1>8 DEF Inv, OpenUnplaced, OpenRows, Fits
<1>12. PlacementFromAnswers'
  <2> SUFFICES ASSUME NEW i \in DOMAIN sessions' PROVE Consistent(sessions'[i].doc)
    BY DEF PlacementFromAnswers, Consistent, PlacementOf, Ready
  <2>1. CASE i = k
    BY <1>1, <1>2, <2>1 DEF Fits
  <2>2. CASE i # k
    BY <1>2, <2>2 DEF Inv, PlacementFromAnswers, Consistent
  <2> QED
    BY <2>1, <2>2
<1>13. ASSUME NEW p \in Requests PROVE Fits(req[p])'
  <2>1. Fits(req'[p])
    BY <1>5, IdleFits DEF Inv
  <2>2. req'[p].row \in DOMAIN sessions'
          \/ req'[p].row = 0
    BY <1>2, <2>1 DEF Fits
  <2>3. WillEnd(req'[p]) => req'[p].ends \/ (req'[p].row # 0 /\ sessions'[req'[p].row].ended # 0)
    BY <1>9, <2>1 DEF Fits, WillEnd
  <2> QED
    BY <2>1, <2>2, <2>3 DEF Fits, WillEnd, Consistent
<1> QED
  BY <1>7, <1>10, <1>11, <1>12, <1>13 DEF Inv

LEMMA WeekKeeps == ASSUME Inv, NEW w \in DOMAIN sessions, WeekPasses(w) PROVE Inv'
<1> DEFINE row == [sessions[w] EXCEPT !.lapsed = TRUE]
<1>1. sessions[w] \in Session /\ sessions' = [sessions EXCEPT ![w] = row]
  BY Rows DEF Inv, WeekPasses
<1>2. row \in Session /\ row.doc = sessions[w].doc /\ row.ended = sessions[w].ended
  BY <1>1 DEF Session
<1> HIDE DEF row
<1>3. /\ sessions' \in Seq(Session) /\ DOMAIN sessions' = DOMAIN sessions
      /\ \A i \in DOMAIN sessions : sessions'[i] = IF i = w THEN row ELSE sessions[i]
  BY <1>1, <1>2, Rows, ExceptSeq DEF Inv
<1>4. \A i \in DOMAIN sessions : /\ sessions'[i].doc = sessions[i].doc
                                 /\ sessions'[i].ended = sessions[i].ended
  BY <1>2, <1>3
<1>5. UNCHANGED <<overlap, level, learner, req, calls>>
  BY DEF WeekPasses
<1>6. TypeOK'
  BY <1>3, <1>5 DEF Inv, TypeOK
<1>7. HasLast' /\ OpenUnplaced' /\ PlacementFromAnswers'
  <2>1. Ends' = Ends
    BY <1>3, <1>4 DEF Ends
  <2>2. OpenUnplaced'
    BY <1>3, <1>4 DEF Inv, OpenUnplaced, OpenRows
  <2>3. PlacementFromAnswers'
    BY <1>3, <1>4 DEF Inv, PlacementFromAnswers
  <2> QED
    BY <2>1, <2>2, <2>3 DEF Inv, HasLast
<1>8. \A p \in Requests : Fits(req[p])'
  BY <1>3, <1>4, <1>5 DEF Inv, Fits, WillEnd
<1> QED
  BY <1>6, <1>7, <1>8 DEF Inv

LEMMA FailKeeps == ASSUME Inv, NEW q \in Requests, Fail(q) PROVE Inv'
BY IdleFits, RequestKeeps DEF Fail, Finish, Inv, TypeOK

LEMMA InvNext == Inv /\ [Next]_vars => Inv'
<1> SUFFICES ASSUME Inv, [Next]_vars PROVE Inv'
  OBVIOUS
<1>1. ASSUME NEW q \in Requests, Begin(q) PROVE Inv'
  BY <1>1, BeginCalls, CallKeeps
<1>2. ASSUME NEW q \in Requests, Commit(q) PROVE Inv'
  BY <1>2, CommitKeeps
<1>3. ASSUME NEW q \in Requests, Fail(q) PROVE Inv'
  BY <1>3, FailKeeps
<1>4. ASSUME NEW i \in DOMAIN sessions, WeekPasses(i) PROVE Inv'
  BY <1>4, WeekKeeps
<1>5. CASE UNCHANGED vars
  BY <1>5 DEF vars, Inv, TypeOK, HasLast, Ends, OpenUnplaced, OpenRows,
     PlacementFromAnswers, Fits, WillEnd
<1> QED
  BY <1>1, <1>2, <1>3, <1>4, <1>5 DEF Next

LEMMA InvInit == Init => Inv
<1> SUFFICES ASSUME Init PROVE Inv
  OBVIOUS
<1>1. sessions \in Seq(Session) /\ DOMAIN sessions = {}
  BY EmptySeq DEF Init
<1>2. /\ level \in [Skills -> Levels] /\ learner \in Levels
      /\ overlap \in Overlaps /\ calls \in 0 .. MaxCalls[overlap]
  BY DiagnosticAssumption DEF Init, Levels
<1>3. req \in [Requests -> Request] /\ \A q \in Requests : Fits(req[q])
  BY IdleFits DEF Init
<1>4. HasLast
  BY <1>1 DEF HasLast, Ends
<1> QED
  BY <1>1, <1>2, <1>3, <1>4 DEF Inv, TypeOK, OpenUnplaced, OpenRows, PlacementFromAnswers

\* Type correctness of Diagnostic: every placement and every correction leaves
\* a level between 1 and 9.
THEOREM TypeCorrect == Spec => []TypeOK
<1>1. Spec => []Inv
  BY InvInit, InvNext, PTL DEF Spec
<1>2. Inv => TypeOK
  BY DEF Inv
<1> QED
  BY <1>1, <1>2, PTL

\* However requests overlap and overwrite each other's documents, a stored
\* placement is that of the answers and skips it is stored with.
THEOREM PlacementIsFromAnswers == Spec => []PlacementFromAnswers
<1>1. Spec => []Inv
  BY InvInit, InvNext, PTL DEF Spec
<1>2. Inv => PlacementFromAnswers
  BY DEF Inv
<1> QED
  BY <1>1, <1>2, PTL

-----------------------------------------------------------------------------
(* A learner whose requests do not overlap                                 *)

\* Levels l and the learner's level u agree with a placement and the
\* corrections made of it.
Settled(doc, l, u) ==
    /\ doc.placement \in [Skills -> Levels]
    /\ \A s \in Skills :
           /\ l[s] \in doc.placement[s] - 1 .. doc.placement[s] + 1
           /\ s \notin doc.corrected => l[s] = doc.placement[s]
    /\ u = Weakest(l)

After(r) == [s \in Skills |-> IF r.levels[s] = None THEN level[s] ELSE r.levels[s]]
LearnerAfter(r) == IF r.learner = None THEN learner ELSE r.learner

\* What the only request in flight is about to commit.
Alone(r) ==
    r.pc = "commit" =>
        /\ r.row = IF sessions = <<>> THEN 0 ELSE 1
        /\ WillEnd(r) => Settled(r.doc, After(r), LearnerAfter(r))

OneCommitting ==
    \A p, q \in Requests : req[p].pc = "commit" /\ req[q].pc = "commit" => p = q

OneByOne ==
    ~overlap => /\ OneDiagnostic /\ CorrectedOnce
                /\ OneCommitting /\ \A q \in Requests : Alone(req[q])

OneInv == Inv /\ OneByOne

LEMMA TheRow ==
    ASSUME Inv, OneDiagnostic
    PROVE  /\ DOMAIN sessions \subseteq {1}
           /\ sessions = <<>> <=> DOMAIN sessions = {}
<1>1. /\ Len(sessions) \in Nat /\ DOMAIN sessions = 1 .. Len(sessions)
      /\ sessions \in Seq(Session)
  BY Rows DEF Inv
<1>2. sessions = <<>> <=> Len(sessions) = 0
  BY <1>1, EmptySeq
<1> QED
  BY <1>1, <1>2 DEF OneDiagnostic

\* A completed diagnostic is settled.
LEMMA EndedIsSettled ==
    ASSUME Inv, OneDiagnostic, CorrectedOnce, NEW row \in EndedRows
    PROVE  Settled(sessions[row].doc, level, learner)
<1>1. row \in DOMAIN sessions /\ sessions[row].ended # 0 /\ sessions[row].doc \in Document
  BY Rows DEF Inv, EndedRows, OpenRows, Session
<1>2. sessions[row].doc.placement \in [Skills -> Levels]
  BY <1>1 DEF OneDiagnostic, Document
<1> QED
  BY <1>2 DEF CorrectedOnce, Settled

LEMMA CompletedAlone ==
    ASSUME Inv, NEW doc \in Document, NEW row, row = IF sessions = <<>> THEN 0 ELSE 1,
           NEW r, r = [Completed(row, doc) EXCEPT !.pc = "commit"]
    PROVE  Alone(r)
<1> DEFINE placement == PlacementOf(doc)
           new == [doc EXCEPT !.placement = placement]
           levels == [s \in Skills |-> IF placement[s] = level[s] THEN None ELSE placement[s]]
           up == IF Weakest(placement) = learner THEN None ELSE Weakest(placement)
<1>1. /\ placement \in [Skills -> Levels] /\ level \in [Skills -> Levels]
      /\ \A l \in Levels : l # None /\ l \in Int
  BY PlacementIsLevels, DiagnosticAssumption DEF Inv, TypeOK, Levels
<1>2. Weakest(placement) \in Levels
  BY <1>1, WeakestIsLevel
<1>3. r = [[Idle EXCEPT !.row = row, !.ends = TRUE, !.doc = new, !.levels = levels,
                        !.learner = up] EXCEPT !.pc = "commit"]
  BY DEF Completed
<1> HIDE DEF placement
<1>4. new.placement = placement
  BY DEF Document
<1> HIDE DEF new
<1>5. r.row = row /\ r.doc = new /\ r.levels = levels /\ r.learner = up
  BY <1>3 DEF Idle
<1>6. After(r) = placement
  BY <1>1, <1>5 DEF After
<1>7. LearnerAfter(r) = Weakest(placement)
  BY <1>1, <1>2, <1>5 DEF LearnerAfter
<1>8. Settled(new, placement, Weakest(placement))
  BY <1>1, <1>4 DEF Settled
<1> QED
  BY <1>5, <1>6, <1>7, <1>8 DEF Alone

LEMMA CorrectionAlone ==
    ASSUME Inv, OneDiagnostic, CorrectedOnce, NEW s \in Skills, NEW average,
           EndedRows # {}, s \notin sessions[CompletedRow].doc.corrected,
           NEW r, r = [Correction(s, average) EXCEPT !.pc = "commit"]
    PROVE  Alone(r)
<1> DEFINE moved == Moved(s, average)
           next == [level EXCEPT ![s] = moved]
           levels == [Idle.levels EXCEPT ![s] = IF moved = level[s] THEN None ELSE moved]
           up == IF moved = level[s] \/ Weakest(next) = learner THEN None ELSE Weakest(next)
           old == sessions[CompletedRow].doc
           new == Marked(old, s, average)
<1>1. /\ CompletedRow \in EndedRows /\ CompletedRow \in DOMAIN sessions
      /\ old \in Document /\ Settled(old, level, learner)
  BY CompletedIsEnded, EndedIsSettled, Rows DEF Inv, EndedRows, OpenRows, Session
<1>2. /\ moved \in Levels /\ moved \in level[s] - 1 .. level[s] + 1
      /\ next \in [Skills -> Levels] /\ level \in [Skills -> Levels]
      /\ \A l \in Levels : l # None /\ l \in Int
  BY MovedIsLevel, DiagnosticAssumption DEF Inv, TypeOK, Levels
<1>3. Weakest(next) \in Levels
  BY <1>2, WeakestIsLevel
<1>4. r = [[Idle EXCEPT !.row = CompletedRow, !.doc = new, !.levels = levels,
                        !.learner = up] EXCEPT !.pc = "commit"]
  BY DEF Correction
<1>5. new.placement = old.placement /\ new.corrected = old.corrected \cup {s}
  BY <1>1 DEF Marked, Document
<1> HIDE DEF moved, new, old
<1>6. r.row = CompletedRow /\ r.doc = new /\ r.levels = levels /\ r.learner = up
  BY <1>4 DEF Idle
<1>7. r.row = IF sessions = <<>> THEN 0 ELSE 1
  BY <1>1, <1>6, TheRow
<1>8. After(r) = next
  <2>1. \A t \in Skills : levels[t] = IF t = s /\ moved # level[s] THEN moved ELSE None
    BY DEF Idle
  <2> HIDE DEF levels
  <2>2. \A t \in Skills : (IF levels[t] = None THEN level[t] ELSE levels[t]) = next[t]
    BY <1>2, <2>1
  <2> HIDE DEF next
  <2> QED
    BY <1>2, <1>6, <2>2 DEF After
<1>9. LearnerAfter(r) = Weakest(next)
  <2>1. CASE moved = level[s]
    <3>1. next = level
      BY <1>2, <2>1
    <3> QED
      BY <1>1, <1>6, <2>1, <3>1 DEF LearnerAfter, Settled
  <2>2. CASE moved # level[s]
    <3> HIDE DEF next
    <3> QED
      BY <1>2, <1>3, <1>6, <2>2 DEF LearnerAfter
  <2> QED
    BY <2>1, <2>2
<1>10. Settled(new, next, Weakest(next))
  <2>1. \A t \in Skills : t # s => next[t] = level[t]
    BY <1>2
  <2>2. next[s] = moved /\ level[s] = old.placement[s] /\ level[s] \in Int
    BY <1>1, <1>2 DEF Settled, old
  <2> HIDE DEF next
  <2> QED
    BY <1>1, <1>2, <1>5, <2>1, <2>2 DEF Settled
<1> HIDE DEF next, levels, up
<1> QED
  BY <1>6, <1>7, <1>8, <1>9, <1>10 DEF Alone

\* The only request of such a learner fits what it found.
LEMMA BeginAlone ==
    ASSUME Inv, OneDiagnostic, CorrectedOnce, NEW q \in Requests, Begin(q)
    PROVE  \E r : Alone([r EXCEPT !.pc = "commit"]) /\ Call(q, r)
<1>0. ASSUME NEW row \in Current
      PROVE  /\ row \in OpenRows /\ row = 1 /\ sessions # <<>>
             /\ sessions[row].ended = 0 /\ sessions[row].doc \in Document
  BY TheRow, Rows DEF Inv, Current, OpenRows, Session
<1>1. CASE Start(q)
  <2>1. sessions = <<>> /\ Call(q, Idle)
    BY <1>1 DEF Start
  <2>2. Alone([Idle EXCEPT !.pc = "commit"])
    BY <2>1 DEF Alone, Idle, WillEnd
  <2> QED
    BY <2>1, <2>2
<1>2. CASE Complete(q)
  <2>1. PICK row \in Current : Call(q, Completed(row, sessions[row].doc))
    BY <1>2 DEF Complete
  <2> QED
    BY <1>0, <2>1, CompletedAlone
<1>3. CASE SkipAll(q)
  <2>1. CASE OpenRows = {}
    <3>1. sessions = <<>>
      BY <1>3, <2>1, TheRow DEF SkipAll, EndedRows
    <3>2. [EmptyState EXCEPT !.skipped = Skills] \in Document
      BY DEF EmptyState, Document
    <3>3. Call(q, Completed(0, [EmptyState EXCEPT !.skipped = Skills]))
      BY <1>3, <2>1 DEF SkipAll
    <3> QED
      BY <3>1, <3>2, <3>3, CompletedAlone
  <2>2. CASE OpenRows # {}
    <3>1. PICK row \in Current :
              Call(q, Completed(row, [sessions[row].doc EXCEPT !.skipped = Skills]))
      BY <1>3, <2>2 DEF SkipAll
    <3>2. [sessions[row].doc EXCEPT !.skipped = Skills] \in Document
      BY <1>0 DEF Document
    <3> QED
      BY <1>0, <3>1, <3>2, CompletedAlone
  <2> QED
    BY <2>1, <2>2
<1>4. ASSUME NEW row \in Current, NEW doc
      PROVE  Alone([[Idle EXCEPT !.row = row, !.doc = doc] EXCEPT !.pc = "commit"])
  <2> SUFFICES ASSUME NEW r,
                      r = [[Idle EXCEPT !.row = row, !.doc = doc] EXCEPT !.pc = "commit"]
               PROVE  Alone(r)
    OBVIOUS
  <2>1. r.row = row /\ r.ends = FALSE
    BY DEF Idle
  <2> QED
    BY <1>0, <2>1 DEF Alone, WillEnd
<1>5. ASSUME NEW i \in Items, NEW score \in {0, 1}, Answer(q, i, score)
      PROVE  \E r : Alone([r EXCEPT !.pc = "commit"]) /\ Call(q, r)
  <2>1. PICK row \in Current :
            Call(q, [Idle EXCEPT !.row = row,
                        !.doc = [sessions[row].doc EXCEPT !.answers[i] = score]])
    BY <1>5 DEF Answer
  <2> DEFINE doc == [sessions[row].doc EXCEPT !.answers[i] = score]
  <2>2. Call(q, [Idle EXCEPT !.row = row, !.doc = doc])
    BY <2>1
  <2> HIDE DEF doc
  <2> QED
    BY <1>4, <2>2
<1>6. ASSUME NEW S \in SUBSET Skills, Skip(q, S)
      PROVE  \E r : Alone([r EXCEPT !.pc = "commit"]) /\ Call(q, r)
  <2>1. PICK row \in Current :
            Call(q, [Idle EXCEPT !.row = row,
                        !.doc = [sessions[row].doc EXCEPT !.skipped = @ \cup S]])
    BY <1>6 DEF Skip
  <2> DEFINE doc == [sessions[row].doc EXCEPT !.skipped = @ \cup S]
  <2>2. Call(q, [Idle EXCEPT !.row = row, !.doc = doc])
    BY <2>1
  <2> HIDE DEF doc
  <2> QED
    BY <1>4, <2>2
<1>7. ASSUME NEW s \in Skills, NEW average \in Averages, Correct(q, s, average)
      PROVE  \E r : Alone([r EXCEPT !.pc = "commit"]) /\ Call(q, r)
  BY <1>7, CorrectCalls, CorrectionAlone
<1> QED
  BY <1>1, <1>2, <1>3, <1>5, <1>6, <1>7 DEF Begin

LEMMA BeginOneByOne == ASSUME OneInv, NEW q \in Requests, Begin(q) PROVE OneByOne'
<1> SUFFICES ASSUME ~overlap'
             PROVE  (/\ OneDiagnostic /\ CorrectedOnce
                     /\ OneCommitting /\ \A p \in Requests : Alone(req[p]))'
  BY DEF OneByOne
<1>1. MayCall(q)
  BY BeginCalls DEF OneInv
<1>2. UNCHANGED <<overlap, sessions, level, learner>>
  BY BeginCalls DEF OneInv, Call
<1>3. OneDiagnostic /\ CorrectedOnce
  BY <1>2 DEF OneInv, OneByOne
<1>4. PICK r : Alone([r EXCEPT !.pc = "commit"]) /\ Call(q, r)
  BY <1>3, BeginAlone DEF OneInv
<1>5. \A p \in Requests : req'[p] = IF p = q THEN [r EXCEPT !.pc = "commit"] ELSE req[p]
  BY <1>4 DEF Call, OneInv, Inv, TypeOK
<1>6. \A p \in Requests : p # q => req'[p].pc = "idle"
  BY <1>1, <1>2, <1>5 DEF MayCall
<1>7. OneDiagnostic' /\ CorrectedOnce'
  BY <1>2, <1>3 DEF OneDiagnostic, CorrectedOnce, EndedRows, OpenRows
<1>8. OneCommitting'
  BY <1>6 DEF OneCommitting
<1>9. ASSUME NEW p \in Requests PROVE Alone(req[p])'
  <2>1. p # q \/ Alone(req'[p])
    BY <1>4, <1>5
  <2> QED
    BY <1>2, <1>6, <2>1 DEF Alone, WillEnd, After, LearnerAfter
<1> QED
  BY <1>7, <1>8, <1>9

\* Steps that store nothing and make no call.
LEMMA EndsOneByOne ==
    ASSUME OneInv, UNCHANGED <<overlap, level, learner>>,
           sessions' = sessions,
           \A p \in Requests : req'[p] = req[p] \/ req'[p].pc = "idle"
    PROVE  OneByOne'
<1> SUFFICES ASSUME ~overlap
             PROVE  (/\ OneDiagnostic /\ CorrectedOnce
                     /\ OneCommitting /\ \A p \in Requests : Alone(req[p]))'
  BY DEF OneByOne
<1>1. OneDiagnostic' /\ CorrectedOnce'
  BY DEF OneInv, OneByOne, OneDiagnostic, CorrectedOnce, EndedRows, OpenRows
<1>2. OneCommitting'
  BY DEF OneInv, OneByOne, OneCommitting
<1>3. ASSUME NEW p \in Requests PROVE Alone(req[p])'
  BY DEF OneInv, OneByOne, Alone, WillEnd, After, LearnerAfter
<1> QED
  BY <1>1, <1>2, <1>3

LEMMA CommitOneByOne == ASSUME OneInv, NEW q \in Requests, Commit(q) PROVE OneByOne'
<1> SUFFICES ASSUME ~overlap', NEW r, r = req[q], NEW k, k = Written(r)
             PROVE  (/\ OneDiagnostic /\ CorrectedOnce
                     /\ OneCommitting /\ \A p \in Requests : Alone(req[p]))'
  BY DEF OneByOne
<1>1. /\ req' = [req EXCEPT ![q] = Idle] /\ overlap' = overlap /\ r.pc = "commit"
      /\ level' = After(r) /\ learner' = LearnerAfter(r)
  BY DEF Commit, Finish, After, LearnerAfter
<1>2. /\ OneDiagnostic /\ CorrectedOnce /\ OneCommitting /\ Alone(r)
  BY <1>1 DEF OneInv, OneByOne
<1>3. /\ sessions' \in Seq(Session)
      /\ DOMAIN sessions' = DOMAIN sessions \cup {k}
      /\ sessions'[k].doc = r.doc
      /\ sessions'[k].ended = IF r.ends THEN LastEnd + 1
                              ELSE IF r.row = 0 THEN 0 ELSE sessions[k].ended
  BY CommitWrites DEF OneInv
<1>4. k = 1 /\ DOMAIN sessions' = {1}
  <2>1. DOMAIN sessions \subseteq {1} /\ (sessions = <<>> <=> DOMAIN sessions = {})
    BY <1>2, TheRow DEF OneInv
  <2>2. r.row = IF sessions = <<>> THEN 0 ELSE 1
    BY <1>1, <1>2 DEF Alone
  <2>3. k = 1
    <3>1. sessions = <<>> => Len(sessions) = 0
      BY EmptySeq
    <3> QED
      BY <2>2, <3>1 DEF Written
  <2> QED
    BY <1>3, <2>1, <2>3
<1>5. WillEnd(r) <=> sessions'[1].ended # 0
  <2>1. LastEnd \in Nat
    BY LastIsGreatest DEF OneInv
  <2>2. CASE r.ends
    BY <1>3, <1>4, <2>1, <2>2 DEF WillEnd
  <2>3. CASE ~r.ends
    BY <1>3, <1>4, <2>3 DEF WillEnd, Written
  <2> QED
    BY <2>2, <2>3
<1>6. WillEnd(r) => Settled(r.doc, level', learner')
  BY <1>1, <1>2 DEF Alone
<1>7. WillEnd(r) <=> r.doc.placement # None
  <2>1. None \notin [Skills -> Levels]
    BY DiagnosticAssumption DEF Levels
  <2>2. r.doc.placement # None => WillEnd(r)
    BY DEF OneInv, Inv, Fits
  <2> QED
    BY <1>6, <2>1, <2>2 DEF Settled
<1>8. OneDiagnostic'
  <2>1. Len(sessions') <= 1
    <3>1. Len(sessions') \in Nat /\ DOMAIN sessions' = 1 .. Len(sessions')
      BY <1>3, LenProperties
    <3> QED
      BY <1>4, <3>1
  <2> QED
    BY <1>3, <1>4, <1>5, <1>7, <2>1 DEF OneDiagnostic
<1>9. CorrectedOnce'
  BY <1>3, <1>4, <1>5, <1>6 DEF CorrectedOnce, EndedRows, OpenRows, Settled
<1>10. \A p \in Requests : req'[p].pc # "commit"
  <2>1. \A p \in Requests : req'[p] = IF p = q THEN Idle ELSE req[p]
    BY <1>1 DEF OneInv, Inv, TypeOK
  <2> QED
    BY <1>1, <1>2, <2>1, IdleFits DEF OneCommitting
<1> QED
  BY <1>8, <1>9, <1>10 DEF OneCommitting, Alone

LEMMA WeekOneByOne ==
    ASSUME OneInv, NEW w \in DOMAIN sessions, WeekPasses(w) PROVE OneByOne'
<1> SUFFICES ASSUME ~overlap
             PROVE  (/\ OneDiagnostic /\ CorrectedOnce
                     /\ OneCommitting /\ \A p \in Requests : Alone(req[p]))'
  BY DEF OneByOne, WeekPasses
<1>1. UNCHANGED <<overlap, level, learner, req>>
  BY DEF WeekPasses
<1>2. /\ DOMAIN sessions' = DOMAIN sessions /\ Len(sessions') = Len(sessions)
      /\ sessions' \in Seq(Session)
      /\ \A i \in DOMAIN sessions : /\ sessions'[i].doc = sessions[i].doc
                                    /\ sessions'[i].ended = sessions[i].ended
  <2> DEFINE row == [sessions[w] EXCEPT !.lapsed = TRUE]
  <2>1. sessions[w] \in Session /\ sessions' = [sessions EXCEPT ![w] = row]
    BY Rows DEF OneInv, Inv, WeekPasses
  <2>2. row \in Session /\ row.doc = sessions[w].doc /\ row.ended = sessions[w].ended
    BY <2>1 DEF Session
  <2> HIDE DEF row
  <2> QED
    BY <2>1, <2>2, Rows, ExceptSeq DEF OneInv, Inv
<1>3. OneDiagnostic' /\ CorrectedOnce'
  BY <1>1, <1>2 DEF OneInv, OneByOne, OneDiagnostic, CorrectedOnce, EndedRows, OpenRows
<1>4. sessions' = <<>> <=> sessions = <<>>
  BY <1>2, Rows, EmptySeq DEF OneInv, Inv
<1>5. ASSUME NEW p \in Requests PROVE Alone(req[p])'
  <2>1. Alone(req[p]) /\ Fits(req[p])
    BY DEF OneInv, OneByOne, Inv
  <2>2. WillEnd(req[p])' <=> WillEnd(req[p])
    BY <1>1, <1>2, <2>1 DEF WillEnd, Fits
  <2> QED
    BY <1>1, <1>4, <2>1, <2>2 DEF Alone, After, LearnerAfter
<1> QED
  BY <1>1, <1>3, <1>5 DEF OneInv, OneByOne, OneCommitting

LEMMA OneNext == OneInv /\ [Next]_vars => OneInv'
<1> SUFFICES ASSUME OneInv, [Next]_vars PROVE OneByOne'
  BY InvNext DEF OneInv
<1>1. ASSUME NEW q \in Requests, Begin(q) PROVE OneByOne'
  BY <1>1, BeginOneByOne
<1>2. ASSUME NEW q \in Requests, Commit(q) PROVE OneByOne'
  BY <1>2, CommitOneByOne
<1>3. ASSUME NEW q \in Requests, Fail(q) PROVE OneByOne'
  <2>1. /\ \A p \in Requests : req'[p] = req[p] \/ req'[p] = Idle
        /\ UNCHANGED <<overlap, sessions, level, learner>>
    BY <1>3 DEF Fail, Finish, OneInv, Inv, TypeOK
  <2> QED
    BY <2>1, IdleFits, EndsOneByOne
<1>4. ASSUME NEW i \in DOMAIN sessions, WeekPasses(i) PROVE OneByOne'
  BY <1>4, WeekOneByOne
<1>5. CASE UNCHANGED vars
  BY <1>5, EndsOneByOne DEF vars
<1> QED
  BY <1>1, <1>2, <1>3, <1>4, <1>5 DEF Next

LEMMA OneInit == Init => OneInv
<1> SUFFICES ASSUME Init PROVE OneByOne
  BY InvInit DEF OneInv
<1>1. DOMAIN sessions = {} /\ Len(sessions) = 0
  BY EmptySeq DEF Init
<1>2. \A q \in Requests : req[q].pc = "idle"
  BY IdleFits DEF Init
<1> QED
  BY <1>1, <1>2 DEF OneByOne, OneDiagnostic, CorrectedOnce, EndedRows, OpenRows,
     OneCommitting, Alone

\* A learner whose requests do not overlap keeps one diagnostic and its
\* placement, from which each level is moved at most once and by at most one.
THEOREM PlacementIsKept == Spec => []PlacementKept
<1>1. Spec => []OneInv
  BY OneInit, OneNext, PTL DEF Spec
<1>2. OneInv => PlacementKept
  BY DEF OneInv, OneByOne, PlacementKept
<1> QED
  BY <1>1, <1>2, PTL
=============================================================================
