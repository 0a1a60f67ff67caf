--------------------------- MODULE PracticeProofs ---------------------------
(***************************************************************************)
(* Theorems about Practice, for any unit, any number of handlers and any   *)
(* number of requests.                                                     *)
(***************************************************************************)
EXTENDS Practice, SequenceTheorems, FiniteSetTheorems, TLAPS

\* What a request holds fits the attempts that are stored.
Fits(r) ==
    IF r.pc = "idle" THEN r = Idle
    ELSE /\ r.content \in Contents
         /\ r.op = "start" => r.attempt = None /\ Started(r.content)
         /\ r.op = "submit" =>
              r.answer \in Answers /\ (r.attempt = None <=> ~Started(r.content))
         /\ r.op = "reject" => r.pc = "work" /\ r.attempt # None
         /\ r.attempt # None =>
              /\ r.attempt \in DOMAIN attempts
              /\ attempts[r.attempt].content = r.content

RequestsFit == \A q \in Requests : Fits(req[q])

\* The catalogue is held by one transaction, and what that one read about
\* attempts in flight is still so.
OneWorker == \A p, q \in Requests : req[p].pc = "work" /\ req[q].pc = "work" => p = q

StillSo(r) ==
    r.pc = "work" =>
        /\ r.op = "start" => RowsOf(r.content, "started") = {}
        /\ r.op \in {"submit", "reject"} /\ r.attempt # None =>
              attempts[r.attempt].status = "started"
        /\ r.op = "reject" => attempts[r.attempt].expired

WorkStillSo == \A q \in Requests : StillSo(req[q])

\* OneStartedAttempt without cardinalities
InFlight ==
    /\ \A i, j \in DOMAIN attempts :
          attempts[i].status = "started" /\ attempts[j].status = "started" =>
              (attempts[i].content = attempts[j].content => i = j)
    /\ \A i \in DOMAIN attempts :
          attempts[i].status = "started" => Started(attempts[i].content)

\* What was rejected is late, and stays so.
RejectedLate ==
    \A i \in DOMAIN attempts :
        attempts[i].status = "rejected_late" => attempts[i].expired

Inv ==
    /\ TypeOK /\ RequestsFit /\ OneWorker /\ WorkStillSo
    /\ InFlight /\ RejectedLate /\ EvidenceOnce

-----------------------------------------------------------------------------
(* Rows *)

LEMMA DomainOfAttempts ==
    ASSUME TypeOK
    PROVE  /\ Len(attempts) \in Nat
           /\ DOMAIN attempts = 1 .. Len(attempts)
           /\ \A i \in DOMAIN attempts : i \in Nat /\ attempts[i] \in Attempt
<1>1. attempts \in Seq(Attempt)
  BY DEF TypeOK
<1>2. Len(attempts) \in Nat /\ DOMAIN attempts = 1 .. Len(attempts)
  BY <1>1, LenProperties
<1>3. \A i \in 1 .. Len(attempts) : attempts[i] \in Attempt
  BY <1>1, ElementOfSeq
<1> QED
  BY <1>2, <1>3

LEMMA NewAttempt ==
    ASSUME TypeOK, NEW row \in Attempt, attempts' = Append(attempts, row)
    PROVE  /\ attempts' \in Seq(Attempt)
           /\ DOMAIN attempts' = DOMAIN attempts \cup {Len(attempts) + 1}
           /\ Len(attempts) + 1 \notin DOMAIN attempts
           /\ \A i \in DOMAIN attempts : attempts'[i] = attempts[i] /\ i < Len(attempts) + 1
           /\ attempts'[Len(attempts) + 1] = row
<1>1. attempts \in Seq(Attempt)
  BY DEF TypeOK
<1>2. /\ Len(attempts) \in Nat /\ DOMAIN attempts = 1 .. Len(attempts)
      /\ attempts' \in Seq(Attempt) /\ Len(attempts') = Len(attempts) + 1
  BY <1>1, LenProperties
<1>3. DOMAIN attempts' = 1 .. Len(attempts) + 1
  BY <1>2, LenProperties
<1>4. \A i \in 1 .. Len(attempts) : attempts'[i] = attempts[i]
  BY <1>1, <1>2
<1>5. attempts'[Len(attempts) + 1] = row
  BY <1>1, <1>2
<1> QED
  BY <1>2, <1>3, <1>4, <1>5

LEMMA ChangedAttempt ==
    ASSUME TypeOK, NEW i \in DOMAIN attempts, NEW row \in Attempt,
           attempts' = [attempts EXCEPT ![i] = row]
    PROVE  /\ attempts' \in Seq(Attempt)
           /\ DOMAIN attempts' = DOMAIN attempts
           /\ \A j \in DOMAIN attempts :
                 attempts'[j] = IF j = i THEN row ELSE attempts[j]
<1>1. attempts \in Seq(Attempt) /\ i \in 1 .. Len(attempts)
  BY DomainOfAttempts DEF TypeOK
<1> QED
  BY <1>1, ExceptSeq, DomainOfAttempts

-----------------------------------------------------------------------------
(* Steps that change no attempt *)

LEMMA IdleFits == Idle \in Request /\ Fits(Idle) /\ StillSo(Idle) /\ Idle.pc = "idle"
BY DEF Idle, Request, Fits, StillSo

\* A request that is made, goes on or ends keeps what it holds fitting.
LEMMA RequestChanges ==
    ASSUME Inv, NEW q \in Requests, NEW r \in Request, Fits(r), StillSo(r),
           r.pc = "work" => ~Held,
           req' = [req EXCEPT ![q] = r], calls' \in 0 .. MaxCalls,
           UNCHANGED <<client, attempts, ema, flag>>
    PROVE  Inv'
<1>1. TypeOK'
  BY DEF Inv, TypeOK
<1>2. \A p \in Requests : req'[p] = IF p = q THEN r ELSE req[p]
  BY DEF Inv, TypeOK
<1>3. RequestsFit'
  BY <1>2 DEF Inv, RequestsFit, Fits
<1>4. OneWorker'
  BY <1>2 DEF Inv, OneWorker, Held
<1>5. WorkStillSo'
  BY <1>2 DEF Inv, WorkStillSo, StillSo, RowsOf
<1>6. InFlight' /\ RejectedLate' /\ EvidenceOnce'
  BY DEF Inv, InFlight, RejectedLate, EvidenceOnce
<1> QED
  BY <1>1, <1>3, <1>4, <1>5, <1>6 DEF Inv

LEMMA CallKeeps ==
    ASSUME Inv, NEW q \in Requests, NEW r \in Request, Fits([r EXCEPT !.pc = "wait"]),
           calls < MaxCalls, Call(q, r)
    PROVE  Inv'
<1>1. [r EXCEPT !.pc = "wait"] \in Request /\ [r EXCEPT !.pc = "wait"].pc = "wait"
  BY DEF Request
<1>2. StillSo([r EXCEPT !.pc = "wait"])
  BY <1>1 DEF StillSo
<1>3. calls' \in 0 .. MaxCalls
  BY PracticeAssumption DEF Call, Inv, TypeOK
<1> QED
  BY <1>1, <1>2, <1>3, RequestChanges DEF Call

LEMMA BeginKeeps ==
    ASSUME Inv, NEW q \in Requests, Begin(q) PROVE Inv'
<1> USE PracticeAssumption DEF MayCall
<1>1. ASSUME NEW c \in Contents, Start(q, c) PROVE Inv'
  <2> DEFINE r == [Idle EXCEPT !.content = c]
  <2>1. r \in Request /\ Fits([r EXCEPT !.pc = "wait"])
    BY <1>1 DEF Idle, Request, Fits, Start
  <2>2. Call(q, r) /\ calls < MaxCalls
    BY <1>1 DEF Start
  <2> HIDE DEF r
  <2> QED
    BY <2>1, <2>2, CallKeeps
<1>2. ASSUME NEW i \in DOMAIN attempts, NEW a \in Answers, SubmitStarted(q, i, a) PROVE Inv'
  <2> DEFINE r == [Idle EXCEPT !.op = "submit", !.content = attempts[i].content,
                               !.answer = a, !.attempt = i]
  <2>1. i \in Nat /\ attempts[i].content \in Contents
    BY DomainOfAttempts DEF Inv, Attempt
  <2>2. r \in Request /\ Fits([r EXCEPT !.pc = "wait"])
    BY <1>2, <2>1 DEF Idle, Request, Fits, SubmitStarted
  <2>3. Call(q, r) /\ calls < MaxCalls
    BY <1>2 DEF SubmitStarted
  <2> HIDE DEF r
  <2> QED
    BY <2>2, <2>3, CallKeeps
<1>3. ASSUME NEW c \in Contents, NEW a \in Answers, SubmitWriting(q, c, a) PROVE Inv'
  <2> DEFINE r == [Idle EXCEPT !.op = "submit", !.content = c, !.answer = a]
  <2>1. r \in Request /\ Fits([r EXCEPT !.pc = "wait"])
    BY <1>3 DEF Idle, Request, Fits, SubmitWriting, Started
  <2>2. Call(q, r) /\ calls < MaxCalls
    BY <1>3 DEF SubmitWriting
  <2> HIDE DEF r
  <2> QED
    BY <2>1, <2>2, CallKeeps
<1>4. ASSUME NEW c \in Contents, NEW a \in Answers, SubmitTake(q, c, a) PROVE Inv'
  <2> DEFINE r == [Idle EXCEPT !.op = IF IsReplay(c, a) THEN "refresh" ELSE "submit",
                               !.content = c, !.answer = a]
  <2>1. r \in Request /\ Fits([r EXCEPT !.pc = "wait"])
    BY <1>4 DEF Idle, Request, Fits, SubmitTake, Started
  <2>2. Call(q, r) /\ calls < MaxCalls
    BY <1>4 DEF SubmitTake
  <2> HIDE DEF r
  <2> QED
    BY <2>1, <2>2, CallKeeps
<1> QED
  BY <1>1, <1>2, <1>3, <1>4 DEF Begin

LEMMA FinishKeeps ==
    ASSUME Inv, NEW q \in Requests, Finish(q), UNCHANGED <<attempts, ema, flag>>
    PROVE  Inv'
BY IdleFits, RequestChanges DEF Finish, Inv, TypeOK

LEMMA EnterKeeps ==
    ASSUME Inv, NEW q \in Requests, Enter(q) PROVE Inv'
<1>1. CASE Outcome(q) = "answer"
  BY <1>1, FinishKeeps DEF Enter
<1>2. CASE Outcome(q) # "answer"
  <2> DEFINE s == SkillOf(req[q].content)
             r == [req[q] EXCEPT !.pc = "work", !.op = Outcome(q), !.folded = ema[s],
                      !.complete = RequiredOf(s) # {} /\ RequiredOf(s) \subseteq Done(q)]
  <2>0. req[q] \in Request /\ req[q].pc = "wait" /\ Fits(req[q]) /\ ~Held
    BY DEF Inv, TypeOK, RequestsFit, Enter
  <2>1. s \in Skills /\ ema[s] \in Nat
    BY <2>0, PracticeAssumption DEF Inv, TypeOK, Fits, SkillOf, Skills, Kinds
  <2>2. Outcome(q) \in {"start", "submit", "reject", "refresh"}
    BY <1>2 DEF Outcome
  <2>3. (RequiredOf(s) # {} /\ RequiredOf(s) \subseteq Done(q)) \in BOOLEAN
    OBVIOUS
  <2>4. r \in Request
    BY <2>0, <2>1, <2>2, <2>3 DEF Request
  <2>5. Outcome(q) \in {"start", "submit"} => req[q].op = Outcome(q)
    BY <1>2, <2>0 DEF Outcome, Fits
  <2>6. Outcome(q) = "reject" => req[q].op = "submit" /\ req[q].attempt # None
    BY <1>2, <2>0 DEF Outcome, Fits
  <2>7. Fits(r)
    BY <2>0, <2>2, <2>5, <2>6 DEF Fits, Request
  <2>8. StillSo(r)
    <3>1. Outcome(q) = "start" => RowsOf(req[q].content, "started") = {}
      BY <1>2, <2>0 DEF Outcome, Fits
    <3>2. ASSUME Outcome(q) \in {"submit", "reject"}, req[q].attempt # None
          PROVE  attempts[req[q].attempt].status = "started"
      <4>1. attempts[req[q].attempt].status \in {"started", "submitted", "rejected_late"}
        BY <2>0, <3>2, DomainOfAttempts DEF Inv, Attempt, Fits
      <4>2. req[q].op = "submit"
        BY <2>5, <2>6, <3>2
      <4>3. attempts[req[q].attempt].status # "submitted"
        BY <1>2, <3>2, <4>2 DEF Outcome
      <4>4. attempts[req[q].attempt].status # "rejected_late"
        <5>1. CASE attempts[req[q].attempt].expired
          BY <1>2, <3>2, <4>2, <4>3, <5>1 DEF Outcome
        <5>2. CASE ~attempts[req[q].attempt].expired
          BY <2>0, <3>2, <5>2 DEF Inv, RejectedLate, Fits
        <5> QED
          BY <5>1, <5>2
      <4> QED
        BY <4>1, <4>3, <4>4
    <3>3. Outcome(q) = "reject" => attempts[req[q].attempt].expired
      BY <1>2, <2>0, <2>6 DEF Outcome, Fits
    <3> QED
      BY <2>0, <3>1, <3>2, <3>3 DEF StillSo, Request
  <2>9. req' = [req EXCEPT ![q] = r] /\ UNCHANGED <<client, calls, attempts, ema, flag>>
    BY <1>2 DEF Enter, Inv, TypeOK
  <2> HIDE DEF r
  <2> QED
    BY <2>0, <2>4, <2>7, <2>8, <2>9, RequestChanges DEF Inv, TypeOK
<1> QED
  BY <1>1, <1>2

-----------------------------------------------------------------------------
(* Commits *)

\* A commit leaves nobody at work, and rows keep their content.
LEMMA OthersKeep ==
    ASSUME Inv, NEW q \in Requests, req[q].pc = "work", Finish(q),
           DOMAIN attempts \subseteq DOMAIN attempts',
           \A i \in DOMAIN attempts : attempts'[i].content = attempts[i].content
    PROVE  /\ req' \in [Requests -> Request] /\ client' \in Clients
           /\ calls' \in 0 .. MaxCalls
           /\ RequestsFit' /\ OneWorker' /\ WorkStillSo'
<1>1. \A p \in Requests : req'[p] = IF p = q THEN Idle ELSE req[p]
  BY DEF Inv, TypeOK, Finish
<1>2. \A p \in Requests : req'[p].pc # "work"
  BY <1>1, IdleFits DEF Inv, OneWorker
<1>3. RequestsFit'
  <2> SUFFICES ASSUME NEW p \in Requests PROVE Fits(req[p])'
    BY DEF RequestsFit
  <2>1. CASE p = q
    BY <1>1, <2>1, IdleFits DEF Fits, Idle
  <2>2. CASE p # q
    BY <1>1, <2>2 DEF Inv, RequestsFit, Fits
  <2> QED
    BY <2>1, <2>2
<1>4. req' \in [Requests -> Request]
  BY IdleFits DEF Inv, TypeOK, Finish
<1> QED
  BY <1>2, <1>3, <1>4 DEF Inv, TypeOK, Finish, OneWorker, WorkStillSo, StillSo

\* The request of a transaction at work.
LEMMA AtWork ==
    ASSUME Inv, NEW q \in Requests, req[q].pc = "work"
    PROVE  /\ req[q] \in Request /\ Fits(req[q]) /\ StillSo(req[q])
           /\ req[q].content \in Contents
           /\ SkillOf(req[q].content) \in Skills
           /\ req[q].attempt # None =>
                /\ req[q].attempt \in DOMAIN attempts
                /\ attempts[req[q].attempt] \in Attempt
                /\ attempts[req[q].attempt].content = req[q].content
<1>1. req[q] \in Request /\ Fits(req[q]) /\ StillSo(req[q])
  BY DEF Inv, TypeOK, RequestsFit, WorkStillSo
<1>2. req[q].content \in Contents
  BY <1>1 DEF Fits
<1>3. SkillOf(req[q].content) \in Skills
  BY <1>2, PracticeAssumption DEF SkillOf, Skills, Kinds
<1> QED
  BY <1>1, <1>2, <1>3, DomainOfAttempts DEF Inv, Fits

LEMMA SubmittedIsAttempt ==
    ASSUME NEW q \in Requests, req[q].answer \in Answers,
           NEW row \in Attempt, row.sessions = 0
    PROVE  /\ SubmittedRow(row, q) \in Attempt
           /\ SubmittedRow(row, q).content = row.content
           /\ SubmittedRow(row, q).status = "submitted"
           /\ SubmittedRow(row, q).answer = req[q].answer
           /\ SubmittedRow(row, q).sessions = 1
<1> DEFINE a == req[q].answer
<1>1. row.sessions + 1 = 1 /\ 1 \in Nat /\ a \in Answers
  OBVIOUS
<1>2. SubmittedRow(row, q) =
        [row EXCEPT !.status = "submitted", !.answer = a, !.sessions = 1]
  BY <1>1 DEF SubmittedRow, WithEnvelope, Attempt
<1> HIDE DEF a
<1>3. [row EXCEPT !.status = "submitted", !.answer = a, !.sessions = 1] \in Attempt
  BY <1>1 DEF Attempt
<1> QED
  BY <1>2, <1>3 DEF Attempt, a

LEMMA FlagKeeps ==
    ASSUME Inv, NEW q \in Requests, req[q].pc = "work", flag' = NewFlag(q)
    PROVE  flag' \in [Skills -> BOOLEAN]
BY AtWork DEF Inv, TypeOK, NewFlag, Request

LEMMA CommitStartKeeps ==
    ASSUME Inv, NEW q \in Requests, CommitStart(q) PROVE Inv'
<1> DEFINE c == req[q].content
           n == Len(attempts) + 1
<1>1. req[q].pc = "work" /\ req[q].op = "start" /\ Finish(q) /\ UNCHANGED <<ema, flag>>
      /\ attempts' = Append(attempts, NewRow(c))
  BY DEF CommitStart, Commits
<1>2. c \in Contents /\ Started(c) /\ RowsOf(c, "started") = {}
  BY <1>1, AtWork DEF Fits, StillSo
<1>3. NewRow(c) \in Attempt
  BY <1>2 DEF NewRow, Attempt
<1>4. /\ attempts' \in Seq(Attempt)
      /\ DOMAIN attempts' = DOMAIN attempts \cup {n} /\ n \notin DOMAIN attempts
      /\ \A i \in DOMAIN attempts : attempts'[i] = attempts[i]
      /\ attempts'[n] = NewRow(c)
  BY <1>1, <1>3, NewAttempt DEF Inv
<1> HIDE DEF n
<1>5. TypeOK' /\ RequestsFit' /\ OneWorker' /\ WorkStillSo'
  BY <1>1, <1>4, OthersKeep DEF Inv, TypeOK
<1>6. InFlight'
  BY <1>2, <1>4 DEF Inv, InFlight, NewRow, RowsOf
<1>7. RejectedLate' /\ EvidenceOnce'
  BY <1>4 DEF Inv, RejectedLate, EvidenceOnce, NewRow
<1> QED
  BY <1>5, <1>6, <1>7 DEF Inv

LEMMA CommitSubmitKeeps ==
    ASSUME Inv, NEW q \in Requests, CommitSubmit(q) PROVE Inv'
<1> DEFINE c == req[q].content
<1>1. req[q].pc = "work" /\ req[q].op = "submit" /\ Finish(q)
  BY DEF CommitSubmit, Commits
<1>2. req[q] \in Request /\ Fits(req[q]) /\ StillSo(req[q]) /\ c \in Contents
      /\ SkillOf(c) \in Skills /\ req[q].answer \in Answers
  BY <1>1, AtWork DEF Fits
<1>3. ema' \in [Skills -> Nat] /\ flag' \in [Skills -> BOOLEAN]
  <2>1. ema' \in [Skills -> Nat]
    BY <1>2 DEF CommitSubmit, Inv, TypeOK, Request
  <2> QED
    BY <1>1, <2>1, FlagKeeps DEF CommitSubmit
<1>4. CASE req[q].attempt = None
  <2> DEFINE row == SubmittedRow(NewRow(c), q)
             n == Len(attempts) + 1
  <2>1. /\ row \in Attempt
        /\ row.content = c /\ row.status = "submitted" /\ row.sessions = 1
    <3>1. NewRow(c) \in Attempt /\ NewRow(c).content = c /\ NewRow(c).sessions = 0
      BY <1>2 DEF NewRow, Attempt
    <3> QED
      BY <1>2, <3>1, SubmittedIsAttempt
  <2>2. attempts' = Append(attempts, row)
    BY <1>4 DEF CommitSubmit, WithDirect
  <2> HIDE DEF row
  <2>3. /\ attempts' \in Seq(Attempt)
        /\ DOMAIN attempts' = DOMAIN attempts \cup {n} /\ n \notin DOMAIN attempts
        /\ \A i \in DOMAIN attempts : attempts'[i] = attempts[i]
        /\ attempts'[n] = row
    BY <2>1, <2>2, NewAttempt DEF Inv
  <2> HIDE DEF n
  <2>4. TypeOK' /\ RequestsFit' /\ OneWorker' /\ WorkStillSo'
    BY <1>1, <1>3, <2>3, OthersKeep DEF Inv, TypeOK
  <2>5. InFlight' /\ EvidenceOnce'
    <3>1. InFlight'
      <4>1. \A j \in DOMAIN attempts' : attempts'[j].status = "started" =>
                     j \in DOMAIN attempts /\ attempts'[j] = attempts[j]
        BY <2>1, <2>3
      <4> QED
        BY <4>1 DEF Inv, InFlight
    <3>2. EvidenceOnce'
      BY <2>1, <2>3 DEF Inv, EvidenceOnce
    <3> QED
      BY <3>1, <3>2
  <2>6. RejectedLate'
    BY <2>1, <2>3 DEF Inv, RejectedLate
  <2> QED
    BY <2>4, <2>5, <2>6 DEF Inv
<1>5. CASE req[q].attempt # None
  <2> DEFINE i == req[q].attempt
             row == SubmittedRow(attempts[i], q)
  <2>1. /\ i \in DOMAIN attempts /\ attempts[i] \in Attempt
        /\ attempts[i].content = c /\ attempts[i].status = "started"
    BY <1>1, <1>2, <1>5, AtWork DEF StillSo
  <2>2. attempts[i].sessions = 0
    BY <2>1 DEF Inv, EvidenceOnce
  <2>3. /\ row \in Attempt
        /\ row.content = c /\ row.status = "submitted" /\ row.sessions = 1
    BY <1>2, <2>1, <2>2, SubmittedIsAttempt
  <2>4. attempts' = [attempts EXCEPT ![i] = row]
    BY <1>5 DEF CommitSubmit
  <2> HIDE DEF row, i
  <2>5. /\ attempts' \in Seq(Attempt) /\ DOMAIN attempts' = DOMAIN attempts
        /\ \A j \in DOMAIN attempts : attempts'[j] = IF j = i THEN row ELSE attempts[j]
    BY <2>1, <2>3, <2>4, ChangedAttempt DEF Inv
  <2>6. TypeOK' /\ RequestsFit' /\ OneWorker' /\ WorkStillSo'
    BY <1>1, <1>3, <2>1, <2>3, <2>5, OthersKeep DEF Inv, TypeOK
  <2>7. InFlight' /\ EvidenceOnce'
    <3>1. InFlight'
      <4>1. \A j \in DOMAIN attempts' : attempts'[j].status = "started" =>
                     j \in DOMAIN attempts /\ attempts'[j] = attempts[j]
        BY <2>1, <2>3, <2>5
      <4> QED
        BY <4>1 DEF Inv, InFlight
    <3>2. EvidenceOnce'
      BY <2>1, <2>3, <2>5 DEF Inv, EvidenceOnce
    <3> QED
      BY <3>1, <3>2
  <2>8. RejectedLate'
    BY <2>1, <2>3, <2>5 DEF Inv, RejectedLate
  <2> QED
    BY <2>6, <2>7, <2>8 DEF Inv
<1> QED
  BY <1>4, <1>5

LEMMA CommitRefreshKeeps ==
    ASSUME Inv, NEW q \in Requests, CommitRefresh(q) PROVE Inv'
<1>1. req[q].pc = "work" /\ Finish(q) /\ flag' = NewFlag(q) /\ UNCHANGED <<attempts, ema>>
  BY DEF CommitRefresh, Commits
<1>2. TypeOK' /\ RequestsFit' /\ OneWorker' /\ WorkStillSo'
  BY <1>1, FlagKeeps, OthersKeep DEF Inv, TypeOK
<1> QED
  BY <1>1, <1>2 DEF Inv, InFlight, RejectedLate, EvidenceOnce

LEMMA CommitRejectKeeps ==
    ASSUME Inv, NEW q \in Requests, CommitReject(q) PROVE Inv'
<1> DEFINE i == req[q].attempt
           row == [attempts[i] EXCEPT !.status = "rejected_late"]
<1>1. req[q].pc = "work" /\ req[q].op = "reject" /\ Finish(q) /\ UNCHANGED <<ema, flag>>
  BY DEF CommitReject, Commits
<1>2. /\ i \in DOMAIN attempts /\ attempts[i] \in Attempt
      /\ attempts[i].status = "started" /\ attempts[i].expired
  BY <1>1, AtWork DEF Fits, StillSo
<1>3. attempts[i].sessions = 0
  BY <1>2 DEF Inv, EvidenceOnce
<1>4. /\ row \in Attempt /\ row.content = attempts[i].content
      /\ row.status = "rejected_late" /\ row.sessions = 0 /\ row.expired
  BY <1>2, <1>3 DEF Attempt
<1>5. attempts' = [attempts EXCEPT ![i] = row]
  BY <1>2 DEF CommitReject
<1> HIDE DEF row, i
<1>6. /\ attempts' \in Seq(Attempt) /\ DOMAIN attempts' = DOMAIN attempts
      /\ \A j \in DOMAIN attempts : attempts'[j] = IF j = i THEN row ELSE attempts[j]
  BY <1>2, <1>4, <1>5, ChangedAttempt DEF Inv
<1>7. TypeOK' /\ RequestsFit' /\ OneWorker' /\ WorkStillSo'
  BY <1>1, <1>2, <1>4, <1>6, OthersKeep DEF Inv, TypeOK
<1>8. InFlight' /\ EvidenceOnce'
  <2>1. InFlight'
    <3>1. \A j \in DOMAIN attempts' : attempts'[j].status = "started" =>
                   j \in DOMAIN attempts /\ attempts'[j] = attempts[j]
      BY <1>2, <1>4, <1>6
    <3> QED
      BY <3>1 DEF Inv, InFlight
  <2>2. EvidenceOnce'
    BY <1>2, <1>4, <1>6 DEF Inv, EvidenceOnce
  <2> QED
    BY <2>1, <2>2
<1>9. RejectedLate'
  BY <1>2, <1>4, <1>6 DEF Inv, RejectedLate
<1> QED
  BY <1>7, <1>8, <1>9 DEF Inv

\* The clock changes a row and no request.
LEMMA ExpireKeeps ==
    ASSUME Inv, NEW i \in DOMAIN attempts, Expire(i) PROVE Inv'
<1> DEFINE row == [attempts[i] EXCEPT !.expired = TRUE]
<1>1. attempts[i] \in Attempt
  BY DomainOfAttempts DEF Inv
<1>2. /\ row \in Attempt /\ row.expired /\ row.content = attempts[i].content
      /\ row.status = attempts[i].status /\ row.sessions = attempts[i].sessions
  BY <1>1 DEF Attempt
<1>3. attempts' = [attempts EXCEPT ![i] = row]
      /\ UNCHANGED <<client, ema, flag, req, calls>>
  BY <1>1 DEF Expire
<1> HIDE DEF row
<1>4. /\ attempts' \in Seq(Attempt) /\ DOMAIN attempts' = DOMAIN attempts
      /\ \A j \in DOMAIN attempts : attempts'[j] = IF j = i THEN row ELSE attempts[j]
  BY <1>2, <1>3, ChangedAttempt DEF Inv
<1>5. TypeOK'
  BY <1>3, <1>4 DEF Inv, TypeOK
<1>6. RequestsFit'
  BY <1>2, <1>3, <1>4 DEF Inv, RequestsFit, Fits
<1>7. OneWorker'
  BY <1>3 DEF Inv, OneWorker
<1>8. WorkStillSo'
  <2> SUFFICES ASSUME NEW q \in Requests, req[q].pc = "work" PROVE StillSo(req[q])'
    BY <1>3 DEF WorkStillSo, StillSo
  <2>1. StillSo(req[q]) /\ Fits(req[q])
    BY DEF Inv, WorkStillSo, RequestsFit
  <2> QED
    BY <1>2, <1>3, <1>4, <2>1 DEF StillSo, Fits, RowsOf
<1>9. InFlight' /\ EvidenceOnce'
  <2>1. InFlight'
    <3>1. \A j \in DOMAIN attempts' :
             /\ j \in DOMAIN attempts
             /\ attempts'[j].status = attempts[j].status
             /\ attempts'[j].content = attempts[j].content
      BY <1>2, <1>4
    <3> QED
      BY <3>1 DEF Inv, InFlight
  <2>2. EvidenceOnce'
    BY <1>2, <1>4 DEF Inv, EvidenceOnce
  <2> QED
    BY <2>1, <2>2
<1>10. RejectedLate'
  BY <1>2, <1>4 DEF Inv, RejectedLate
<1> QED
  BY <1>5, <1>6, <1>7, <1>8, <1>9, <1>10 DEF Inv

-----------------------------------------------------------------------------
(* The invariant *)

LEMMA InvInit == Init => Inv
<1> SUFFICES ASSUME Init PROVE Inv
  OBVIOUS
<1>1. attempts \in Seq(Attempt) /\ DOMAIN attempts = {}
  BY EmptySeq DEF Init
<1>2. TypeOK
  BY <1>1, IdleFits, PracticeAssumption DEF Init, TypeOK
<1>3. \A q \in Requests : req[q] = Idle
  BY DEF Init
<1>4. RequestsFit /\ OneWorker /\ WorkStillSo
  BY <1>3, IdleFits DEF RequestsFit, OneWorker, WorkStillSo
<1>5. InFlight /\ RejectedLate /\ EvidenceOnce
  BY <1>1 DEF InFlight, RejectedLate, EvidenceOnce
<1> QED
  BY <1>2, <1>4, <1>5 DEF Inv

LEMMA InvNext == Inv /\ [Next]_vars => Inv'
<1> SUFFICES ASSUME Inv, [Next]_vars PROVE Inv'
  OBVIOUS
<1>1. ASSUME NEW q \in Requests, Begin(q) PROVE Inv'
  BY <1>1, BeginKeeps
<1>2. ASSUME NEW q \in Requests, Enter(q) PROVE Inv'
  BY <1>2, EnterKeeps
<1>3. ASSUME NEW q \in Requests, Commit(q) PROVE Inv'
  BY <1>3, CommitStartKeeps, CommitSubmitKeeps, CommitRefreshKeeps, CommitRejectKeeps
     DEF Commit
<1>4. ASSUME NEW q \in Requests, Fail(q) PROVE Inv'
  BY <1>4, FinishKeeps DEF Fail
<1>5. ASSUME NEW i \in DOMAIN attempts, Expire(i) PROVE Inv'
  BY <1>5, ExpireKeeps
<1>6. CASE UNCHANGED vars
  BY <1>6 DEF vars, Inv, TypeOK, RequestsFit, Fits, OneWorker, WorkStillSo, StillSo,
     RowsOf, InFlight, RejectedLate, EvidenceOnce
<1> QED
  BY <1>1, <1>2, <1>3, <1>4, <1>5, <1>6 DEF Next

LEMMA Invariance == Spec => []Inv
<1> QED
  BY InvInit, InvNext, PTL DEF Spec

\* Every variable keeps its type.
THEOREM TypeCorrect == Spec => []TypeOK
<1>1. Inv => TypeOK
  BY DEF Inv
<1> QED
  BY <1>1, Invariance, PTL

\* However submits and the clock race, an accepted submit is recorded once and
\* stays accepted, and a late one leaves no evidence.
THEOREM RecordedOnce == Spec => []EvidenceOnce
<1>1. Inv => EvidenceOnce
  BY DEF Inv
<1> QED
  BY <1>1, Invariance, PTL

\* However starts race, a content has at most one attempt in flight, and no
\* handler leaves a direct one behind.
THEOREM NeverTwoInFlight == Spec => []OneStartedAttempt
<1>1. ASSUME Inv, NEW c \in Contents
      PROVE  /\ Cardinality(RowsOf(c, "started")) <= 1
             /\ ~Started(c) => RowsOf(c, "started") = {}
  <2>1. \A i, j \in RowsOf(c, "started") : i = j
    BY <1>1 DEF Inv, InFlight, RowsOf
  <2>2. CASE RowsOf(c, "started") = {}
    BY <2>2, FS_EmptySet
  <2>3. CASE RowsOf(c, "started") # {}
    <3>1. PICK i \in RowsOf(c, "started") : RowsOf(c, "started") = {i}
      BY <2>1, <2>3
    <3>2. Cardinality(RowsOf(c, "started")) = 1
      BY <3>1, FS_Singleton
    <3>3. Started(c)
      BY <1>1, <3>1 DEF Inv, InFlight, RowsOf
    <3> QED
      BY <3>2, <3>3
  <2> QED
    BY <2>2, <2>3
<1>2. Inv => OneStartedAttempt
  BY <1>1 DEF OneStartedAttempt
<1> QED
  BY <1>2, Invariance, PTL

-----------------------------------------------------------------------------
(* The accepted submits, and the steps that add to them                    *)

Accepted == {i \in DOMAIN attempts : attempts[i].status = "submitted"}

AcceptedKept ==
    /\ Accepted' = Accepted
    /\ \A i \in Accepted : /\ attempts'[i].content = attempts[i].content
                           /\ attempts'[i].answer = attempts[i].answer

\* Attempt k is accepted for content c with answer a.
AcceptedGrows(k, c, a) ==
    /\ k \in Nat \ Accepted
    /\ Accepted' = Accepted \cup {k}
    /\ \A i \in Accepted : /\ attempts'[i].content = attempts[i].content
                           /\ attempts'[i].answer = attempts[i].answer
    /\ attempts'[k].content = c /\ attempts'[k].answer = a
    /\ ~Started(c) => \A i \in Accepted : i < k

LEMMA AcceptedAttempts ==
    ASSUME TypeOK
    PROVE  /\ IsFiniteSet(Accepted)
           /\ \A i \in Accepted : i \in Nat /\ attempts[i] \in Attempt
           /\ \A c : RowsOf(c, "submitted") = {i \in Accepted : attempts[i].content = c}
<1>1. Accepted \subseteq 1 .. Len(attempts) /\ Len(attempts) \in Nat
  BY DomainOfAttempts DEF Accepted
<1>2. IsFiniteSet(Accepted)
  <2>1. 1 \in Int /\ Len(attempts) \in Int
    BY <1>1
  <2>2. IsFiniteSet(1 .. Len(attempts))
    BY <2>1, FS_Interval
  <2> QED
    BY <1>1, <2>2, FS_Subset
<1> QED
  BY <1>2, DomainOfAttempts DEF Accepted, RowsOf

LEMMA StartKeepsAccepted ==
    ASSUME Inv, NEW q \in Requests, CommitStart(q) PROVE AcceptedKept
<1> DEFINE row == NewRow(req[q].content)
<1>1. req[q].pc = "work" /\ attempts' = Append(attempts, row)
  BY DEF CommitStart, Commits
<1>2. row \in Attempt /\ row.status = "started"
  BY <1>1, AtWork DEF NewRow, Attempt
<1> HIDE DEF row
<1>3. /\ DOMAIN attempts' = DOMAIN attempts \cup {Len(attempts) + 1}
      /\ Len(attempts) + 1 \notin DOMAIN attempts
      /\ \A i \in DOMAIN attempts : attempts'[i] = attempts[i]
      /\ attempts'[Len(attempts) + 1] = row
  BY <1>1, <1>2, NewAttempt DEF Inv
<1> QED
  BY <1>2, <1>3 DEF AcceptedKept, Accepted

LEMMA RejectKeepsAccepted ==
    ASSUME Inv, NEW q \in Requests, CommitReject(q) PROVE AcceptedKept
<1> DEFINE i == req[q].attempt
           row == [attempts[i] EXCEPT !.status = "rejected_late"]
<1>1. req[q].pc = "work" /\ req[q].op = "reject"
  BY DEF CommitReject, Commits
<1>2. i \in DOMAIN attempts /\ attempts[i] \in Attempt /\ attempts[i].status = "started"
  BY <1>1, AtWork DEF Fits, StillSo
<1>3. row \in Attempt /\ row.status = "rejected_late"
  BY <1>2 DEF Attempt
<1>4. attempts' = [attempts EXCEPT ![i] = row]
  BY <1>2 DEF CommitReject
<1> HIDE DEF row, i
<1>5. /\ DOMAIN attempts' = DOMAIN attempts
      /\ \A j \in DOMAIN attempts : attempts'[j] = IF j = i THEN row ELSE attempts[j]
  BY <1>2, <1>3, <1>4, ChangedAttempt DEF Inv
<1> QED
  BY <1>2, <1>3, <1>5 DEF AcceptedKept, Accepted

LEMMA ExpireKeepsAccepted ==
    ASSUME Inv, NEW i \in DOMAIN attempts, Expire(i) PROVE AcceptedKept
<1> DEFINE row == [attempts[i] EXCEPT !.expired = TRUE]
<1>1. attempts[i] \in Attempt
  BY DomainOfAttempts DEF Inv
<1>2. row \in Attempt /\ row.status = attempts[i].status /\ attempts[i].status = "started"
  BY <1>1 DEF Attempt, Expire
<1>3. attempts' = [attempts EXCEPT ![i] = row]
  BY <1>1 DEF Expire
<1> HIDE DEF row
<1>4. /\ DOMAIN attempts' = DOMAIN attempts
      /\ \A j \in DOMAIN attempts : attempts'[j] = IF j = i THEN row ELSE attempts[j]
  BY <1>2, <1>3, ChangedAttempt DEF Inv
<1> QED
  BY <1>2, <1>4 DEF AcceptedKept, Accepted

LEMMA SubmitGrowsAccepted ==
    ASSUME Inv, NEW q \in Requests, CommitSubmit(q)
    PROVE  \E k : AcceptedGrows(k, req[q].content, req[q].answer)
<1> DEFINE c == req[q].content
<1>1. /\ req[q].pc = "work" /\ req[q].op = "submit"
      /\ Fits(req[q]) /\ StillSo(req[q]) /\ c \in Contents /\ req[q].answer \in Answers
  BY AtWork DEF CommitSubmit, Commits, Fits
<1>2. CASE req[q].attempt = None
  <2> DEFINE row == SubmittedRow(NewRow(c), q)
             k == Len(attempts) + 1
  <2>1. NewRow(c) \in Attempt /\ NewRow(c).content = c /\ NewRow(c).sessions = 0
    BY <1>1 DEF NewRow, Attempt
  <2>2. row \in Attempt /\ row.content = c /\ row.status = "submitted"
        /\ row.answer = req[q].answer
    BY <1>1, <2>1, SubmittedIsAttempt
  <2>3. attempts' = Append(attempts, row)
    BY <1>2 DEF CommitSubmit, WithDirect
  <2> HIDE DEF row
  <2>4. /\ DOMAIN attempts' = DOMAIN attempts \cup {k} /\ k \notin DOMAIN attempts
        /\ \A i \in DOMAIN attempts : attempts'[i] = attempts[i] /\ i < k
        /\ attempts'[k] = row /\ k \in Nat
    BY <2>2, <2>3, NewAttempt, DomainOfAttempts DEF Inv
  <2> HIDE DEF k
  <2>5. AcceptedGrows(k, c, req[q].answer)
    BY <2>2, <2>4 DEF AcceptedGrows, Accepted
  <2> QED
    BY <2>5
<1>3. CASE req[q].attempt # None
  <2> DEFINE k == req[q].attempt
             row == SubmittedRow(attempts[k], q)
  <2>1. /\ k \in DOMAIN attempts /\ attempts[k] \in Attempt
        /\ attempts[k].content = c /\ attempts[k].status = "started" /\ Started(c)
        /\ k \in Nat
    BY <1>1, <1>3, AtWork, DomainOfAttempts DEF Inv, StillSo, Fits
  <2>2. attempts[k].sessions = 0
    BY <2>1 DEF Inv, EvidenceOnce
  <2>3. row \in Attempt /\ row.content = c /\ row.status = "submitted"
        /\ row.answer = req[q].answer
    BY <1>1, <2>1, <2>2, SubmittedIsAttempt
  <2>4. attempts' = [attempts EXCEPT ![k] = row]
    BY <1>3 DEF CommitSubmit
  <2> HIDE DEF row, k
  <2>5. /\ DOMAIN attempts' = DOMAIN attempts
        /\ \A j \in DOMAIN attempts : attempts'[j] = IF j = k THEN row ELSE attempts[j]
    BY <2>1, <2>3, <2>4, ChangedAttempt DEF Inv
  <2>6. AcceptedGrows(k, c, req[q].answer)
    BY <2>1, <2>3, <2>5 DEF AcceptedGrows, Accepted
  <2> QED
    BY <2>6
<1> QED
  BY <1>2, <1>3

-----------------------------------------------------------------------------
(* The EMA and the completion flags                                        *)

AcceptedOf(s) == {i \in Accepted : SkillOf(attempts[i].content) = s}

\* Every required content of a skill is accepted, c counted as accepted.
Complete(s, c) ==
    /\ RequiredOf(s) # {}
    /\ \A d \in RequiredOf(s) : d = c \/ \E i \in Accepted : attempts[i].content = d

Summaries ==
    \A s \in Skills : ema[s] = Cardinality(AcceptedOf(s)) /\ (flag[s] <=> Complete(s, None))

\* What a transaction read about them is still so.
ReadStillSo(r) ==
    r.pc = "work" =>
        LET s == SkillOf(r.content)
        IN  /\ r.op = "submit" => r.folded = ema[s] /\ (r.complete <=> Complete(s, r.content))
            /\ r.op = "refresh" => (r.complete <=> Complete(s, None))

ReadsStillSo == \A q \in Requests : ReadStillSo(req[q])

SumInv == Inv /\ Summaries /\ ReadsStillSo

LEMMA SummariesAgree == ASSUME Inv, Summaries PROVE SummariesFollowSubmits
<1>1. ASSUME NEW s \in Skills
      PROVE  {i \in RowsOfSkill(s) : attempts[i].status = "submitted"} = AcceptedOf(s)
  BY DEF RowsOfSkill, AcceptedOf, Accepted
<1>2. ASSUME NEW s \in Skills
      PROVE  Complete(s, None) <=> RequiredOf(s) # {} /\ RequiredOf(s) \subseteq Submitted(Contents)
  <2>1. RequiredOf(s) \subseteq Contents /\ None \notin Contents
    BY PracticeAssumption DEF RequiredOf
  <2>2. \A c : RowsOf(c, "submitted") = {i \in Accepted : attempts[i].content = c}
    BY AcceptedAttempts DEF Inv
  <2> QED
    BY <2>1, <2>2 DEF Complete, Submitted
<1> QED
  BY <1>1, <1>2 DEF Summaries, SummariesFollowSubmits

\* Steps that accept nothing keep every summary.
LEMMA SummariesKept ==
    ASSUME Summaries, AcceptedKept, UNCHANGED <<ema, flag>>
    PROVE  /\ Summaries'
           /\ \A s, c : Complete(s, c)' <=> Complete(s, c)
<1>1. \A s : AcceptedOf(s)' = AcceptedOf(s)
  BY DEF AcceptedKept, AcceptedOf
<1>2. \A s, c : Complete(s, c)' <=> Complete(s, c)
  BY DEF AcceptedKept, Complete
<1> QED
  BY <1>1, <1>2 DEF Summaries

LEMMA NobodyAtWork ==
    ASSUME Inv, NEW q \in Requests, req[q].pc = "work", Finish(q)
    PROVE  ReadsStillSo'
<1>1. \A p \in Requests : req'[p] = IF p = q THEN Idle ELSE req[p]
  BY DEF Inv, TypeOK, Finish
<1>2. \A p \in Requests : req'[p].pc # "work"
  BY <1>1, IdleFits DEF Inv, OneWorker
<1> QED
  BY <1>2 DEF ReadsStillSo, ReadStillSo

\* Requests are made, go on or end, and what they read is so.
LEMMA RequestKeepsSummaries ==
    ASSUME SumInv, UNCHANGED <<attempts, ema, flag>>,
           \A p \in Requests : req'[p] = req[p] \/ ReadStillSo(req'[p])
    PROVE  Summaries' /\ ReadsStillSo'
<1>1. AcceptedKept
  BY DEF AcceptedKept, Accepted
<1>2. Summaries' /\ \A s, c : Complete(s, c)' <=> Complete(s, c)
  BY <1>1, SummariesKept DEF SumInv
<1>3. \A p \in Requests : ReadStillSo(req'[p])
  BY DEF SumInv, ReadsStillSo
<1>4. ASSUME NEW p \in Requests PROVE ReadStillSo(req[p])'
  BY <1>2, <1>3 DEF ReadStillSo
<1> QED
  BY <1>2, <1>4 DEF ReadsStillSo

LEMMA CallKeepsSummaries ==
    ASSUME SumInv, NEW q \in Requests, NEW r \in Request, Call(q, r)
    PROVE  Summaries' /\ ReadsStillSo'
<1>1. [r EXCEPT !.pc = "wait"].pc = "wait"
  BY DEF Request
<1>2. ReadStillSo([r EXCEPT !.pc = "wait"])
  BY <1>1 DEF ReadStillSo
<1>3. \A p \in Requests : req'[p] = req[p] \/ req'[p] = [r EXCEPT !.pc = "wait"]
  BY DEF Call, SumInv, Inv, TypeOK
<1> QED
  BY <1>2, <1>3, RequestKeepsSummaries DEF Call

LEMMA BeginKeepsSummaries ==
    ASSUME SumInv, NEW q \in Requests, Begin(q) PROVE Summaries' /\ ReadsStillSo'
<1>1. ASSUME NEW c \in Contents, Start(q, c) PROVE Summaries' /\ ReadsStillSo'
  <2>1. [Idle EXCEPT !.content = c] \in Request
    BY DEF Idle, Request
  <2> QED
    BY <1>1, <2>1, CallKeepsSummaries DEF Start
<1>2. ASSUME NEW i \in DOMAIN attempts, NEW a \in Answers, SubmitStarted(q, i, a)
      PROVE  Summaries' /\ ReadsStillSo'
  <2>1. i \in Nat /\ attempts[i].content \in Contents
    BY DomainOfAttempts DEF SumInv, Inv, Attempt
  <2>2. [Idle EXCEPT !.op = "submit", !.content = attempts[i].content,
                     !.answer = a, !.attempt = i] \in Request
    BY <2>1 DEF Idle, Request
  <2> QED
    BY <1>2, <2>2, CallKeepsSummaries DEF SubmitStarted
<1>3. ASSUME NEW c \in Contents, NEW a \in Answers, SubmitWriting(q, c, a)
      PROVE  Summaries' /\ ReadsStillSo'
  <2>1. [Idle EXCEPT !.op = "submit", !.content = c, !.answer = a] \in Request
    BY DEF Idle, Request
  <2> QED
    BY <1>3, <2>1, CallKeepsSummaries DEF SubmitWriting
<1>4. ASSUME NEW c \in Contents, NEW a \in Answers, SubmitTake(q, c, a)
      PROVE  Summaries' /\ ReadsStillSo'
  <2> DEFINE r == [Idle EXCEPT !.op = IF IsReplay(c, a) THEN "refresh" ELSE "submit",
                               !.content = c, !.answer = a]
  <2>1. r \in Request
    BY DEF Idle, Request
  <2>2. Call(q, r)
    BY <1>4 DEF SubmitTake
  <2> HIDE DEF r
  <2> QED
    BY <2>1, <2>2, CallKeepsSummaries
<1> QED
  BY <1>1, <1>2, <1>3, <1>4 DEF Begin

LEMMA FinishKeepsSummaries ==
    ASSUME SumInv, NEW q \in Requests, Finish(q), UNCHANGED <<attempts, ema, flag>>
    PROVE  Summaries' /\ ReadsStillSo'
<1>1. \A p \in Requests : req'[p] = req[p] \/ req'[p] = Idle
  BY DEF SumInv, Inv, TypeOK, Finish
<1>2. ReadStillSo(Idle)
  BY IdleFits DEF ReadStillSo
<1> QED
  BY <1>1, <1>2, RequestKeepsSummaries

\* What Enter reads of the accepted contents.
LEMMA FlagIsRead ==
    ASSUME Inv, NEW q \in Requests, req[q].content \in Contents,
           Outcome(q) \in {"submit", "refresh"}
    PROVE  LET s == SkillOf(req[q].content)
           IN  (RequiredOf(s) # {} /\ RequiredOf(s) \subseteq Done(q))
                 <=> Complete(s, IF Outcome(q) = "submit" THEN req[q].content ELSE None)
<1> DEFINE s == SkillOf(req[q].content)
           extra == IF Outcome(q) = "submit" THEN RequiredOf(s) \cap {req[q].content} ELSE {}
<1>1. Done(q) = Submitted(RequiredOf(s)) \cup extra
  BY DEF Done
<1>2. \A d : d \in Submitted(RequiredOf(s)) <=>
               d \in RequiredOf(s) /\ \E i \in Accepted : attempts[i].content = d
  BY AcceptedAttempts DEF Inv, Submitted
<1>3. RequiredOf(s) \subseteq Contents /\ None \notin Contents
  BY PracticeAssumption DEF RequiredOf
<1>4. CASE Outcome(q) = "submit"
  BY <1>1, <1>2, <1>4 DEF Complete
<1>5. CASE Outcome(q) = "refresh"
  BY <1>1, <1>2, <1>3, <1>5 DEF Complete
<1> QED
  BY <1>4, <1>5

LEMMA EnterKeepsSummaries ==
    ASSUME SumInv, NEW q \in Requests, Enter(q) PROVE Summaries' /\ ReadsStillSo'
<1>1. CASE Outcome(q) = "answer"
  BY <1>1, FinishKeepsSummaries DEF Enter
<1>2. CASE Outcome(q) # "answer"
  <2> DEFINE s == SkillOf(req[q].content)
             full == RequiredOf(s) # {} /\ RequiredOf(s) \subseteq Done(q)
             r == [req[q] EXCEPT !.pc = "work", !.op = Outcome(q), !.folded = ema[s],
                                 !.complete = full]
  <2>1. req[q] \in Request /\ req[q].content \in Contents
    BY DEF SumInv, Inv, TypeOK, RequestsFit, Fits, Enter
  <2>2. /\ r.content = req[q].content /\ r.op = Outcome(q) /\ r.folded = ema[s]
        /\ r.complete = full
    BY <2>1 DEF Request
  <2>3. r.op \in {"submit", "refresh"} =>
          (r.complete <=> Complete(s, IF r.op = "submit" THEN r.content ELSE None))
    BY <2>1, <2>2, FlagIsRead DEF SumInv
  <2>4. \A p \in Requests : req'[p] = req[p] \/ req'[p] = r
    BY <1>2 DEF Enter, SumInv, Inv, TypeOK
  <2>5. UNCHANGED <<attempts, ema, flag>>
    BY DEF Enter
  <2> HIDE DEF r, full
  <2>6. ReadStillSo(r)
    BY <2>2, <2>3 DEF ReadStillSo
  <2> QED
    BY <2>4, <2>5, <2>6, RequestKeepsSummaries
<1> QED
  BY <1>1, <1>2

LEMMA ExpireKeepsSummaries ==
    ASSUME SumInv, NEW i \in DOMAIN attempts, Expire(i) PROVE Summaries' /\ ReadsStillSo'
<1>1. AcceptedKept /\ UNCHANGED <<ema, flag, req>>
  BY ExpireKeepsAccepted DEF Expire, SumInv
<1>2. Summaries' /\ \A s, c : Complete(s, c)' <=> Complete(s, c)
  BY <1>1, SummariesKept DEF SumInv
<1>3. ASSUME NEW p \in Requests PROVE ReadStillSo(req[p])'
  BY <1>1, <1>2 DEF SumInv, ReadsStillSo, ReadStillSo
<1> QED
  BY <1>2, <1>3 DEF ReadsStillSo

LEMMA SubmitKeepsSummaries ==
    ASSUME SumInv, NEW q \in Requests, CommitSubmit(q) PROVE Summaries' /\ ReadsStillSo'
<1> DEFINE c == req[q].content
           t == SkillOf(c)
<1>1. /\ req[q].pc = "work" /\ req[q].op = "submit" /\ Finish(q)
      /\ c \in Contents /\ t \in Skills
  BY AtWork DEF CommitSubmit, Commits, SumInv
<1>2. req[q].folded = ema[t] /\ (req[q].complete <=> Complete(t, c))
  BY <1>1 DEF SumInv, ReadsStillSo, ReadStillSo
<1>3. PICK k : AcceptedGrows(k, c, req[q].answer)
  BY SubmitGrowsAccepted DEF SumInv
<1>4. /\ k \notin Accepted /\ Accepted' = Accepted \cup {k}
      /\ \A i \in Accepted : attempts'[i].content = attempts[i].content
      /\ attempts'[k].content = c
  BY <1>3 DEF AcceptedGrows
<1>5. ASSUME NEW s \in Skills PROVE ema'[s] = Cardinality(AcceptedOf(s))'
  <2>1. ema' = [ema EXCEPT ![t] = req[q].folded + 1] /\ ema \in [Skills -> Nat]
    BY DEF CommitSubmit, SumInv, Inv, TypeOK
  <2>2. ema[s] = Cardinality(AcceptedOf(s))
    BY DEF SumInv, Summaries
  <2>3. CASE s = t
    <3>1. AcceptedOf(s)' = AcceptedOf(s) \cup {k} /\ k \notin AcceptedOf(s)
      BY <1>4, <2>3 DEF AcceptedOf
    <3>2. IsFiniteSet(Accepted) /\ AcceptedOf(s) \subseteq Accepted
      BY AcceptedAttempts DEF SumInv, Inv, AcceptedOf
    <3>3. IsFiniteSet(AcceptedOf(s))
      BY <3>2, FS_Subset
    <3>4. Cardinality(AcceptedOf(s)') = Cardinality(AcceptedOf(s)) + 1
      BY <3>1, <3>3, FS_AddElement
    <3> QED
      BY <1>1, <1>2, <2>1, <2>2, <2>3, <3>4
  <2>4. CASE s # t
    <3>1. AcceptedOf(s)' = AcceptedOf(s)
      BY <1>4, <2>4 DEF AcceptedOf
    <3> QED
      BY <2>1, <2>2, <2>4, <3>1
  <2> QED
    BY <2>3, <2>4
<1>6. ASSUME NEW s \in Skills PROVE flag'[s] <=> Complete(s, None)'
  <2>1. flag' = [flag EXCEPT ![t] = req[q].complete] /\ flag \in [Skills -> BOOLEAN]
    BY DEF CommitSubmit, NewFlag, SumInv, Inv, TypeOK
  <2>2. flag[s] <=> Complete(s, None)
    BY DEF SumInv, Summaries
  <2>3. None \notin RequiredOf(s)
    BY PracticeAssumption DEF RequiredOf
  <2>4. \A d : (\E i \in Accepted' : attempts'[i].content = d)
                 <=> d = c \/ \E i \in Accepted : attempts[i].content = d
    BY <1>4
  <2>5. CASE s = t
    <3>1. Complete(s, None)' <=> Complete(t, c)
      BY <2>3, <2>4, <2>5 DEF Complete
    <3>2. flag'[s] = req[q].complete
      BY <1>1, <2>1, <2>5
    <3> QED
      BY <1>2, <3>1, <3>2
  <2>6. CASE s # t
    <3>1. c \notin RequiredOf(s)
      BY <2>6 DEF RequiredOf
    <3>2. Complete(s, None)' <=> Complete(s, None)
      BY <2>3, <2>4, <3>1 DEF Complete
    <3>3. flag'[s] = flag[s]
      BY <2>1, <2>6
    <3> QED
      BY <2>2, <3>2, <3>3
  <2> QED
    BY <2>5, <2>6
<1>7. Summaries'
  BY <1>5, <1>6 DEF Summaries
<1> QED
  BY <1>1, <1>7, NobodyAtWork DEF SumInv

LEMMA CommitKeepsSummaries ==
    ASSUME SumInv, NEW q \in Requests, Commit(q) PROVE Summaries' /\ ReadsStillSo'
<1>1. req[q].pc = "work" /\ Finish(q)
  BY DEF Commit, CommitStart, CommitSubmit, CommitRefresh, CommitReject, Commits
<1>2. ReadsStillSo'
  BY <1>1, NobodyAtWork DEF SumInv
<1>3. CASE CommitStart(q)
  BY <1>2, <1>3, StartKeepsAccepted, SummariesKept DEF SumInv, CommitStart
<1>4. CASE CommitReject(q)
  BY <1>2, <1>4, RejectKeepsAccepted, SummariesKept DEF SumInv, CommitReject
<1>5. CASE CommitRefresh(q)
  <2> DEFINE t == SkillOf(req[q].content)
  <2>1. t \in Skills
    BY <1>1, AtWork DEF SumInv
  <2>2. req[q].complete <=> Complete(t, None)
    BY <1>1, <1>5 DEF CommitRefresh, Commits, SumInv, ReadsStillSo, ReadStillSo
  <2>3. flag' = [flag EXCEPT ![t] = req[q].complete] /\ UNCHANGED <<attempts, ema>>
    BY <1>5 DEF CommitRefresh, NewFlag
  <2>4. \A s : AcceptedOf(s)' = AcceptedOf(s) /\ (Complete(s, None)' <=> Complete(s, None))
    BY <2>3 DEF AcceptedOf, Accepted, Complete
  <2>5. ASSUME NEW s \in Skills
        PROVE  ema'[s] = Cardinality(AcceptedOf(s))' /\ (flag'[s] <=> Complete(s, None)')
    <3>1. ema[s] = Cardinality(AcceptedOf(s)) /\ (flag[s] <=> Complete(s, None))
      BY DEF SumInv, Summaries
    <3>2. flag'[s] = IF s = t THEN req[q].complete ELSE flag[s]
      BY <2>3 DEF SumInv, Inv, TypeOK
    <3>3. flag'[s] <=> Complete(s, None)
      <4>1. CASE s = t
        BY <2>2, <3>2, <4>1
      <4>2. CASE s # t
        BY <3>1, <3>2, <4>2
      <4> QED
        BY <4>1, <4>2
    <3>4. ema'[s] = Cardinality(AcceptedOf(s))'
      BY <2>3, <2>4, <3>1
    <3> QED
      BY <2>4, <3>3, <3>4
  <2> QED
    BY <1>2, <2>5 DEF Summaries
<1>6. CASE CommitSubmit(q)
  BY <1>6, SubmitKeepsSummaries
<1> QED
  BY <1>3, <1>4, <1>5, <1>6 DEF Commit

LEMMA SumInit == Init => SumInv
<1> SUFFICES ASSUME Init PROVE Summaries /\ ReadsStillSo
  BY InvInit DEF SumInv
<1>1. Accepted = {}
  BY EmptySeq DEF Init, Accepted
<1>2. \A s : AcceptedOf(s) = {} /\ ~Complete(s, None)
  <2>1. \A s : None \notin RequiredOf(s)
    BY PracticeAssumption DEF RequiredOf
  <2> QED
    BY <1>1, <2>1 DEF AcceptedOf, Complete
<1>3. \A s \in Skills : ema[s] = 0 /\ flag[s] = FALSE
  BY DEF Init
<1>4. Summaries
  BY <1>2, <1>3, FS_EmptySet DEF Summaries
<1>5. ReadsStillSo
  BY IdleFits DEF Init, ReadsStillSo, ReadStillSo
<1> QED
  BY <1>4, <1>5

LEMMA SumNext == SumInv /\ [Next]_vars => SumInv'
<1> SUFFICES ASSUME SumInv, [Next]_vars PROVE Summaries' /\ ReadsStillSo'
  BY InvNext DEF SumInv
<1>1. ASSUME NEW q \in Requests, Begin(q) PROVE Summaries' /\ ReadsStillSo'
  BY <1>1, BeginKeepsSummaries
<1>2. ASSUME NEW q \in Requests, Enter(q) PROVE Summaries' /\ ReadsStillSo'
  BY <1>2, EnterKeepsSummaries
<1>3. ASSUME NEW q \in Requests, Commit(q) PROVE Summaries' /\ ReadsStillSo'
  BY <1>3, CommitKeepsSummaries
<1>4. ASSUME NEW q \in Requests, Fail(q) PROVE Summaries' /\ ReadsStillSo'
  BY <1>4, FinishKeepsSummaries DEF Fail
<1>5. ASSUME NEW i \in DOMAIN attempts, Expire(i) PROVE Summaries' /\ ReadsStillSo'
  BY <1>5, ExpireKeepsSummaries
<1>6. CASE UNCHANGED vars
  BY <1>6, RequestKeepsSummaries DEF vars
<1> QED
  BY <1>1, <1>2, <1>3, <1>4, <1>5, <1>6 DEF Next

\* The EMA and the completion flag are written from what a handler read before
\* it awaited its score, and agree with the accepted submits in every state.
THEOREM SummariesNeverStale == Spec => []SummariesFollowSubmits
<1>1. Spec => []SumInv
  BY SumInit, SumNext, PTL DEF Spec
<1>2. SumInv => SummariesFollowSubmits
  BY SummariesAgree DEF SumInv
<1> QED
  BY <1>1, <1>2, PTL

-----------------------------------------------------------------------------
(* Revisions                                                               *)

Newest(c, i) ==
    /\ i \in Accepted /\ attempts[i].content = c
    /\ \A j \in Accepted : attempts[j].content = c => j <= i

\* The newest accepted submit for c has another answer.
Fresh(c, a) == \A i : Newest(c, i) => attempts[i].answer # a

\* The contents whose repeats are refused.
Guarded(c) == Kind[c] = "writing" \/ (~Started(c) /\ client = "patient")

\* What a request that passed the replay check knows, from then to its commit.
Unrepeated(r) ==
    /\ r.pc # "idle" /\ r.op = "submit" /\ Guarded(r.content)
    /\ Kind[r.content] = "writing" => r.pc = "work"
    => Fresh(r.content, r.answer)

InBound(r) ==
    r.pc = "work" /\ r.op = "submit" /\ Kind[r.content] = "writing"
        => Cardinality(RowsOf(r.content, "submitted")) < MaxRevisions

\* A patient client has one request open for a content.
OneAsker ==
    client = "patient" =>
        \A p, q \in Requests :
            Busy(p) /\ Busy(q) /\ req[p].content = req[q].content => p = q

RequestsRevise == \A q \in Requests : Unrepeated(req[q]) /\ InBound(req[q])

Revised == RevisionsBounded /\ OneAsker /\ RequestsRevise

RevInv == Inv /\ Revised

LEMMA RowsAreAccepted ==
    \A c : RowsOf(c, "submitted") = {i \in Accepted : attempts[i].content = c}
BY DEF RowsOf, Accepted

LEMMA NoReplayIsFresh ==
    ASSUME Inv, NEW c, NEW a, ~IsReplay(c, a) PROVE Fresh(c, a)
<1> SUFFICES ASSUME NEW i, Newest(c, i) PROVE attempts[i].answer # a
  BY DEF Fresh
<1> DEFINE rows == RowsOf(c, "submitted")
<1>1. i \in rows /\ \A j \in rows : j <= i
  BY RowsAreAccepted DEF Newest
<1>2. Latest(c) \in rows /\ \A j \in rows : j <= Latest(c)
  BY <1>1 DEF Latest
<1>3. Latest(c) \in Nat /\ i \in Nat
  BY <1>1, <1>2, DomainOfAttempts DEF Inv, RowsOf
<1>4. Latest(c) = i
  BY <1>1, <1>2, <1>3
<1> QED
  BY <1>1, <1>4 DEF IsReplay

LEMMA AskersKept ==
    ASSUME OneAsker, client' = client,
           \A p \in Requests : req'[p].pc # "idle" =>
               Busy(p) /\ req'[p].content = req[p].content
    PROVE  OneAsker'
BY DEF OneAsker, Busy

\* Steps that accept nothing.
LEMMA RevisionsKept ==
    ASSUME RevInv, AcceptedKept, client' = client, OneAsker',
           \A p \in Requests : req'[p] = req[p] \/ (Unrepeated(req'[p]) /\ InBound(req'[p]))
    PROVE  Revised'
<1>1. \A c : RowsOf(c, "submitted")' = RowsOf(c, "submitted")
  BY RowsAreAccepted DEF AcceptedKept, RowsOf, Accepted
<1>2. \A c, i : i \in RowsOf(c, "submitted") => attempts'[i].answer = attempts[i].answer
  BY RowsAreAccepted DEF AcceptedKept
<1>3. RevisionsBounded'
  BY <1>1, <1>2 DEF RevInv, Revised, RevisionsBounded
<1>4. \A c, i : Newest(c, i)' <=> Newest(c, i)
  BY DEF AcceptedKept, Newest
<1>5. \A c, a : Fresh(c, a)' <=> Fresh(c, a)
  BY <1>4 DEF AcceptedKept, Fresh, Newest
<1>6. \A p \in Requests : Unrepeated(req'[p]) /\ InBound(req'[p])
  BY DEF RevInv, Revised, RequestsRevise
<1>7. ASSUME NEW p \in Requests PROVE Unrepeated(req[p])' /\ InBound(req[p])'
  BY <1>1, <1>5, <1>6 DEF Unrepeated, InBound, Guarded
<1> QED
  BY <1>3, <1>7 DEF Revised, RequestsRevise

LEMMA NothingAccepted == ASSUME UNCHANGED attempts PROVE AcceptedKept
BY DEF AcceptedKept, Accepted

LEMMA CallKeepsRevisions ==
    ASSUME RevInv, NEW q \in Requests, NEW r \in Request, Call(q, r),
           MayCall(q, r.content), Unrepeated([r EXCEPT !.pc = "wait"])
    PROVE  Revised'
<1> DEFINE w == [r EXCEPT !.pc = "wait"]
<1>1. w.pc = "wait" /\ w.content = r.content /\ Unrepeated(w)
  BY DEF Request
<1>2. \A p \in Requests : req'[p] = IF p = q THEN w ELSE req[p]
  BY DEF Call, RevInv, Inv, TypeOK
<1> HIDE DEF w
<1>3. OneAsker'
  BY <1>1, <1>2 DEF OneAsker, MayCall, Busy, RevInv, Revised, Call
<1>4. InBound(w)
  BY <1>1 DEF InBound
<1> QED
  BY <1>1, <1>2, <1>3, <1>4, NothingAccepted, RevisionsKept DEF Call

LEMMA BeginKeepsRevisions ==
    ASSUME RevInv, NEW q \in Requests, Begin(q) PROVE Revised'
<1>1. ASSUME NEW c \in Contents, Start(q, c) PROVE Revised'
  <2> DEFINE r == [Idle EXCEPT !.content = c]
  <2>1. r \in Request /\ r.content = c /\ [r EXCEPT !.pc = "wait"].op = "start"
    BY DEF Idle, Request
  <2>2. Call(q, r) /\ MayCall(q, c)
    BY <1>1 DEF Start
  <2> HIDE DEF r
  <2> QED
    BY <2>1, <2>2, CallKeepsRevisions DEF Unrepeated
<1>2. ASSUME NEW i \in DOMAIN attempts, NEW a \in Answers, SubmitStarted(q, i, a)
      PROVE  Revised'
  <2> DEFINE c == attempts[i].content
             r == [Idle EXCEPT !.op = "submit", !.content = c, !.answer = a, !.attempt = i]
  <2>1. i \in Nat /\ c \in Contents
    BY DomainOfAttempts DEF RevInv, Inv, Attempt
  <2>2. Call(q, r) /\ MayCall(q, c) /\ Started(c)
    BY <1>2 DEF SubmitStarted
  <2> HIDE DEF c
  <2>3. r \in Request /\ r.content = c /\ [r EXCEPT !.pc = "wait"].content = c
    BY <2>1 DEF Idle, Request
  <2> HIDE DEF r
  <2>4. ~Guarded(c)
    BY <2>2 DEF Guarded, Started
  <2> QED
    BY <2>2, <2>3, <2>4, CallKeepsRevisions DEF Unrepeated
<1>3. ASSUME NEW c \in Contents, NEW a \in Answers, SubmitWriting(q, c, a) PROVE Revised'
  <2> DEFINE r == [Idle EXCEPT !.op = "submit", !.content = c, !.answer = a]
  <2>1. /\ r \in Request /\ r.content = c
        /\ [r EXCEPT !.pc = "wait"].content = c /\ [r EXCEPT !.pc = "wait"].pc = "wait"
    BY DEF Idle, Request
  <2>2. Call(q, r) /\ MayCall(q, c) /\ Kind[c] = "writing"
    BY <1>3 DEF SubmitWriting
  <2> HIDE DEF r
  <2> QED
    BY <2>1, <2>2, CallKeepsRevisions DEF Unrepeated
<1>4. ASSUME NEW c \in Contents, NEW a \in Answers, SubmitTake(q, c, a) PROVE Revised'
  <2> DEFINE op == IF IsReplay(c, a) THEN "refresh" ELSE "submit"
             r == [Idle EXCEPT !.op = op, !.content = c, !.answer = a]
             w == [r EXCEPT !.pc = "wait"]
  <2>1. /\ r \in Request /\ r.content = c
        /\ w.content = c /\ w.answer = a /\ w.op = op
    BY DEF Idle, Request
  <2>2. Call(q, r) /\ MayCall(q, c)
    BY <1>4 DEF SubmitTake
  <2>3. op = "submit" => Fresh(c, a)
    BY NoReplayIsFresh DEF RevInv
  <2> HIDE DEF r, op
  <2>4. Unrepeated(w)
    BY <2>1, <2>3 DEF Unrepeated
  <2> QED
    BY <2>1, <2>2, <2>4, CallKeepsRevisions
<1> QED
  BY <1>1, <1>2, <1>3, <1>4 DEF Begin

LEMMA FinishKeepsRevisions ==
    ASSUME RevInv, NEW q \in Requests, Finish(q), AcceptedKept PROVE Revised'
<1>1. \A p \in Requests : req'[p] = req[p] \/ req'[p] = Idle
  BY DEF RevInv, Inv, TypeOK, Finish
<1>2. Unrepeated(Idle) /\ InBound(Idle)
  BY IdleFits DEF Unrepeated, InBound
<1>3. OneAsker'
  BY <1>1, IdleFits, AskersKept DEF RevInv, Revised, Finish, Busy
<1> QED
  BY <1>1, <1>2, <1>3, RevisionsKept DEF Finish

LEMMA EnterKeepsRevisions ==
    ASSUME RevInv, NEW q \in Requests, Enter(q) PROVE Revised'
<1>1. CASE Outcome(q) = "answer"
  BY <1>1, FinishKeepsRevisions, NothingAccepted DEF Enter
<1>2. CASE Outcome(q) # "answer"
  <2> DEFINE s == SkillOf(req[q].content)
             full == RequiredOf(s) # {} /\ RequiredOf(s) \subseteq Done(q)
             r == [req[q] EXCEPT !.pc = "work", !.op = Outcome(q), !.folded = ema[s],
                                 !.complete = full]
             c == req[q].content
  <2>1. req[q] \in Request /\ req[q].pc = "wait" /\ Fits(req[q])
    BY DEF RevInv, Inv, TypeOK, RequestsFit, Enter
  <2>2. r.content = c /\ r.op = Outcome(q) /\ r.answer = req[q].answer /\ r.pc = "work"
    BY <2>1 DEF Request
  <2>3. \A p \in Requests : req'[p] = IF p = q THEN r ELSE req[p]
    BY <1>2 DEF Enter, RevInv, Inv, TypeOK
  <2>4. UNCHANGED <<attempts, client>>
    BY <1>2 DEF Enter, Finish
  <2>5. Outcome(q) = "submit" => req[q].op = "submit"
    BY <1>2, <2>1 DEF Outcome, Fits
  <2>6. ASSUME Outcome(q) = "submit", Kind[c] = "writing"
        PROVE  Fresh(c, req[q].answer) /\ Cardinality(RowsOf(c, "submitted")) < MaxRevisions
    <3>1. ~Started(c) /\ req[q].attempt = None
      BY <2>1, <2>5, <2>6 DEF Fits, Started
    <3>2. ~IsReplay(c, req[q].answer) /\ ~Exhausted(c)
      BY <2>5, <2>6, <3>1 DEF Outcome
    <3>3. IsFiniteSet(RowsOf(c, "submitted"))
      BY RowsAreAccepted, AcceptedAttempts, FS_Subset DEF RevInv, Inv
    <3>4. Cardinality(RowsOf(c, "submitted")) \in Nat
      BY <3>3, FS_CardinalityType
    <3> QED
      BY <2>6, <3>2, <3>4, NoReplayIsFresh DEF RevInv, Exhausted, MaxRevisions
  <2>7. Unrepeated(req[q])
    BY DEF RevInv, Revised, RequestsRevise
  <2> HIDE DEF r, full
  <2>8. Unrepeated(r)
    BY <2>1, <2>2, <2>5, <2>6, <2>7 DEF Unrepeated
  <2>9. InBound(r)
    BY <2>2, <2>6 DEF InBound
  <2>10. OneAsker'
    BY <2>1, <2>2, <2>3, <2>4, AskersKept DEF RevInv, Revised, Busy
  <2> QED
    BY <2>3, <2>4, <2>8, <2>9, <2>10, NothingAccepted, RevisionsKept
<1> QED
  BY <1>1, <1>2

LEMMA SubmitKeepsRevisions ==
    ASSUME RevInv, NEW q \in Requests, CommitSubmit(q) PROVE Revised'
<1> SUFFICES ASSUME NEW c, NEW a, c = req[q].content, a = req[q].answer PROVE Revised'
  OBVIOUS
<1>1. req[q].pc = "work" /\ req[q].op = "submit" /\ Finish(q) /\ c \in Contents
  BY AtWork DEF CommitSubmit, Commits, RevInv
<1>2. \A p \in Requests : req'[p] = IF p = q THEN Idle ELSE req[p]
  BY <1>1 DEF RevInv, Inv, TypeOK, Finish
<1>3. PICK k : AcceptedGrows(k, c, a)
  BY SubmitGrowsAccepted DEF RevInv
<1>4. /\ k \notin Accepted /\ Accepted' = Accepted \cup {k}
      /\ \A i \in Accepted : /\ attempts'[i].content = attempts[i].content
                             /\ attempts'[i].answer = attempts[i].answer
      /\ attempts'[k].content = c /\ attempts'[k].answer = a
      /\ ~Started(c) => \A i \in Accepted : i < k
  BY <1>3 DEF AcceptedGrows
<1>5. OneAsker'
  BY <1>1, <1>2, IdleFits, AskersKept DEF RevInv, Revised, Finish, Busy
<1>6. client' = client
  BY <1>1 DEF Finish
<1>7. \A d : RowsOf(d, "submitted")'
               = IF d = c THEN RowsOf(c, "submitted") \cup {k} ELSE RowsOf(d, "submitted")
  <2>1. \A d : RowsOf(d, "submitted")' = {i \in Accepted' : attempts'[i].content = d}
    BY DEF RowsOf, Accepted
  <2>2. RowsOf(c, "submitted")' = RowsOf(c, "submitted") \cup {k}
    <3>1. {i \in Accepted' : attempts'[i].content = c}
            = {i \in Accepted : attempts[i].content = c} \cup {k}
      BY <1>4
    <3>2. {i \in Accepted' : attempts'[i].content = c} = RowsOf(c, "submitted") \cup {k}
      BY <3>1, RowsAreAccepted
    <3> QED
      BY <2>1, <3>2
  <2>3. ASSUME NEW d, d # c PROVE RowsOf(d, "submitted")' = RowsOf(d, "submitted")
    <3>1. {i \in Accepted' : attempts'[i].content = d}
            = {i \in Accepted : attempts[i].content = d}
      BY <1>4, <2>3
    <3> QED
      BY <2>1, <3>1, RowsAreAccepted
  <2> QED
    BY <2>2, <2>3
<1>8. RevisionsBounded'
  <2> SUFFICES ASSUME NEW d \in Contents
               PROVE  LET rows == RowsOf(d, "submitted")'
                      IN  /\ Kind[d] = "writing" => Cardinality(rows) <= MaxRevisions
                          /\ Guarded(d) =>
                               \A i, j \in rows :
                                  i < j /\ (\A m \in rows : ~(i < m /\ m < j))
                                     => attempts'[i].answer # attempts'[j].answer
    BY <1>6 DEF RevisionsBounded, Guarded
  <2> DEFINE old == RowsOf(d, "submitted")
  <2>1. /\ Kind[d] = "writing" => Cardinality(old) <= MaxRevisions
        /\ Guarded(d) => \A i, j \in old :
                            i < j /\ (\A m \in old : ~(i < m /\ m < j))
                               => attempts[i].answer # attempts[j].answer
    BY DEF RevInv, Revised, RevisionsBounded, Guarded
  <2>2. old \subseteq Accepted /\ \A i \in Accepted : i \in Nat
    BY RowsAreAccepted, AcceptedAttempts DEF RevInv, Inv
  <2>3. CASE d # c
    BY <1>4, <1>7, <2>1, <2>2, <2>3
  <2>4. CASE d = c
    <3>1. RowsOf(d, "submitted")' = old \cup {k} /\ k \notin old
      BY <1>4, <1>7, <2>2, <2>4
    <3>2. Kind[d] = "writing" => Cardinality(old \cup {k}) <= MaxRevisions
      <4>1. IsFiniteSet(old)
        BY <2>2, AcceptedAttempts, FS_Subset DEF RevInv, Inv
      <4>2. Cardinality(old \cup {k}) = Cardinality(old) + 1 /\ Cardinality(old) \in Nat
        BY <3>1, <4>1, FS_AddElement, FS_CardinalityType
      <4>3. Kind[d] = "writing" => Cardinality(old) < MaxRevisions
        BY <1>1, <2>4 DEF RevInv, Revised, RequestsRevise, InBound
      <4> QED
        BY <4>2, <4>3 DEF MaxRevisions
    <3>3. ASSUME Guarded(d), NEW i \in old \cup {k}, NEW j \in old \cup {k}, i < j,
                 \A m \in old \cup {k} : ~(i < m /\ m < j)
          PROVE  attempts'[i].answer # attempts'[j].answer
      <4>1. ~Started(c) /\ Fresh(c, a)
        BY <1>1, <2>4, <3>3 DEF Guarded, Started, RevInv, Revised, RequestsRevise, Unrepeated
      <4>2. \A m \in old : m < k /\ m \in Nat
        BY <1>4, <2>2, <4>1
      <4>3. CASE i \in old /\ j \in old
        <5>1. attempts[i].answer # attempts[j].answer
          BY <2>1, <3>3, <4>3
        <5> QED
          BY <1>4, <2>2, <4>3, <5>1
      <4>4. CASE i \in old /\ j = k
        <5>1. \A m \in old : m <= i
          BY <3>3, <4>2, <4>4
        <5>2. Newest(c, i)
          BY <2>2, <2>4, <4>4, <5>1, RowsAreAccepted DEF Newest
        <5> QED
          BY <1>4, <2>2, <4>1, <4>4, <5>2 DEF Fresh
      <4>5. k \in Nat
        BY <1>3 DEF AcceptedGrows
      <4>6. CASE i = k
        BY <3>3, <4>2, <4>5, <4>6
      <4> QED
        BY <4>3, <4>4, <4>6
    <3> QED
      BY <3>1, <3>2, <3>3
  <2> QED
    BY <2>3, <2>4
<1>9. ASSUME NEW p \in Requests PROVE Unrepeated(req[p])' /\ InBound(req[p])'
  <2>1. CASE p = q
    BY <1>2, <2>1, IdleFits DEF Unrepeated, InBound
  <2>2. CASE p # q
    <3> DEFINE d == req[p].content
    <3>1. req'[p] = req[p] /\ req[p].pc # "work"
      BY <1>1, <1>2, <2>2 DEF RevInv, Inv, OneWorker
    <3>2. SUFFICES ASSUME req[p].pc # "idle", req[p].op = "submit", Guarded(d),
                          Kind[d] # "writing"
                   PROVE  Fresh(d, req[p].answer)'
      BY <1>6, <3>1 DEF Unrepeated, InBound, Guarded
    <3>3. d # c
      BY <1>1, <2>2, <3>2 DEF Guarded, RevInv, Revised, OneAsker, Busy
    <3>4. Fresh(d, req[p].answer)
      BY <3>2 DEF RevInv, Revised, RequestsRevise, Unrepeated
    <3>5. \A i : Newest(d, i)' <=> Newest(d, i)
      BY <1>4, <3>1, <3>3 DEF Newest
    <3> QED
      BY <1>4, <3>1, <3>4, <3>5 DEF Fresh, Newest
  <2> QED
    BY <2>1, <2>2
<1> QED
  BY <1>5, <1>8, <1>9 DEF Revised, RequestsRevise

LEMMA CommitKeepsRevisions ==
    ASSUME RevInv, NEW q \in Requests, Commit(q) PROVE Revised'
<1>1. Finish(q)
  BY DEF Commit, CommitStart, CommitSubmit, CommitRefresh, CommitReject, Commits
<1>2. CASE CommitStart(q)
  BY <1>1, <1>2, StartKeepsAccepted, FinishKeepsRevisions DEF RevInv
<1>3. CASE CommitReject(q)
  BY <1>1, <1>3, RejectKeepsAccepted, FinishKeepsRevisions DEF RevInv
<1>4. CASE CommitRefresh(q)
  BY <1>1, <1>4, NothingAccepted, FinishKeepsRevisions DEF CommitRefresh
<1>5. CASE CommitSubmit(q)
  BY <1>5, SubmitKeepsRevisions
<1> QED
  BY <1>2, <1>3, <1>4, <1>5 DEF Commit

LEMMA RevInit == Init => RevInv
<1> SUFFICES ASSUME Init PROVE Revised
  BY InvInit DEF RevInv
<1>1. \A c : RowsOf(c, "submitted") = {}
  BY EmptySeq DEF Init, RowsOf
<1>2. RevisionsBounded
  BY <1>1, FS_EmptySet DEF RevisionsBounded, MaxRevisions
<1>3. \A q \in Requests : req[q].pc = "idle"
  BY IdleFits DEF Init
<1> QED
  BY <1>2, <1>3 DEF Revised, OneAsker, Busy, RequestsRevise, Unrepeated, InBound

LEMMA RevNext == RevInv /\ [Next]_vars => RevInv'
<1> SUFFICES ASSUME RevInv, [Next]_vars PROVE Revised'
  BY InvNext DEF RevInv
<1>1. ASSUME NEW q \in Requests, Begin(q) PROVE Revised'
  BY <1>1, BeginKeepsRevisions
<1>2. ASSUME NEW q \in Requests, Enter(q) PROVE Revised'
  BY <1>2, EnterKeepsRevisions
<1>3. ASSUME NEW q \in Requests, Commit(q) PROVE Revised'
  BY <1>3, CommitKeepsRevisions
<1>4. ASSUME NEW q \in Requests, Fail(q) PROVE Revised'
  BY <1>4, FinishKeepsRevisions, NothingAccepted DEF Fail
<1>5. ASSUME NEW i \in DOMAIN attempts, Expire(i) PROVE Revised'
  <2>1. AcceptedKept /\ UNCHANGED <<client, req>>
    BY <1>5, ExpireKeepsAccepted DEF Expire, RevInv
  <2> QED
    BY <2>1, RevisionsKept DEF RevInv, Revised, OneAsker, Busy
<1>6. CASE UNCHANGED vars
  BY <1>6, NothingAccepted, RevisionsKept DEF vars, RevInv, Revised, OneAsker, Busy
<1> QED
  BY <1>1, <1>2, <1>3, <1>4, <1>5, <1>6 DEF Next

\* The limit of three revisions and the replay check are read before the score
\* is awaited, and hold when it is written: no race of submits passes them.
THEOREM RevisionsNeverExceeded == Spec => []RevisionsBounded
<1>1. Spec => []RevInv
  BY RevInit, RevNext, PTL DEF Spec
<1>2. RevInv => RevisionsBounded
  BY DEF RevInv, Revised
<1> QED
  BY <1>1, <1>2, PTL
=============================================================================
