------------------------------ MODULE Practice ------------------------------
(***************************************************************************)
(* Practice activities of one unit: readings and vocabulary hunts, which   *)
(* are started and then submitted against the server's clock, and writing, *)
(* listening and pronunciation exercises, which start and submit their     *)
(* attempt in one request.  A scored submit leaves an attempt row, a       *)
(* learning_sessions row, the score folded into the skill's EMA and the    *)
(* completion flag of the unit's skill block.                              *)
(*                                                                         *)
(* Nothing here compares a version and no row of a learner is locked when  *)
(* it is read.  What keeps two requests apart is persist_curriculum: every *)
(* handler upserts the catalogue first, ON CONFLICT DO UPDATE locks the    *)
(* scenario rows it meets, and the locks last until the transaction ends.  *)
(* A handler reads in one step and commits in another.                     *)
(*                                                                         *)
(* The level that a score may raise (orchestrate_after_practice) is in     *)
(* Mastery: it touches nothing that is kept here.                          *)
(***************************************************************************)
EXTENDS Integers, FiniteSets, Sequences

CONSTANTS
    Requests,     \* request handlers that may be in flight at once
    Contents,     \* content ids of the unit's activities
    Kind,         \* Contents -> Kinds
    Timed,        \* contents with a time limit (level 4 and above)
    Deferred,     \* timed readings with a short answer nobody can score
    Required,     \* contents the unit's completion flags ask for
    Answers,      \* what a learner hands in
    Clients,      \* "patient": waits for the answer about an activity before
                  \* it asks about it again; "hasty": need not
    MaxCalls,     \* bound: requests made in a behaviour
    None

Kinds == {"reading", "hunt", "writing", "listening", "speaking"}
Skills == {"reading", "writing", "listening", "speaking"}

ASSUME PracticeAssumption ==
    /\ Kind \in [Contents -> Kinds]
    /\ Timed \subseteq {c \in Contents : Kind[c] \in {"reading", "hunt"}}
    /\ Deferred \subseteq {c \in Timed : Kind[c] = "reading"}
    /\ Required \subseteq Contents
    /\ Clients \subseteq {"patient", "hasty"}
    /\ MaxCalls \in Nat
    /\ None \notin Requests \cup Contents \cup Answers \cup BOOLEAN \cup Nat

SkillOf(c) == IF Kind[c] = "hunt" THEN "reading" ELSE Kind[c]
RequiredOf(s) == {c \in Required : SkillOf(c) = s}
Started(c) == Kind[c] \in {"reading", "hunt"}   \* has a start request of its own
MaxRevisions == 3

VARIABLES
    client,    \* how this learner's clients behave
    attempts,  \* skill_exercise_attempts in the order they were committed,
               \* each with the number of learning_sessions rows that name it
    ema,       \* skill -> scores folded into user_skill_levels.ema_score; 0:
               \* no row, or no score yet
    flag,      \* skill -> the unit's completion flag in user_unit_progress
    req,       \* what each handler holds
    calls      \* requests made so far

vars == <<client, attempts, ema, flag, req, calls>>

Attempt ==
    [content : Contents, status : {"started", "submitted", "rejected_late"},
     answer : Answers \cup {None}, expired : BOOLEAN, sessions : Nat]

\* pc: "wait" for the catalogue, then "work" with what was read: the attempt
\* that is submitted (None: a new one), the EMA and the flag's new value.
Request ==
    [pc : {"idle", "wait", "work"},
     op : {"start", "submit", "reject", "refresh"},
     content : Contents \cup {None}, answer : Answers \cup {None},
     attempt : Nat \cup {None}, folded : Nat, complete : BOOLEAN]

Idle == [pc |-> "idle", op |-> "start", content |-> None, answer |-> None,
         attempt |-> None, folded |-> 0, complete |-> FALSE]

TypeOK ==
    /\ client \in Clients
    /\ attempts \in Seq(Attempt)
    /\ ema \in [Skills -> Nat]
    /\ flag \in [Skills -> BOOLEAN]
    /\ req \in [Requests -> Request]
    /\ calls \in 0 .. MaxCalls

Init ==
    /\ client \in Clients
    /\ attempts = <<>>
    /\ ema = [s \in Skills |-> 0]
    /\ flag = [s \in Skills |-> FALSE]
    /\ req = [q \in Requests |-> Idle]
    /\ calls = 0

-----------------------------------------------------------------------------
(* What a SELECT finds *)

RowsOf(c, status) ==
    {i \in DOMAIN attempts : attempts[i].content = c /\ attempts[i].status = status}
Submitted(S) == {c \in S : RowsOf(c, "submitted") # {}}
Latest(c) == CHOOSE i \in RowsOf(c, "submitted") :
                 \A j \in RowsOf(c, "submitted") : j <= i

\* The submit repeats the newest accepted one: a fingerprint, or the text
IsReplay(c, answer) ==
    RowsOf(c, "submitted") # {} /\ attempts[Latest(c)].answer = answer

\* (bug) a fourth revision
ExhaustedLate(c) ==
    Kind[c] = "writing" /\ Cardinality(RowsOf(c, "submitted")) > MaxRevisions

Exhausted(c) ==
    Kind[c] = "writing" /\ Cardinality(RowsOf(c, "submitted")) >= MaxRevisions

-----------------------------------------------------------------------------
(* Calls *)

Busy(q) == req[q].pc # "idle"

MayCall(q, c) ==
    /\ ~Busy(q)
    /\ calls < MaxCalls
    /\ client = "patient" => \A p \in Requests : req[p].content # c

Call(q, r) ==
    /\ calls' = calls + 1
    /\ req' = [req EXCEPT ![q] = [r EXCEPT !.pc = "wait"]]
    /\ UNCHANGED <<client, attempts, ema, flag>>

\* start_reading, start_hunt
Start(q, c) ==
    /\ MayCall(q, c)
    /\ Started(c)
    /\ Call(q, [Idle EXCEPT !.content = c])

\* submit_reading, submit_hunt
SubmitStarted(q, i, answer) ==
    /\ MayCall(q, attempts[i].content)
    /\ Started(attempts[i].content)
    /\ Call(q, [Idle EXCEPT !.op = "submit", !.content = attempts[i].content,
                            !.answer = answer, !.attempt = i])

\* submit_writing
SubmitWriting(q, c, answer) ==
    /\ MayCall(q, c)
    /\ Kind[c] = "writing"
    /\ Call(q, [Idle EXCEPT !.op = "submit", !.content = c, !.answer = answer])

\* evaluate_dialogue, evaluate_drill look for a replay before they touch the
\* catalogue; that of a drill goes on to refresh the flag
SubmitTake(q, c, answer) ==
    /\ MayCall(q, c)
    /\ Kind[c] \in {"listening", "speaking"}
    /\ ~(IsReplay(c, answer) /\ Kind[c] = "listening")
    /\ Call(q, [Idle EXCEPT !.op = IF IsReplay(c, answer) THEN "refresh" ELSE "submit",
                            !.content = c, !.answer = answer])

-----------------------------------------------------------------------------
(* Steps of a transaction *)

Finish(q) == req' = [req EXCEPT ![q] = Idle] /\ UNCHANGED <<client, calls>>

\* (bug) the catalogue is not upserted first
NotHeld == FALSE

\* A transaction holds the catalogue's scenario rows.
Held == \E q \in Requests : req[q].pc = "work"

\* (bug) any attempt may be submitted, a finished one too
OutcomeAgain(q) ==
    LET i == req[q].attempt
    IN  IF req[q].op # "submit" \/ i = None THEN req[q].op
        ELSE IF attempts[i].expired THEN "reject" ELSE "submit"

\* What the handler does with what it finds; "answer" is a reply that changes
\* nothing.  An attempt in flight is started again; a submitted one replayed, a
\* late one rejected, a rejected one stays so, and one that nobody can score is
\* refused; a text is replayed or refused after its third revision.
Outcome(q) ==
    LET c == req[q].content
        i == req[q].attempt
    IN  CASE req[q].op = "start" ->
               IF RowsOf(c, "started") = {} THEN "start" ELSE "answer"
          [] req[q].op = "submit" /\ i # None ->
               IF attempts[i].status = "submitted" THEN "answer"
               ELSE IF attempts[i].expired
               THEN IF attempts[i].status = "started" THEN "reject" ELSE "answer"
               ELSE IF c \in Deferred THEN "answer" ELSE "submit"
          [] req[q].op = "submit" /\ i = None ->
               IF Kind[c] = "writing" /\ (IsReplay(c, req[q].answer) \/ Exhausted(c))
               THEN "answer" ELSE "submit"
          [] OTHER -> "refresh"

\* (bug) the submit's own attempt is not seen
DoneBefore(q) == Submitted(RequiredOf(SkillOf(req[q].content)))

\* submitted_content_ids: what is committed and what this transaction wrote
Done(q) ==
    LET needed == RequiredOf(SkillOf(req[q].content))
    IN  Submitted(needed)
        \cup (IF Outcome(q) = "submit" THEN needed \cap {req[q].content} ELSE {})

\* The catalogue is upserted and everything else is read: for a submit, the
\* EMA and the accepted contents that the flag depends on.  Then a writing
\* awaits its score from the language model.
Enter(q) ==
    LET s == SkillOf(req[q].content)
    IN  /\ req[q].pc = "wait" /\ ~Held
        /\ IF Outcome(q) = "answer" THEN Finish(q)
           ELSE /\ req' = [req EXCEPT
                       ![q].pc = "work", ![q].op = Outcome(q),
                       ![q].folded = ema[s],
                       ![q].complete = RequiredOf(s) # {} /\ RequiredOf(s) \subseteq Done(q)]
                /\ UNCHANGED <<client, calls>>
        /\ UNCHANGED <<attempts, ema, flag>>

\* The transaction ends without a commit: a provider or the connection fails.
Fail(q) ==
    /\ Busy(q)
    /\ Finish(q)
    /\ UNCHANGED <<attempts, ema, flag>>

Commits(q, op) == req[q].pc = "work" /\ req[q].op = op /\ Finish(q)

NewRow(c) == [content |-> c, status |-> "started", answer |-> None,
              expired |-> FALSE, sessions |-> 0]

\* _write_session_envelope: a learning_sessions row that names the attempt
WithEnvelope(row) == [row EXCEPT !.sessions = @ + 1]

SubmittedRow(row, q) ==
    WithEnvelope([row EXCEPT !.status = "submitted", !.answer = req[q].answer])

\* A writing or a take starts its attempt and finalises it at once.
WithDirect(q) == Append(attempts, SubmittedRow(NewRow(req[q].content), q))

NewFlag(q) == [flag EXCEPT ![SkillOf(req[q].content)] = req[q].complete]

CommitStart(q) ==
    /\ Commits(q, "start")
    /\ attempts' = Append(attempts, NewRow(req[q].content))
    /\ UNCHANGED <<ema, flag>>

\* finalize_practice_attempt with its envelope and EMA, and refresh_..._complete
CommitSubmit(q) ==
    /\ Commits(q, "submit")
    /\ attempts' =
         IF req[q].attempt = None
         THEN WithDirect(q)
         ELSE [attempts EXCEPT ![req[q].attempt] = SubmittedRow(@, q)]
    /\ ema' = [ema EXCEPT ![SkillOf(req[q].content)] = req[q].folded + 1]
    /\ flag' = NewFlag(q)

CommitRefresh(q) ==
    /\ Commits(q, "refresh")
    /\ flag' = NewFlag(q)
    /\ UNCHANGED <<attempts, ema>>

\* reject_late_attempt
CommitReject(q) ==
    /\ Commits(q, "reject")
    /\ attempts' = [attempts EXCEPT ![req[q].attempt].status = "rejected_late"]
    /\ UNCHANGED <<ema, flag>>

\* The time limit of an attempt passes
Expire(i) ==
    /\ attempts[i].content \in Timed
    /\ attempts[i].status = "started" /\ ~attempts[i].expired
    /\ attempts' = [attempts EXCEPT ![i].expired = TRUE]
    /\ UNCHANGED <<client, ema, flag, req, calls>>

-----------------------------------------------------------------------------
Commit(q) == CommitStart(q) \/ CommitSubmit(q) \/ CommitRefresh(q) \/ CommitReject(q)

Begin(q) ==
    \/ \E c \in Contents : Start(q, c)
    \/ \E i \in DOMAIN attempts, a \in Answers : SubmitStarted(q, i, a)
    \/ \E c \in Contents, a \in Answers : SubmitWriting(q, c, a) \/ SubmitTake(q, c, a)

Next ==
    \/ \E q \in Requests : Begin(q) \/ Enter(q) \/ Commit(q) \/ Fail(q)
    \/ \E i \in DOMAIN attempts : Expire(i)

Spec == Init /\ [][Next]_vars

-----------------------------------------------------------------------------
(* Properties *)

\* However starts race, a content has at most one attempt in flight
\* (find_active_attempt reads scalar_one_or_none), and no handler leaves a
\* direct one behind.
OneStartedAttempt ==
    \A c \in Contents :
        /\ Cardinality(RowsOf(c, "started")) <= 1
        /\ ~Started(c) => RowsOf(c, "started") = {}

\* However submits and the clock race, an accepted submit is recorded once and
\* stays accepted, and a late one leaves no evidence.
EvidenceOnce ==
    \A i \in DOMAIN attempts :
        attempts[i].sessions = (IF attempts[i].status = "submitted" THEN 1 ELSE 0)

\* A writing is accepted three times at most, and never twice in a row with the
\* same text; a take of a dialogue or drill is not accepted twice in a row
\* unless the client asks again before it is answered.
RevisionsBounded ==
    \A c \in Contents :
        LET rows == RowsOf(c, "submitted")
        IN  /\ Kind[c] = "writing" => Cardinality(rows) <= MaxRevisions
            /\ Kind[c] = "writing" \/ (~Started(c) /\ client = "patient") =>
                 \A i, j \in rows :
                    i < j /\ (\A k \in rows : ~(i < k /\ k < j))
                       => attempts[i].answer # attempts[j].answer

RowsOfSkill(s) == {i \in DOMAIN attempts : SkillOf(attempts[i].content) = s}

\* Between any two requests, the EMA has folded every accepted score of its
\* skill, and the completion flag tells whether every required activity of the
\* block is accepted, though both are computed from what was read earlier.
SummariesFollowSubmits ==
    \A s \in Skills :
        /\ ema[s] = Cardinality({i \in RowsOfSkill(s) : attempts[i].status = "submitted"})
        /\ flag[s] <=> RequiredOf(s) # {} /\ RequiredOf(s) \subseteq Submitted(Contents)
=============================================================================
