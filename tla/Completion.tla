----------------------------- MODULE Completion -----------------------------
(***************************************************************************)
(* Completing a voice session, answering a vocabulary review and opening   *)
(* the daily quests: the three request handlers that write one learner's   *)
(* XP, streak, quests, badges and skill scores.                            *)
(*                                                                         *)
(* Every request runs on a database session of its own.  Authentication    *)
(* loads the user row and, through the selectin relationships, the skill   *)
(* row, the cards and the quests into that session's identity map; a later *)
(* SELECT (the one that takes the row lock included) returns the loaded    *)
(* objects with the values they had.  A flush writes the columns that      *)
(* differ from the loaded value.                                           *)
(***************************************************************************)
EXTENDS Integers, FiniteSets, Folds

CONSTANTS
    Requests,      \* request handlers that may be in flight at once
    Keys,          \* client_session_ids
    Takes,         \* payloads of a completion: scenario, timestamps, scores
    Dialects,      \* the databases the deployment may run on
    Overlap,       \* what the clients of one learner keep in flight together
    MaxDay,        \* bound: local dates are 0 .. MaxDay
    MaxReviews,    \* bound: reviews answered in a behaviour
    VocabTarget,   \* target_count of vocab_10 (10 in the code)
    BadgeXp,       \* total XP that earns xp_500 (500 in the code)
    None           \* SQL NULL, "no row", "nobody"

Days == 0 .. MaxDay
MaxDuration == 7200   \* seconds the request schema allows
Scenarios == {"open", "premium", "missing"}

TakeRecord ==
    [window : Nat,        \* started_at and ended_at
     scenario : Scenarios, spoke : BOOLEAN, duration : 0 .. MaxDuration,
     score : 0 .. 100, difficulty : 0 .. 5, unit : BOOLEAN]

ASSUME CompletionAssumption ==
    /\ Takes \subseteq TakeRecord
    /\ Dialects \subseteq {"postgresql", "sqlite"}
    /\ Overlap \in {"duplicates", "any"}
    /\ MaxDay \in Nat /\ MaxReviews \in Nat /\ BadgeXp \in Nat
    /\ VocabTarget \in Nat /\ VocabTarget > 1
    /\ None \notin Requests \cup Keys \cup Takes \cup Nat

Min2(a, b) == IF a < b THEN a ELSE b
Max2(a, b) == IF a > b THEN a ELSE b
SumOver(S, f(_)) == MapThenFoldSet(+, 0, f, LAMBDA T : CHOOSE x \in T : TRUE, S)

\* _assert_replay_consistent: the scores are not compared
SameSession(t, u) == t.window = u.window /\ t.scenario = u.scenario

-----------------------------------------------------------------------------
(* Daily quests.                                                           *)

Codes == {"session_1", "session_2", "vocab_10"}
SessionCodes == {"session_1", "session_2"}

Target ==
    [c \in Codes |-> CASE c = "session_1" -> 1
                       [] c = "session_2" -> 2
                       [] c = "vocab_10" -> VocabTarget]
Reward ==
    [c \in Codes |-> CASE c = "session_1" -> 20
                       [] c = "session_2" -> 30
                       [] c = "vocab_10" -> 20]

QuestRow == [progress : Nat, completed : BOOLEAN]
FreshQuest == [progress |-> 0, completed |-> FALSE]

\* (bug) the last increment does not complete the quest
ProgressQuestLate(q, c) ==
    IF q.completed THEN q
    ELSE [progress |-> Min2(q.progress + 1, Target[c]),
          completed |-> q.progress + 1 > Target[c]]

\* One increment of a quest; a completed quest stays as it is.
ProgressQuest(q, c) ==
    IF q.completed THEN q
    ELSE [progress |-> Min2(q.progress + 1, Target[c]),
          completed |-> q.progress + 1 >= Target[c]]

ProgressCodes(qs, codes) ==
    [c \in Codes |-> IF c \in codes THEN ProgressQuest(qs[c], c) ELSE qs[c]]

\* (bug) a quest that is completed already counts again
NewlyCompletedAgain(qs, codes) ==
    {c \in codes : ProgressQuest(qs[c], c).completed}

NewlyCompleted(qs, codes) ==
    {c \in codes : ~qs[c].completed /\ ProgressQuest(qs[c], c).completed}

\* (bug) the vocabulary quest is not credited
QuestXpOfSessions(codes) ==
    (IF "session_1" \in codes THEN Reward["session_1"] ELSE 0)
  + (IF "session_2" \in codes THEN Reward["session_2"] ELSE 0)

QuestXp(codes) ==
    (IF "session_1" \in codes THEN Reward["session_1"] ELSE 0)
  + (IF "session_2" \in codes THEN Reward["session_2"] ELSE 0)
  + (IF "vocab_10" \in codes THEN Reward["vocab_10"] ELSE 0)

-----------------------------------------------------------------------------
(* XP, streak and badges.                                                  *)

\* The mutable columns of the learner's users row, with the number of
\* session scores folded into user_skills (0: no row) and the reps of the
\* reviewed card.
Account ==
    [total_xp : Nat, xp_today : Nat, xp_today_date : Days \cup {None},
     streak_count : Nat, longest_streak : Nat,
     streak_last_date : Days \cup {None},
     total_speaking_seconds : Nat, scored : Nat, reps : Nat]

NewAccount ==
    [total_xp |-> 0, xp_today |-> 0, xp_today_date |-> None,
     streak_count |-> 0, longest_streak |-> 0, streak_last_date |-> None,
     total_speaking_seconds |-> 0, scored |-> 0, reps |-> 0]

MinEligibleDuration == 15

Eligible(t) == t.spoke /\ t.duration >= MinEligibleDuration

\* difficulty 0 stands for a scenario without one
SessionXp(t, streak) ==
    IF ~Eligible(t) THEN 0
    ELSE Min2(100,
              20 + Min2(t.duration \div 60, 10) + t.score \div 10
                 + (IF t.difficulty = 0 THEN 5 ELSE Min2(t.difficulty * 5, 25))
                 + (IF streak >= 3 THEN 5 ELSE 0))

\* (bug) xp_today survives midnight
ApplySessionXpNoReset(a, xp, day) ==
    [a EXCEPT !.xp_today = @ + xp, !.xp_today_date = day, !.total_xp = @ + xp]

ApplySessionXp(a, xp, day) ==
    LET today == IF a.xp_today_date = day THEN a.xp_today ELSE 0
    IN  [a EXCEPT !.xp_today = today + xp,
                  !.xp_today_date = day,
                  !.total_xp = @ + xp]

\* (bug) a second session on one local date extends the streak
NextStreakSameDay(a, day) ==
    IF a.streak_last_date = None THEN 1
    ELSE IF a.streak_last_date + 1 >= day THEN a.streak_count + 1
    ELSE 1

NextStreak(a, day) ==
    IF a.streak_last_date = None THEN 1
    ELSE IF a.streak_last_date = day THEN a.streak_count
    ELSE IF a.streak_last_date + 1 = day THEN a.streak_count + 1
    ELSE 1

\* (bug) the activity date is stored one day ahead
UpdateStreakAhead(a, day) ==
    [a EXCEPT !.streak_count = NextStreak(a, day),
              !.longest_streak = Max2(@, NextStreak(a, day)),
              !.streak_last_date = day + 1]

UpdateStreak(a, day) ==
    [a EXCEPT !.streak_count = NextStreak(a, day),
              !.longest_streak = Max2(@, NextStreak(a, day)),
              !.streak_last_date = day]

Badges == {"first_session", "streak_3", "streak_7", "xp_500",
           "quest_day_complete"}

\* (bug) thresholds are exceeded instead of reached
EarnedBadgesOffByOne(a, eligibleCount, qs) ==
    {b \in Badges :
        \/ b = "first_session" /\ eligibleCount >= 1
        \/ b = "streak_3" /\ a.streak_count > 3
        \/ b = "xp_500" /\ a.total_xp > BadgeXp}

EarnedBadges(a, eligibleCount, qs) ==
    {b \in Badges :
        \/ b = "first_session" /\ eligibleCount >= 1
        \/ b = "streak_3" /\ a.streak_count >= 3
        \/ b = "streak_7" /\ a.streak_count >= 7
        \/ b = "xp_500" /\ a.total_xp >= BadgeXp
        \/ b = "quest_day_complete" /\ \A c \in Codes : qs[c].completed}

-----------------------------------------------------------------------------
(* The database and the request handlers.                                  *)

VARIABLES
    dialect,    \* the database behind the engine
    today,      \* the learner's local date
    tier,       \* users.subscription_tier
    account,    \* committed columns of the learner's rows
    quests,     \* committed daily_quests rows, by local date and code
    sessions,   \* committed sessions rows, by client_session_id
    badges,     \* committed user_badges rows
    evidence,   \* keys whose completion recorded unit speaking evidence
    events,     \* the analytics events, as the counts properties speak of
    holder,     \* request with the users row FOR UPDATE (sqlite: write lock)
    share,      \* requests whose inserts hold the users row FOR KEY SHARE
    placing,    \* request with uncommitted quest rows, by local date
    pc,         \* where each handler is
    op,         \* what each handler in flight was asked
    snap        \* the identity map of each handler's database session

db == <<account, quests, sessions, badges, evidence, events>>
locks == <<holder, share, placing>>
vars == <<dialect, today, tier, db, locks, pc, op, snap>>

SessionRow == [take : Takes, session_xp : Nat, quest_xp : Nat, day : Days]

Events ==
    [completed : [Keys -> Nat],           \* session.completed
     paid : [Days -> [Codes -> Nat]],     \* quest.xp_awarded
     badge : [Badges -> Nat],             \* badge.awarded
     reviewed : [Days -> Nat],            \* vocab.reviewed
     xp : Nat,                            \* XP those events awarded, in all
     xpOn : [Days -> Nat]]                \* and by local date

NoEvents ==
    [completed |-> [k \in Keys |-> 0],
     paid |-> [d \in Days |-> [c \in Codes |-> 0]],
     badge |-> [b \in Badges |-> 0],
     reviewed |-> [d \in Days |-> 0],
     xp |-> 0,
     xpOn |-> [d \in Days |-> 0]]

Kinds == {"complete", "review", "quests"}
Op == [kind : Kinds, key : Keys \cup {None}, take : Takes \cup {None},
       day : Days, replay : BOOLEAN]

ASSUME NoneIsNoRow ==
    None \notin SessionRow /\ None \notin Op /\ None \notin QuestRow

Snapshot == [account : Account, quests : [Codes -> QuestRow \cup {None}]]

TypeOK ==
    /\ dialect \in Dialects
    /\ today \in Days
    /\ tier \in {"free", "premium"}
    /\ account \in Account
    /\ quests \in [Days -> [Codes -> QuestRow \cup {None}]]
    /\ sessions \in [Keys -> SessionRow \cup {None}]
    /\ badges \subseteq Badges
    /\ evidence \subseteq Keys
    /\ events \in Events
    /\ holder \in Requests \cup {None}
    /\ share \subseteq Requests
    /\ placing \in [Days -> Requests \cup {None}]
    /\ pc \in [Requests -> {"idle", "lock", "ensure", "fk", "settle",
                            "recover"}]
    /\ op \in [Requests -> Op \cup {None}]
    /\ snap \in [Requests -> Snapshot \cup {None}]

Init ==
    /\ dialect \in Dialects
    /\ today = 0
    /\ tier = "free"
    /\ account = NewAccount
    /\ quests = [d \in Days |-> [c \in Codes |-> None]]
    /\ sessions = [k \in Keys |-> None]
    /\ badges = {}
    /\ evidence = {}
    /\ events = NoEvents
    /\ holder = None
    /\ share = {}
    /\ placing = [d \in Days |-> None]
    /\ pc = [r \in Requests |-> "idle"]
    /\ op = [r \in Requests |-> None]
    /\ snap = [r \in Requests |-> None]

-----------------------------------------------------------------------------
(* Locks, loads and flushes.                                               *)

\* (bug) the handler reads the row without waiting for its lock
CanReadUser(r) == TRUE

\* SELECT users ... FOR UPDATE waits for every other holder of the row, in
\* either mode; sqlite takes no lock here.
CanLockUser(r) ==
    dialect = "postgresql" => holder \in {None, r} /\ share \subseteq {r}

\* sqlite: a write needs the database's one write lock
CanWrite(r) == dialect = "sqlite" => holder \in {None, r}

LockUser(r) == holder' = IF dialect = "postgresql" THEN r ELSE holder

\* The rows of one local date that a SELECT adds to the identity map: an
\* object that is already loaded keeps its values.
LoadQuests(loaded, day) ==
    [c \in Codes |-> IF loaded[c] = None THEN quests[day][c] ELSE loaded[c]]

\* user_skills is selected in the handler: a row missing at authentication
\* is read then, one that was loaded keeps its values
LoadedAccount(r) ==
    [snap[r].account EXCEPT !.scored = IF @ = 0 THEN account.scored ELSE @]

\* UPDATE writes the columns whose value differs from the loaded one.
Column(row, loaded, new) == IF new # loaded THEN new ELSE row

FlushAccount(row, loaded, new) ==
    [total_xp |-> Column(row.total_xp, loaded.total_xp, new.total_xp),
     xp_today |-> Column(row.xp_today, loaded.xp_today, new.xp_today),
     xp_today_date |->
        Column(row.xp_today_date, loaded.xp_today_date, new.xp_today_date),
     streak_count |->
        Column(row.streak_count, loaded.streak_count, new.streak_count),
     longest_streak |->
        Column(row.longest_streak, loaded.longest_streak, new.longest_streak),
     streak_last_date |->
        Column(row.streak_last_date, loaded.streak_last_date,
               new.streak_last_date),
     total_speaking_seconds |->
        Column(row.total_speaking_seconds, loaded.total_speaking_seconds,
               new.total_speaking_seconds),
     scored |-> Column(row.scored, loaded.scored, new.scored),
     reps |-> Column(row.reps, loaded.reps, new.reps)]

FlushQuest(row, loaded, new) ==
    IF loaded = None THEN row
    ELSE IF row = None THEN new
    ELSE [progress |-> Column(row.progress, loaded.progress, new.progress),
          completed |-> Column(row.completed, loaded.completed, new.completed)]

FlushQuests(r, new) ==
    [quests EXCEPT ![op[r].day] =
        [c \in Codes |-> FlushQuest(@[c], snap[r].quests[c], new[c])]]

\* (bug) a foreign key lock outlives its transaction
ReleaseButShare(r) ==
    /\ holder' = IF holder = r THEN None ELSE holder
    /\ share' = share
    /\ placing' = [d \in Days |-> IF placing[d] = r THEN None ELSE placing[d]]

\* The transaction of r is over, by COMMIT or by ROLLBACK.
Release(r) ==
    /\ holder' = IF holder = r THEN None ELSE holder
    /\ share' = share \ {r}
    /\ placing' = [d \in Days |-> IF placing[d] = r THEN None ELSE placing[d]]

\* The handler answers, or dies.
Finish(r) ==
    /\ pc' = [pc EXCEPT ![r] = "idle"]
    /\ op' = [op EXCEPT ![r] = None]
    /\ snap' = [snap EXCEPT ![r] = None]

Goto(r, label) == pc' = [pc EXCEPT ![r] = label]

-----------------------------------------------------------------------------
(* Arrival: what the clients send, and authentication.                     *)

InFlight(r) == pc[r] # "idle"

\* "duplicates": a client waits for its answer, or has sent the same
\* completion again; "any": several devices of one learner.
MayOverlap(o) ==
    Overlap = "duplicates" =>
        \A r \in Requests :
            InFlight(r) => /\ o.kind = "complete" /\ op[r].kind = "complete"
                           /\ o.key = op[r].key /\ SameSession(o.take, op[r].take)

Authenticate(r, o, label) ==
    /\ pc[r] = "idle"
    /\ MayOverlap(o)
    /\ Goto(r, label)
    /\ op' = [op EXCEPT ![r] = o]
    /\ snap' = [snap EXCEPT ![r] = [account |-> account,
                                    quests |-> quests[o.day]]]
    /\ UNCHANGED <<dialect, today, tier, db, locks>>

OpOf(kind, key, take) ==
    [kind |-> kind, key |-> key, take |-> take, day |-> today,
     replay |-> FALSE]

\* (bug) the paywall is cosmetic
NeverNeedsPremium(t) == FALSE

NeedsPremium(t) == t.scenario = "premium" /\ tier # "premium"

\* POST /sessions/complete; a premium scenario is refused to a free learner
PostComplete(r, k, t) ==
    ~NeedsPremium(t) /\ Authenticate(r, OpOf("complete", k, t), "lock")

\* POST /review/answer; at most MaxReviews in a behaviour
PostReview(r) ==
    /\ SumOver(Days, LAMBDA d : events.reviewed[d])
         + Cardinality({q \in Requests : InFlight(q) /\ op[q].kind = "review"})
         < MaxReviews
    /\ Authenticate(r, OpOf("review", None, None), "ensure")

\* GET /quests/today
GetQuests(r) == Authenticate(r, OpOf("quests", None, None), "ensure")

-----------------------------------------------------------------------------
(* complete_session: lock the user, then look the key up.                  *)

HasLock(r) == pc[r] = "lock" /\ CanLockUser(r)

FirstCompletion(r) ==
    /\ HasLock(r)
    /\ sessions[op[r].key] = None
    /\ op[r].take.scenario # "missing"
    /\ LockUser(r)
    /\ Goto(r, IF Eligible(op[r].take) THEN "ensure" ELSE "settle")
    /\ UNCHANGED <<dialect, today, tier, db, share, placing, op, snap>>

ScenarioNotFound(r) ==
    /\ HasLock(r)
    /\ sessions[op[r].key] = None
    /\ op[r].take.scenario = "missing"
    /\ Finish(r)
    /\ UNCHANGED <<dialect, today, tier, db, locks>>

\* (bug) the stored payload is not compared
ReplayAnything(r) ==
    /\ HasLock(r)
    /\ sessions[op[r].key] # None
    /\ LockUser(r)
    /\ Goto(r, "ensure")
    /\ op' = [op EXCEPT ![r].replay = TRUE]
    /\ UNCHANGED <<dialect, today, tier, db, share, placing, snap>>

Replay(r) ==
    /\ HasLock(r)
    /\ sessions[op[r].key] # None
    /\ SameSession(sessions[op[r].key].take, op[r].take)
    /\ LockUser(r)
    /\ Goto(r, "ensure")
    /\ op' = [op EXCEPT ![r].replay = TRUE]
    /\ UNCHANGED <<dialect, today, tier, db, share, placing, snap>>

SessionConflict(r) ==
    /\ HasLock(r)
    /\ sessions[op[r].key] # None
    /\ ~SameSession(sessions[op[r].key].take, op[r].take)
    /\ Finish(r)
    /\ UNCHANGED <<dialect, today, tier, db, locks>>

-----------------------------------------------------------------------------
(* ensure_daily_quests: shared by the three handlers.                      *)

Missing(r) ==
    \E c \in Codes : LoadQuests(snap[r].quests, op[r].day)[c] = None

WithQuests(r, qs) == snap' = [snap EXCEPT ![r].quests = qs]

QuestsExist(r) ==
    /\ pc[r] = "ensure"
    /\ ~Missing(r)
    /\ WithQuests(r, LoadQuests(snap[r].quests, op[r].day))
    /\ Goto(r, "settle")
    /\ UNCHANGED <<dialect, today, tier, db, locks, op>>

\* INSERT ... ON CONFLICT DO NOTHING waits while another transaction has
\* the same rows in flight.  postgresql then checks the foreign key to
\* users at the end of the statement, with the rows already placed.
PlaceQuests(r) ==
    /\ pc[r] = "ensure"
    /\ Missing(r)
    /\ placing[op[r].day] = None
    /\ CanWrite(r)
    /\ placing' = [placing EXCEPT ![op[r].day] = r]
    /\ IF dialect = "postgresql"
       THEN Goto(r, "fk") /\ UNCHANGED <<holder, snap>>
       ELSE /\ Goto(r, "settle")
            /\ holder' = r
            /\ WithQuests(r, [c \in Codes |-> FreshQuest])
    /\ UNCHANGED <<dialect, today, tier, db, share, op>>

CheckForeignKey(r) ==
    /\ pc[r] = "fk"
    /\ holder \in {None, r}
    /\ share' = share \cup {r}
    /\ WithQuests(r, [c \in Codes |-> FreshQuest])
    /\ Goto(r, "settle")
    /\ UNCHANGED <<dialect, today, tier, db, holder, placing, op>>

\* r waits for q to end its transaction
WaitsFor(r, q) ==
    /\ q # r
    /\ \/ pc[r] = "lock" /\ dialect = "postgresql" /\ (holder = q \/ q \in share)
       \/ pc[r] = "fk" /\ holder = q
       \/ pc[r] = "ensure" /\ Missing(r) /\ placing[op[r].day] = q

\* postgresql's deadlock detector aborts one of the two
DeadlockVictim(r) ==
    /\ \E q \in Requests : WaitsFor(r, q) /\ WaitsFor(q, r)
    /\ Release(r)
    /\ Finish(r)
    /\ UNCHANGED <<dialect, today, tier, db>>

-----------------------------------------------------------------------------
(* The rest of each handler: compute on the loaded rows, flush, commit.    *)

EligibleSessions(ss) == {k \in Keys : ss[k] # None /\ Eligible(ss[k].take)}

\* (bug) speaking time is counted for eligible sessions only
CompletedAccountEligibleTime(a, t, day, questXp) ==
    LET played == IF Eligible(t) THEN UpdateStreak(a, day) ELSE a
        xp == SessionXp(t, played.streak_count) + questXp
    IN  [ApplySessionXp(played, xp, day) EXCEPT
            !.total_speaking_seconds = IF Eligible(t) THEN @ + t.duration ELSE @,
            !.scored = IF Eligible(t) THEN @ + 1 ELSE @]

\* _create_session_flow from the loaded rows: what it makes of them
CompletedAccount(a, t, day, questXp) ==
    LET played == IF Eligible(t) THEN UpdateStreak(a, day) ELSE a
        xp == SessionXp(t, played.streak_count) + questXp
    IN  [ApplySessionXp(played, xp, day) EXCEPT
            !.total_speaking_seconds = @ + t.duration,
            !.scored = IF Eligible(t) THEN @ + 1 ELSE @]

\* (bug) the badges the learner has are not consulted
AllBadges(a, eligibleCount, qs) == EarnedBadges(a, eligibleCount, qs)

NewBadges(a, eligibleCount, qs) ==
    EarnedBadges(a, eligibleCount, qs) \ badges

CommitCompletion(r) ==
    LET t == op[r].take
        day == op[r].day
        loaded == LoadedAccount(r)
        codes == IF Eligible(t) THEN SessionCodes ELSE {}
        paid == NewlyCompleted(snap[r].quests, codes)
        newQuests == ProgressCodes(snap[r].quests, codes)
        new == CompletedAccount(loaded, t, day, QuestXp(paid))
        sessionXp == SessionXp(t, new.streak_count)
        xp == sessionXp + QuestXp(paid)
        stored == [sessions EXCEPT ![op[r].key] =
                      [take |-> t, session_xp |-> sessionXp,
                       quest_xp |-> QuestXp(paid), day |-> day]]
        won == IF Eligible(t)
               THEN NewBadges(new, Cardinality(EligibleSessions(stored)),
                              newQuests)
               ELSE {}
    IN  /\ pc[r] = "settle" /\ op[r].kind = "complete" /\ ~op[r].replay
        /\ CanWrite(r)
        /\ sessions[op[r].key] = None
        /\ account' = FlushAccount(account, loaded, new)
        /\ quests' = FlushQuests(r, newQuests)
        /\ sessions' = stored
        /\ badges' = badges \cup won
        /\ evidence' = IF Eligible(t) /\ t.unit THEN evidence \cup {op[r].key}
                       ELSE evidence
        /\ events' =
             [events EXCEPT
                !.completed[op[r].key] = @ + 1,
                !.paid[day] = [c \in Codes |-> IF c \in paid THEN @[c] + 1
                                               ELSE @[c]],
                !.badge = [b \in Badges |-> IF b \in won THEN @[b] + 1
                                            ELSE @[b]],
                !.xp = @ + xp,
                !.xpOn[day] = @ + xp]
        /\ Release(r)
        /\ Finish(r)
        /\ UNCHANGED <<dialect, today, tier>>

\* the flush violates uq_sessions_user_client_session: roll back
LoseInsert(r) ==
    /\ pc[r] = "settle" /\ op[r].kind = "complete" /\ ~op[r].replay
    /\ CanWrite(r)
    /\ sessions[op[r].key] # None
    /\ Release(r)
    /\ Goto(r, "recover")
    /\ UNCHANGED <<dialect, today, tier, db, op, snap>>

\* ... and replay the winner's row on a fresh load of everything
RecoverByReplay(r) ==
    /\ pc[r] = "recover"
    /\ CanLockUser(r)
    /\ sessions[op[r].key] # None
    /\ LockUser(r)
    /\ op' = [op EXCEPT ![r].replay = TRUE]
    /\ snap' = [snap EXCEPT ![r] = [account |-> account,
                                    quests |-> quests[op[r].day]]]
    /\ Goto(r, "ensure")
    /\ UNCHANGED <<dialect, today, tier, db, share, placing>>

\* (bugs) a replay records the completion again, or stores its own quest XP
ReplayRecords(r) ==
    /\ UNCHANGED <<account, sessions, badges, evidence>>
    /\ events' = IF op[r].replay
                 THEN [events EXCEPT !.completed[op[r].key] = @ + 1]
                 ELSE events

ReplayRestores(r) ==
    /\ UNCHANGED <<account, badges, evidence, events>>
    /\ sessions' = IF op[r].replay
                   THEN [sessions EXCEPT ![op[r].key].quest_xp = 0]
                   ELSE sessions

\* the stored outcome is returned "without mutating anything"
ReadOnly(r) == UNCHANGED <<account, sessions, badges, evidence, events>>

\* commit of a handler that only made sure that the quests exist
CommitRead(r) ==
    /\ pc[r] = "settle"
    /\ op[r].kind = "quests" \/ op[r].replay
    /\ quests' = FlushQuests(r, snap[r].quests)
    /\ Release(r)
    /\ Finish(r)
    /\ ReadOnly(r)
    /\ UNCHANGED <<dialect, today, tier>>

\* submit_review: the quest is progressed on the loaded row, and only a
\* review that completes it locks the user
CommitReview(r) ==
    LET day == op[r].day
        paid == NewlyCompleted(snap[r].quests, {"vocab_10"})
        xp == QuestXp(paid)
        reviewed == [snap[r].account EXCEPT !.reps = @ + 1]
        new == IF xp > 0 THEN ApplySessionXp(reviewed, xp, day) ELSE reviewed
    IN  /\ pc[r] = "settle" /\ op[r].kind = "review"
        /\ CanWrite(r)
        /\ xp > 0 => CanLockUser(r)
        /\ account' = FlushAccount(account, snap[r].account, new)
        /\ quests' = FlushQuests(r, ProgressCodes(snap[r].quests, {"vocab_10"}))
        /\ events' =
             [events EXCEPT
                !.paid[day] = [c \in Codes |-> IF c \in paid THEN @[c] + 1
                                               ELSE @[c]],
                !.reviewed[day] = @ + 1,
                !.xp = @ + xp,
                !.xpOn[day] = @ + xp]
        /\ Release(r)
        /\ Finish(r)
        /\ UNCHANGED <<dialect, today, tier, sessions, badges, evidence>>

\* The handler dies (an exception, a dropped connection, a restart): the
\* transaction rolls back and the client gets no answer it can use.
Fail(r) ==
    /\ InFlight(r)
    /\ Release(r)
    /\ Finish(r)
    /\ UNCHANGED <<dialect, today, tier, db>>

-----------------------------------------------------------------------------
(* The environment.                                                        *)

NextDay ==
    /\ today < MaxDay
    /\ today' = today + 1
    /\ UNCHANGED <<dialect, tier, db, locks, pc, op, snap>>

\* POST /users/me/upgrade
Upgrade ==
    /\ tier = "free"
    /\ tier' = "premium"
    /\ UNCHANGED <<dialect, today, db, locks, pc, op, snap>>

Arrive(r) ==
    \/ \E k \in Keys, t \in Takes : PostComplete(r, k, t)
    \/ PostReview(r)
    \/ GetQuests(r)

Progress(r) ==
    \/ FirstCompletion(r)
    \/ ScenarioNotFound(r)
    \/ Replay(r)
    \/ SessionConflict(r)
    \/ QuestsExist(r)
    \/ PlaceQuests(r)
    \/ CheckForeignKey(r)
    \/ DeadlockVictim(r)
    \/ CommitCompletion(r)
    \/ LoseInsert(r)
    \/ RecoverByReplay(r)
    \/ CommitRead(r)
    \/ CommitReview(r)

Next ==
    \/ \E r \in Requests : Arrive(r) \/ Progress(r) \/ Fail(r)
    \/ NextDay
    \/ Upgrade

Spec == Init /\ [][Next]_vars

\* Row locks are granted in queue order and the event loop resumes every
\* coroutine that is ready: a handler that can go on again and again goes on.
FairSpec == Spec /\ \A r \in Requests : SF_vars(Progress(r))

-----------------------------------------------------------------------------
(* Properties that hold whatever the clients send together.                *)

\* A completion is recorded as completed exactly once per client_session_id,
\* and only together with its row: no retry, duplicate or race awards twice
\* ("never double-award", complete_session).
CompletionsAwardedOnce ==
    \A k \in Keys :
        events.completed[k] = IF sessions[k] = None THEN 0 ELSE 1

\* A badge is announced once, when its row is inserted (award_badges).
BadgesAwardedOnce ==
    \A b \in Badges : events.badge[b] = IF b \in badges THEN 1 ELSE 0

\* The unique constraint is hit only where the user row is not locked, and
\* the loser then finds the winner's row: the polls of
\* _wait_for_stored_session never come back empty.
InsertRaceOnlyWithoutRowLock ==
    \A r \in Requests :
        pc[r] = "recover" => dialect = "sqlite" /\ sessions[op[r].key] # None

\* Under the row lock a replay answers for the session that was sent: another
\* session under the same key gets a conflict (_assert_replay_consistent).
ReplayAnswersItsPayload ==
    \A r \in Requests :
        dialect = "postgresql" /\ InFlight(r) /\ op[r].replay
            => /\ sessions[op[r].key] # None
               /\ SameSession(sessions[op[r].key].take, op[r].take)

\* A free learner's XP never comes from a premium scenario (complete_session
\* endpoint, entitlement gate).
PremiumOnlyWhenEntitled ==
    \A k \in Keys :
        sessions[k] # None /\ sessions[k].take.scenario = "premium"
            => tier = "premium"

\* A stored session never changes and is never dropped; only a commit of a
\* completion that was not there before adds one.
SessionRowsImmutable ==
    [][\A k \in Keys : sessions[k] # None => sessions'[k] = sessions[k]]_vars

\* The conflict-safe quest inserts of two requests never deadlock.
QuestInsertsNeverDeadlock ==
    \A r, q \in Requests : ~(WaitsFor(r, q) /\ WaitsFor(q, r))

\* Every request is answered: locks are released on every path, and a
\* deadlock is broken.
EveryRequestAnswered ==
    \A r \in Requests : InFlight(r) ~> ~InFlight(r)

-----------------------------------------------------------------------------
(* Properties of a learner whose completions do not overlap, except for    *)
(* duplicates of one completion.                                           *)

\* total_xp is the sum of all XP the event log awards, and xp_today that of
\* the local date it is for (apply_session_xp): nothing is lost, nothing
\* is paid twice, and the daily counter is reset when the date changes.
LedgerBalances ==
    /\ account.total_xp = events.xp
    /\ account.xp_today_date # None
           => account.xp_today = events.xpOn[account.xp_today_date]

Stored == {k \in Keys : sessions[k] # None}
EligibleOn(d) == {k \in EligibleSessions(sessions) : sessions[k].day = d}

\* The learner's other counters agree with the stored rows: speaking time
\* with the sessions, the skill scores with the eligible ones, the card's
\* reps with the reviews.
CountersMatchHistory ==
    /\ account.total_speaking_seconds
         = SumOver(Stored, LAMBDA k : sessions[k].take.duration)
    /\ account.scored = Cardinality(EligibleSessions(sessions))
    /\ account.reps = SumOver(Days, LAMBDA d : events.reviewed[d])

\* Each quest stands where the day's sessions and reviews put it, whether
\* its rows were created by a completion, a review, a replay or a GET, and
\* is completed exactly at its target (progress is monotonic, quest_service).
QuestsMatchHistory ==
    \A d \in Days, c \in Codes :
        LET done == IF c = "vocab_10" THEN events.reviewed[d]
                    ELSE Cardinality(EligibleOn(d))
        IN  IF quests[d][c] = None THEN done = 0
            ELSE /\ quests[d][c].progress = Min2(done, Target[c])
                 /\ quests[d][c].completed = (done >= Target[c])

\* No quest pays twice: "completions award XP exactly once" (quest_service).
QuestsPaidOnce == \A d \in Days, c \in Codes : events.paid[d][c] <= 1

\* The streak is the run of consecutive local dates with an eligible session
\* that ends at the last one, longest_streak the longest run there was.
PracticeDays == {sessions[k].day : k \in EligibleSessions(sessions)}
Runs == {n \in 1 .. MaxDay + 1 :
            \E d \in Days : d - n + 1 >= 0 /\ (d - n + 1) .. d \subseteq PracticeDays}

StreakMatchesHistory ==
    IF PracticeDays = {}
    THEN account.streak_last_date = None /\ account.streak_count = 0
    ELSE LET last == account.streak_last_date
             n == account.streak_count
         IN  /\ last \in PracticeDays /\ \A d \in PracticeDays : d <= last
             /\ n >= 1 /\ (last - n + 1) .. last \subseteq PracticeDays
             /\ (last - n) \notin PracticeDays
             /\ account.longest_streak \in Runs
             /\ \A m \in Runs : m <= account.longest_streak

\* Badges are earned, and the ones that only sessions can earn are never
\* missed (award_badges).
BadgesMatchHistory ==
    /\ "first_session" \in badges <=> EligibleSessions(sessions) # {}
    /\ "streak_3" \in badges <=> account.longest_streak >= 3
    /\ "xp_500" \in badges => account.total_xp >= BadgeXp
    /\ "quest_day_complete" \in badges
           => \E d \in Days : \A c \in Codes :
                 quests[d][c] # None /\ quests[d][c].completed

\* What the learner is promised: RewardLedger over the sessions' XP and the
\* quests' rewards.
Claims == Keys \cup (Days \X Codes)

\* client_session_ids are UUIDs: there are finitely many, and none of them is
\* a quest's date and code
ASSUME KeysAssumption == IsFiniteSet(Keys) /\ Keys \cap (Days \X Codes) = {}

\* what each claim was paid: a session its own XP, a quest its reward
Earned ==
    [c \in Claims |->
        IF c \in Keys
        THEN IF sessions[c] = None THEN 0 ELSE sessions[c].session_xp
        ELSE events.paid[c[1]][c[2]] * Reward[c[2]]]

Ledger == INSTANCE RewardLedger WITH earned <- Earned, total <- account.total_xp
RewardsAreLedger == Ledger!Spec
=============================================================================
