-------------------------- MODULE CompletionProofs --------------------------
(***************************************************************************)
(* Theorems about Completion for every set of requests, keys and payloads  *)
(* and every number of days.  The first half holds whatever the clients    *)
(* keep in flight together; the second half is about a learner whose       *)
(* requests do not overlap, except for duplicates of one completion.       *)
(***************************************************************************)
EXTENDS Completion, Sums

(***************************************************************************)
(* The operators the handlers are built from keep the types.               *)
(***************************************************************************)

LEMMA QuestXpIsNat == \A codes : QuestXp(codes) \in Nat
BY DEF QuestXp, Reward, Codes

LEMMA TargetIsNat == \A c \in Codes : Target[c] \in Nat
BY CompletionAssumption DEF CompletionAssumption, Target, Codes

LEMMA TakeType ==
    ASSUME NEW t \in Takes
    PROVE  /\ t.duration \in Nat /\ t.score \in Nat /\ t.difficulty \in Nat
           /\ t.spoke \in BOOLEAN /\ t.unit \in BOOLEAN
<1>1. t \in TakeRecord
  BY CompletionAssumption DEF CompletionAssumption
<1>2. /\ t.duration \in 0 .. MaxDuration /\ t.score \in 0 .. 100
      /\ t.difficulty \in 0 .. 5
      /\ t.spoke \in BOOLEAN /\ t.unit \in BOOLEAN
  BY <1>1 DEF TakeRecord
<1>3. MaxDuration \in Nat
  BY DEF MaxDuration
<1>4. t.duration \in Nat
  BY <1>2, <1>3
<1>5. t.score \in Nat
  BY <1>2
<1>6. t.difficulty \in Nat
  BY <1>2
<1>7. QED
  BY <1>2, <1>4, <1>5, <1>6

LEMMA SessionXpIsNat ==
    ASSUME NEW t \in Takes, NEW streak \in Nat
    PROVE  SessionXp(t, streak) \in Nat
<1>1. /\ t.duration \in Nat /\ t.score \in Nat /\ t.difficulty \in Nat
      /\ t.spoke \in BOOLEAN
  BY TakeType
<1>2. /\ Min2(t.duration \div 60, 10) \in Nat
      /\ t.score \div 10 \in Nat
      /\ Min2(t.difficulty * 5, 25) \in Nat
  BY <1>1 DEF Min2
<1>3. QED
  BY <1>1, <1>2 DEF SessionXp, Min2

LEMMA ApplySessionXpType ==
    ASSUME NEW a \in Account, NEW xp \in Nat, NEW day \in Days
    PROVE  ApplySessionXp(a, xp, day) \in Account
<1> DEFINE today_xp == IF a.xp_today_date = day THEN a.xp_today ELSE 0
<1>1. today_xp \in Nat /\ a.total_xp \in Nat
  BY DEF Account
<1>2. today_xp + xp \in Nat /\ a.total_xp + xp \in Nat
  BY <1>1
<1> HIDE DEF today_xp
<1>3. [a EXCEPT !.xp_today = today_xp + xp, !.xp_today_date = day,
                !.total_xp = @ + xp] \in Account
  BY <1>2 DEF Account
<1>4. QED
  BY <1>3 DEF ApplySessionXp, today_xp

LEMMA NextStreakType ==
    ASSUME NEW a \in Account, NEW day \in Days
    PROVE  NextStreak(a, day) \in Nat
BY DEF NextStreak, Account

LEMMA UpdateStreakType ==
    ASSUME NEW a \in Account, NEW day \in Days
    PROVE  UpdateStreak(a, day) \in Account
<1>1. NextStreak(a, day) \in Nat
  BY NextStreakType
<1>2. Max2(a.longest_streak, NextStreak(a, day)) \in Nat
  BY <1>1 DEF Max2, Account
<1>3. QED
  BY <1>1, <1>2 DEF UpdateStreak, Account

LEMMA CompletedAccountType ==
    ASSUME NEW a \in Account, NEW t \in Takes, NEW day \in Days,
           NEW questXp \in Nat
    PROVE  CompletedAccount(a, t, day, questXp) \in Account
<1> DEFINE played == IF Eligible(t) THEN UpdateStreak(a, day) ELSE a
           xp == SessionXp(t, played.streak_count) + questXp
           paid == ApplySessionXp(played, xp, day)
<1>1. played \in Account
  BY UpdateStreakType
<1>2. played.streak_count \in Nat
  BY <1>1 DEF Account
<1>3. xp \in Nat
  BY <1>2, SessionXpIsNat
<1>4. paid \in Account
  BY <1>1, <1>3, ApplySessionXpType
<1>5. t.duration \in Nat
  BY TakeType
<1> HIDE DEF paid
<1>6. /\ paid.total_speaking_seconds + t.duration \in Nat
      /\ (IF Eligible(t) THEN paid.scored + 1 ELSE paid.scored) \in Nat
  BY <1>4, <1>5 DEF Account
<1>7. [paid EXCEPT !.total_speaking_seconds = @ + t.duration,
                   !.scored = IF Eligible(t) THEN @ + 1 ELSE @] \in Account
  BY <1>4, <1>6 DEF Account
<1>8. QED
  BY <1>7 DEF CompletedAccount, paid

LEMMA FlushAccountType ==
    ASSUME NEW row \in Account, NEW loaded \in Account, NEW new \in Account
    PROVE  FlushAccount(row, loaded, new) \in Account
BY DEF FlushAccount, Column, Account

LEMMA ProgressQuestType ==
    ASSUME NEW q \in QuestRow, NEW c \in Codes
    PROVE  ProgressQuest(q, c) \in QuestRow
BY TargetIsNat DEF ProgressQuest, QuestRow, Min2

LEMMA FlushQuestType ==
    ASSUME NEW row \in QuestRow \cup {None},
           NEW loaded \in QuestRow \cup {None},
           NEW new \in QuestRow \cup {None},
           loaded # None => new \in QuestRow
    PROVE  FlushQuest(row, loaded, new) \in QuestRow \cup {None}
BY DEF FlushQuest, Column, QuestRow

LEMMA ProgressCodesType ==
    ASSUME NEW qs \in [Codes -> QuestRow], NEW codes
    PROVE  ProgressCodes(qs, codes) \in [Codes -> QuestRow]
BY ProgressQuestType DEF ProgressCodes

LEMMA LoadQuestsType ==
    ASSUME TypeOK,
           NEW loaded \in [Codes -> QuestRow \cup {None}], NEW day \in Days
    PROVE  LoadQuests(loaded, day) \in [Codes -> QuestRow \cup {None}]
BY DEF LoadQuests, TypeOK

(***************************************************************************)
(* What is known of a handler in flight.                                   *)
(***************************************************************************)

\* its request and its identity map are there, and it has loaded the
\* quests of its day before it settles on them
WellFormed(r) ==
    /\ pc[r] = "idle" => op[r] = None
    /\ pc[r] # "idle" => op[r] \in Op /\ snap[r] \in Snapshot
    /\ pc[r] \in {"lock", "recover"}
          => op[r].kind = "complete" /\ op[r].replay = FALSE
    /\ pc[r] # "idle" /\ op[r].kind = "complete"
          => op[r].key \in Keys /\ op[r].take \in Takes
    /\ pc[r] # "idle" /\ op[r].replay => op[r].kind = "complete"
    /\ pc[r] = "settle"
       /\ (op[r].kind # "complete" \/ op[r].replay \/ Eligible(op[r].take))
          => snap[r].quests \in [Codes -> QuestRow]

AllWellFormed == \A r \in Requests : WellFormed(r)

LEMMA AuthenticateType ==
    ASSUME TypeOK, AllWellFormed, NEW r \in Requests, NEW o \in Op,
           NEW label \in {"lock", "ensure"}, Authenticate(r, o, label),
           label = "lock" => o.kind = "complete",
           o.kind = "complete" => o.key \in Keys /\ o.take \in Takes,
           o.replay = FALSE
    PROVE  TypeOK' /\ AllWellFormed'
<1>1. o.day \in Days
  BY DEF Op
<1>2. [account |-> account, quests |-> quests[o.day]] \in Snapshot
  BY <1>1 DEF TypeOK, Snapshot
<1>3. TypeOK'
  BY <1>2 DEF TypeOK, Authenticate, Goto, db, locks
<1>4. ASSUME NEW q \in Requests PROVE WellFormed(q)'
  <2>1. CASE q = r
    BY <1>2, <2>1 DEF TypeOK, WellFormed, Authenticate, Goto
  <2>2. CASE q # r
    BY <2>2 DEF TypeOK, AllWellFormed, WellFormed, Authenticate, Goto
  <2>3. QED
    BY <2>1, <2>2
<1>5. QED
  BY <1>3, <1>4 DEF AllWellFormed

LEMMA FinishWellFormed ==
    ASSUME TypeOK, AllWellFormed, NEW r \in Requests, Finish(r)
    PROVE  AllWellFormed'
BY DEF TypeOK, AllWellFormed, WellFormed, Finish

\* A handler that ends without writing keeps the types.
LEMMA AbortType ==
    ASSUME TypeOK, AllWellFormed, NEW r \in Requests,
           Release(r) \/ UNCHANGED locks, Finish(r),
           UNCHANGED <<dialect, today, tier, db>>
    PROVE  TypeOK' /\ AllWellFormed'
<1>1. AllWellFormed'
  BY FinishWellFormed
<1>2. TypeOK'
  BY DEF TypeOK, Finish, Release, db, locks
<1>3. QED
  BY <1>1, <1>2

LEMMA ArriveType ==
    ASSUME TypeOK, AllWellFormed, NEW r \in Requests, Arrive(r)
    PROVE  TypeOK' /\ AllWellFormed'
<1>1. ASSUME NEW k \in Keys, NEW t \in Takes, PostComplete(r, k, t)
      PROVE  TypeOK' /\ AllWellFormed'
  <2>1. OpOf("complete", k, t) \in Op
    BY DEF OpOf, Op, Kinds, TypeOK
  <2>2. QED
    BY <1>1, <2>1, AuthenticateType DEF PostComplete, OpOf
<1>2. OpOf("review", None, None) \in Op /\ OpOf("quests", None, None) \in Op
  BY DEF OpOf, Op, Kinds, TypeOK
<1>3. ASSUME PostReview(r) PROVE TypeOK' /\ AllWellFormed'
  BY <1>2, <1>3, AuthenticateType DEF PostReview, OpOf
<1>4. ASSUME GetQuests(r) PROVE TypeOK' /\ AllWellFormed'
  BY <1>2, <1>4, AuthenticateType DEF GetQuests, OpOf
<1>5. QED
  BY <1>1, <1>3, <1>4 DEF Arrive

\* The steps up to the moment a handler has its quests.
LEMMA LockStepType ==
    ASSUME TypeOK, AllWellFormed, NEW r \in Requests,
           FirstCompletion(r) \/ Replay(r) \/ RecoverByReplay(r)
    PROVE  TypeOK' /\ AllWellFormed'
<1>1. pc[r] \in {"lock", "recover"} /\ op[r] \in Op /\ op[r].kind = "complete"
      /\ op[r].replay = FALSE
      /\ op[r].key \in Keys /\ op[r].take \in Takes /\ snap[r] \in Snapshot
  BY DEF FirstCompletion, Replay, RecoverByReplay, HasLock, AllWellFormed,
         WellFormed
<1>2. [op[r] EXCEPT !.replay = TRUE] \in Op
  BY <1>1 DEF Op
<1>3. [account |-> account, quests |-> quests[op[r].day]] \in Snapshot
  BY <1>1 DEF TypeOK, Snapshot, Op
<1>4. holder' \in Requests \cup {None}
  BY DEF FirstCompletion, Replay, RecoverByReplay, LockUser, TypeOK
<1>5. TypeOK'
  <2>1. CASE FirstCompletion(r)
    BY <1>4, <2>1 DEF TypeOK, FirstCompletion, Goto, db
  <2>2. CASE Replay(r)
    BY <1>2, <1>4, <2>2 DEF TypeOK, Replay, Goto, db
  <2>3. CASE RecoverByReplay(r)
    BY <1>2, <1>3, <1>4, <2>3 DEF TypeOK, RecoverByReplay, Goto, db
  <2>4. QED
    BY <2>1, <2>2, <2>3
<1>6. ASSUME NEW q \in Requests PROVE WellFormed(q)'
  <2>1. CASE q # r
    BY <2>1 DEF TypeOK, AllWellFormed, WellFormed, FirstCompletion, Replay,
                RecoverByReplay, Goto
  <2>2. CASE q = r /\ FirstCompletion(r)
    BY <1>1, <2>2 DEF TypeOK, WellFormed, AllWellFormed, FirstCompletion,
                      HasLock, Goto
  <2>3. CASE q = r /\ Replay(r)
    BY <1>1, <1>2, <2>3 DEF TypeOK, WellFormed, Replay, Goto, Op
  <2>4. CASE q = r /\ RecoverByReplay(r)
    BY <1>1, <1>2, <1>3, <2>4 DEF TypeOK, WellFormed, RecoverByReplay, Goto, Op
  <2>5. QED
    BY <2>1, <2>2, <2>3, <2>4
<1>7. QED
  BY <1>5, <1>6 DEF AllWellFormed

LEMMA EnsureStepType ==
    ASSUME TypeOK, AllWellFormed, NEW r \in Requests,
           QuestsExist(r) \/ PlaceQuests(r) \/ CheckForeignKey(r)
    PROVE  TypeOK' /\ AllWellFormed'
<1>1. pc[r] \in {"ensure", "fk"} /\ op[r] \in Op /\ snap[r] \in Snapshot
      /\ op[r].day \in Days /\ snap[r].quests \in [Codes -> QuestRow \cup {None}]
  BY DEF QuestsExist, PlaceQuests, CheckForeignKey, AllWellFormed, WellFormed,
         Op, Snapshot
<1>2. [c \in Codes |-> FreshQuest] \in [Codes -> QuestRow]
  BY DEF FreshQuest, QuestRow
<1>3. ASSUME QuestsExist(r)
      PROVE  LoadQuests(snap[r].quests, op[r].day) \in [Codes -> QuestRow]
  <2>1. LoadQuests(snap[r].quests, op[r].day) \in [Codes -> QuestRow \cup {None}]
    BY <1>1, LoadQuestsType
  <2>2. \A c \in Codes : LoadQuests(snap[r].quests, op[r].day)[c] # None
    BY <1>3 DEF QuestsExist, Missing
  <2>3. QED
    BY <2>1, <2>2
<1>4. ASSUME NEW qs \in [Codes -> QuestRow]
      PROVE  [snap[r] EXCEPT !.quests = qs] \in Snapshot
  BY <1>1 DEF Snapshot
<1>5. TypeOK'
  <2>1. CASE QuestsExist(r)
    BY <1>3, <1>4, <2>1 DEF TypeOK, QuestsExist, WithQuests, Goto, db, locks
  <2>2. CASE PlaceQuests(r) /\ dialect = "postgresql"
    BY <1>1, <2>2 DEF TypeOK, PlaceQuests, Goto, db
  <2>3. CASE PlaceQuests(r) /\ dialect # "postgresql"
    BY <1>1, <1>2, <1>4, <2>3 DEF TypeOK, PlaceQuests, WithQuests, Goto, db
  <2>4. CASE CheckForeignKey(r)
    BY <1>2, <1>4, <2>4 DEF TypeOK, CheckForeignKey, WithQuests, Goto, db
  <2>5. QED
    BY <2>1, <2>2, <2>3, <2>4
<1>6. ASSUME NEW q \in Requests PROVE WellFormed(q)'
  <2>1. CASE q # r
    BY <2>1 DEF TypeOK, AllWellFormed, WellFormed, QuestsExist, PlaceQuests,
                CheckForeignKey, WithQuests, Goto
  <2>2. CASE q = r /\ QuestsExist(r)
    BY <1>1, <1>3, <1>4, <2>2
    DEF TypeOK, WellFormed, AllWellFormed, QuestsExist, WithQuests, Goto,
        Snapshot
  <2>3. CASE q = r /\ PlaceQuests(r) /\ dialect = "postgresql"
    BY <1>1, <2>3 DEF TypeOK, WellFormed, AllWellFormed, PlaceQuests, Goto
  <2>4. CASE q = r /\ PlaceQuests(r) /\ dialect # "postgresql"
    BY <1>1, <1>2, <1>4, <2>4
    DEF TypeOK, WellFormed, AllWellFormed, PlaceQuests, WithQuests, Goto,
        Snapshot
  <2>5. CASE q = r /\ CheckForeignKey(r)
    BY <1>1, <1>2, <1>4, <2>5
    DEF TypeOK, WellFormed, AllWellFormed, CheckForeignKey, WithQuests, Goto,
        Snapshot
  <2>6. QED
    BY <2>1, <2>2, <2>3, <2>4, <2>5
<1>7. QED
  BY <1>5, <1>6 DEF AllWellFormed

LEMMA LoseInsertType ==
    ASSUME TypeOK, AllWellFormed, NEW r \in Requests, LoseInsert(r)
    PROVE  TypeOK' /\ AllWellFormed'
<1>1. TypeOK'
  BY DEF TypeOK, LoseInsert, Release, Goto, db
<1>2. AllWellFormed'
  BY DEF TypeOK, AllWellFormed, WellFormed, LoseInsert, Goto, Op
<1>3. QED
  BY <1>1, <1>2

LEMMA FlushQuestsType ==
    ASSUME TypeOK, AllWellFormed, NEW r \in Requests, pc[r] = "settle",
           NEW new \in [Codes -> QuestRow \cup {None}],
           \A c \in Codes : snap[r].quests[c] # None => new[c] \in QuestRow
    PROVE  FlushQuests(r, new) \in [Days -> [Codes -> QuestRow \cup {None}]]
<1>1. op[r].day \in Days /\ snap[r].quests \in [Codes -> QuestRow \cup {None}]
  BY DEF AllWellFormed, WellFormed, Op, Snapshot
<1>2. ASSUME NEW c \in Codes
      PROVE  FlushQuest(quests[op[r].day][c], snap[r].quests[c], new[c])
                \in QuestRow \cup {None}
  <2>1. quests[op[r].day][c] \in QuestRow \cup {None}
    BY <1>1 DEF TypeOK
  <2>2. QED
    BY <1>1, <2>1, FlushQuestType
<1>3. QED
  BY <1>1, <1>2 DEF FlushQuests, TypeOK

LEMMA CommitReadType ==
    ASSUME TypeOK, AllWellFormed, NEW r \in Requests, CommitRead(r)
    PROVE  TypeOK' /\ AllWellFormed'
<1>1. AllWellFormed'
  BY FinishWellFormed DEF CommitRead
<1>2. pc[r] = "settle" /\ snap[r].quests \in [Codes -> QuestRow]
  BY DEF CommitRead, AllWellFormed, WellFormed
<1>3. quests' \in [Days -> [Codes -> QuestRow \cup {None}]]
  BY <1>2, FlushQuestsType DEF CommitRead
<1>4. TypeOK'
  BY <1>3 DEF TypeOK, CommitRead, ReadOnly, Finish, Release
<1>5. QED
  BY <1>1, <1>4

LEMMA PaidType ==
    ASSUME TypeOK, NEW day \in Days, NEW paid
    PROVE  [events.paid EXCEPT ![day] =
               [c \in Codes |-> IF c \in paid THEN @[c] + 1 ELSE @[c]]]
              \in [Days -> [Codes -> Nat]]
<1>1. events.paid \in [Days -> [Codes -> Nat]]
  BY DEF TypeOK, Events
<1>2. [c \in Codes |-> IF c \in paid THEN events.paid[day][c] + 1
                       ELSE events.paid[day][c]] \in [Codes -> Nat]
  BY <1>1
<1>3. QED
  BY <1>1, <1>2

LEMMA CommitReviewType ==
    ASSUME TypeOK, AllWellFormed, NEW r \in Requests, CommitReview(r)
    PROVE  TypeOK' /\ AllWellFormed'
<1> DEFINE day == op[r].day
           paid == NewlyCompleted(snap[r].quests, {"vocab_10"})
           xp == QuestXp(paid)
           reviewed == [snap[r].account EXCEPT !.reps = @ + 1]
           new == IF xp > 0 THEN ApplySessionXp(reviewed, xp, day) ELSE reviewed
           newQuests == ProgressCodes(snap[r].quests, {"vocab_10"})
<1>1. AllWellFormed'
  BY FinishWellFormed DEF CommitReview
<1>2. /\ pc[r] = "settle" /\ snap[r].quests \in [Codes -> QuestRow]
      /\ day \in Days /\ snap[r].account \in Account
  BY DEF CommitReview, AllWellFormed, WellFormed, Op, Snapshot
<1>3. xp \in Nat
  BY QuestXpIsNat
<1>4. reviewed \in Account
  BY <1>2 DEF Account
<1>5. new \in Account
  BY <1>2, <1>3, <1>4, ApplySessionXpType
<1>6. FlushAccount(account, snap[r].account, new) \in Account
  BY <1>2, <1>5, FlushAccountType DEF TypeOK
<1>7. FlushQuests(r, newQuests) \in [Days -> [Codes -> QuestRow \cup {None}]]
  BY <1>2, ProgressCodesType, FlushQuestsType
<1> HIDE DEF paid, xp, reviewed, new, newQuests
<1>8. [events EXCEPT
         !.paid[day] = [c \in Codes |-> IF c \in paid THEN @[c] + 1 ELSE @[c]],
         !.reviewed[day] = @ + 1,
         !.xp = @ + xp,
         !.xpOn[day] = @ + xp] \in Events
  <2>1. [events.paid EXCEPT ![day] =
            [c \in Codes |-> IF c \in paid THEN @[c] + 1 ELSE @[c]]]
           \in [Days -> [Codes -> Nat]]
    BY <1>2, PaidType
  <2>2. /\ [events.reviewed EXCEPT ![day] = @ + 1] \in [Days -> Nat]
        /\ [events.xpOn EXCEPT ![day] = @ + xp] \in [Days -> Nat]
        /\ events.xp + xp \in Nat
    BY <1>2, <1>3 DEF TypeOK, Events
  <2>3. QED
    BY <2>1, <2>2 DEF TypeOK, Events
<1>9. account' \in Account /\ events' \in Events
      /\ quests' \in [Days -> [Codes -> QuestRow \cup {None}]]
  BY <1>6, <1>7, <1>8
  DEF CommitReview, paid, xp, reviewed, new, newQuests
<1>10. TypeOK'
  BY <1>9 DEF TypeOK, CommitReview, Finish, Release
<1>11. QED
  BY <1>1, <1>10

LEMMA CommitCompletionType ==
    ASSUME TypeOK, AllWellFormed, NEW r \in Requests, CommitCompletion(r)
    PROVE  TypeOK' /\ AllWellFormed'
<1> DEFINE t == op[r].take
           day == op[r].day
           loaded == LoadedAccount(r)
           codes == IF Eligible(t) THEN SessionCodes ELSE {}
           paid == NewlyCompleted(snap[r].quests, codes)
           newQuests == ProgressCodes(snap[r].quests, codes)
           new == CompletedAccount(loaded, t, day, QuestXp(paid))
           sessionXp == SessionXp(t, new.streak_count)
           xp == sessionXp + QuestXp(paid)
           stored == [sessions EXCEPT ![op[r].key] =
                         [take |-> t, session_xp |-> sessionXp,
                          quest_xp |-> QuestXp(paid), day |-> day]]
           won == IF Eligible(t)
                  THEN NewBadges(new, Cardinality(EligibleSessions(stored)),
                                 newQuests)
                  ELSE {}
<1>1. AllWellFormed'
  BY FinishWellFormed DEF CommitCompletion
<1>2. /\ pc[r] = "settle" /\ day \in Days /\ t \in Takes
      /\ op[r].key \in Keys
      /\ snap[r].account \in Account
      /\ snap[r].quests \in [Codes -> QuestRow \cup {None}]
      /\ Eligible(t) => snap[r].quests \in [Codes -> QuestRow]
  BY DEF CommitCompletion, AllWellFormed, WellFormed, Op, Snapshot
<1>3. loaded \in Account
  BY <1>2 DEF LoadedAccount, Account, TypeOK
<1>4. QuestXp(paid) \in Nat
  BY QuestXpIsNat
<1>5. new \in Account
  BY <1>2, <1>3, <1>4, CompletedAccountType
<1>6. sessionXp \in Nat
  <2>1. new.streak_count \in Nat
    BY <1>5 DEF Account
  <2>2. QED
    BY <1>2, <2>1, SessionXpIsNat
<1>7. xp \in Nat
  BY <1>4, <1>6
<1>8. FlushAccount(account, loaded, new) \in Account
  BY <1>3, <1>5, FlushAccountType DEF TypeOK
<1>9. FlushQuests(r, newQuests) \in [Days -> [Codes -> QuestRow \cup {None}]]
  <2>1. CASE Eligible(t)
    BY <1>2, <2>1, ProgressCodesType, FlushQuestsType
  <2>2. CASE ~Eligible(t)
    <3>1. newQuests = snap[r].quests
      BY <1>2, <2>2 DEF ProgressCodes
    <3>2. QED
      BY <1>2, <3>1, FlushQuestsType
  <2>3. QED
    BY <2>1, <2>2
<1> HIDE DEF loaded, codes, paid, newQuests, new, sessionXp, xp, won
<1>10. stored \in [Keys -> SessionRow \cup {None}]
  BY <1>2, <1>4, <1>6 DEF TypeOK, SessionRow
<1>11. won \subseteq Badges
  BY DEF won, NewBadges, EarnedBadges
<1>12. [events EXCEPT
          !.completed[op[r].key] = @ + 1,
          !.paid[day] = [c \in Codes |-> IF c \in paid THEN @[c] + 1 ELSE @[c]],
          !.badge = [b \in Badges |-> IF b \in won THEN @[b] + 1 ELSE @[b]],
          !.xp = @ + xp,
          !.xpOn[day] = @ + xp] \in Events
  <2>1. [events.paid EXCEPT ![day] =
            [c \in Codes |-> IF c \in paid THEN @[c] + 1 ELSE @[c]]]
           \in [Days -> [Codes -> Nat]]
    BY <1>2, PaidType
  <2>2. /\ [events.completed EXCEPT ![op[r].key] = @ + 1] \in [Keys -> Nat]
        /\ [b \in Badges |-> IF b \in won THEN events.badge[b] + 1
                             ELSE events.badge[b]] \in [Badges -> Nat]
    BY <1>2 DEF TypeOK, Events
  <2>3. /\ [events.xpOn EXCEPT ![day] = @ + xp] \in [Days -> Nat]
        /\ events.xp + xp \in Nat
    BY <1>2, <1>7 DEF TypeOK, Events
  <2>4. QED
    BY <2>1, <2>2, <2>3 DEF TypeOK, Events
<1> HIDE DEF stored
<1>13. /\ account' = FlushAccount(account, loaded, new)
       /\ quests' = FlushQuests(r, newQuests)
       /\ sessions' = stored
       /\ badges' = badges \cup won
       /\ evidence' = IF Eligible(t) /\ t.unit THEN evidence \cup {op[r].key}
                      ELSE evidence
       /\ events' =
            [events EXCEPT
               !.completed[op[r].key] = @ + 1,
               !.paid[day] = [c \in Codes |-> IF c \in paid THEN @[c] + 1
                                              ELSE @[c]],
               !.badge = [b \in Badges |-> IF b \in won THEN @[b] + 1
                                           ELSE @[b]],
               !.xp = @ + xp,
               !.xpOn[day] = @ + xp]
  BY DEF CommitCompletion, loaded, codes, paid, newQuests, new, sessionXp, xp,
         won, stored
<1>14. TypeOK'
  BY <1>2, <1>8, <1>9, <1>10, <1>11, <1>12, <1>13
  DEF TypeOK, CommitCompletion, Finish, Release
<1>15. QED
  BY <1>1, <1>14

LEMMA NextType ==
    ASSUME TypeOK, AllWellFormed, [Next]_vars
    PROVE  TypeOK' /\ AllWellFormed'
<1>1. ASSUME NEW r \in Requests, Arrive(r) PROVE TypeOK' /\ AllWellFormed'
  BY <1>1, ArriveType
<1>2. ASSUME NEW r \in Requests, Progress(r) PROVE TypeOK' /\ AllWellFormed'
  <2>1. CASE FirstCompletion(r) \/ Replay(r) \/ RecoverByReplay(r)
    BY <2>1, LockStepType
  <2>2. CASE ScenarioNotFound(r)
    BY <2>2, AbortType DEF ScenarioNotFound
  <2>3. CASE SessionConflict(r)
    BY <2>3, AbortType DEF SessionConflict
  <2>4. CASE QuestsExist(r) \/ PlaceQuests(r) \/ CheckForeignKey(r)
    BY <2>4, EnsureStepType
  <2>5. CASE DeadlockVictim(r)
    BY <2>5, AbortType DEF DeadlockVictim
  <2>6. CASE CommitCompletion(r)
    BY <2>6, CommitCompletionType
  <2>7. CASE LoseInsert(r)
    BY <2>7, LoseInsertType
  <2>8. CASE CommitRead(r)
    BY <2>8, CommitReadType
  <2>9. CASE CommitReview(r)
    BY <2>9, CommitReviewType
  <2>10. QED
    BY <1>2, <2>1, <2>2, <2>3, <2>4, <2>5, <2>6, <2>7, <2>8, <2>9 DEF Progress
<1>3. ASSUME NEW r \in Requests, Fail(r) PROVE TypeOK' /\ AllWellFormed'
  BY <1>3, AbortType DEF Fail
<1>4. CASE NextDay
  <2>1. today' \in Days
    BY <1>4, CompletionAssumption DEF CompletionAssumption, NextDay, TypeOK, Days
  <2>2. QED
    BY <1>4, <2>1 DEF NextDay, TypeOK, AllWellFormed, WellFormed, db, locks
<1>5. CASE Upgrade
  BY <1>5 DEF Upgrade, TypeOK, AllWellFormed, WellFormed, db, locks
<1>6. CASE UNCHANGED vars
  BY <1>6 DEF vars, TypeOK, AllWellFormed, WellFormed, db, locks
<1>7. QED
  BY <1>1, <1>2, <1>3, <1>4, <1>5, <1>6 DEF Next

LEMMA InitType == ASSUME Init PROVE TypeOK /\ AllWellFormed
<1>1. 0 \in Days /\ NewAccount \in Account
  BY CompletionAssumption
  DEF CompletionAssumption, Days, NewAccount, Account
<1>2. NoEvents \in Events
  BY DEF NoEvents, Events
<1>3. TypeOK
  BY <1>1, <1>2 DEF Init, TypeOK
<1>4. AllWellFormed
  BY DEF Init, AllWellFormed, WellFormed
<1>5. QED
  BY <1>3, <1>4

\* Every variable keeps its type, and with it: XP totals, streaks, quest
\* progress and event counts are never negative or missing.
THEOREM TypeCorrect == Spec => []TypeOK
<1>1. Init => TypeOK /\ AllWellFormed
  BY InitType
<1>2. TypeOK /\ AllWellFormed /\ [Next]_vars => TypeOK' /\ AllWellFormed'
  BY NextType
<1>3. QED
  BY <1>1, <1>2, PTL DEF Spec

(***************************************************************************)
(* The row lock excludes the insert race.                                  *)
(***************************************************************************)

\* On postgresql a completion past its lookup holds the users row; if it
\* found no session under its key there is still none, and if it replays
\* one, that is the session its payload describes.
LockDiscipline(r) ==
    dialect = "postgresql" =>
        /\ pc[r] # "recover"
        /\ pc[r] \in {"ensure", "fk", "settle"} /\ op[r].kind = "complete"
              => /\ holder = r
                 /\ ~op[r].replay => sessions[op[r].key] = None
        /\ pc[r] # "idle" /\ op[r].replay
              => /\ sessions[op[r].key] # None
                 /\ SameSession(sessions[op[r].key].take, op[r].take)

\* Off postgresql a completion that lost its insert finds the winner's row.
LoserFindsRow(r) ==
    pc[r] = "recover" => sessions[op[r].key] # None

Disciplined == \A r \in Requests : LockDiscipline(r) /\ LoserFindsRow(r)

LEMMA CommitStores ==
    ASSUME TypeOK, AllWellFormed, NEW r \in Requests, CommitCompletion(r)
    PROVE  /\ sessions[op[r].key] = None /\ sessions'[op[r].key] # None
           /\ \A k \in Keys : k # op[r].key => sessions'[k] = sessions[k]
<1> DEFINE t == op[r].take
           loaded == LoadedAccount(r)
           codes == IF Eligible(t) THEN SessionCodes ELSE {}
           paid == NewlyCompleted(snap[r].quests, codes)
           new == CompletedAccount(loaded, t, op[r].day, QuestXp(paid))
           row == [take |-> t, session_xp |-> SessionXp(t, new.streak_count),
                   quest_xp |-> QuestXp(paid), day |-> op[r].day]
<1>1. /\ sessions[op[r].key] = None
      /\ sessions' = [sessions EXCEPT ![op[r].key] = row]
  BY DEF CommitCompletion
<1>2. op[r].key \in Keys /\ t \in Takes
  BY DEF CommitCompletion, AllWellFormed, WellFormed
<1> HIDE DEF row
<1>3. row # None
  <2>1. snap[r].account \in Account /\ op[r].day \in Days
    BY DEF CommitCompletion, AllWellFormed, WellFormed, Snapshot, Op
  <2>2. loaded \in Account
    BY <2>1 DEF LoadedAccount, Account, TypeOK
  <2>3. new \in Account
    BY <1>2, <2>1, <2>2, QuestXpIsNat, CompletedAccountType
  <2>4. new.streak_count \in Nat
    BY <2>3 DEF Account
  <2>5. SessionXp(t, new.streak_count) \in Nat /\ QuestXp(paid) \in Nat
    BY <1>2, <2>4, SessionXpIsNat, QuestXpIsNat
  <2>6. row \in SessionRow
    BY <1>2, <2>1, <2>5 DEF row, SessionRow
  <2>7. QED
    BY <2>6, NoneIsNoRow DEF NoneIsNoRow
<1>4. QED
  BY <1>1, <1>2, <1>3 DEF TypeOK

\* A step stores at most the session of the completion that commits.
LEMMA StoredStays ==
    ASSUME TypeOK, AllWellFormed, [Next]_vars, NEW k \in Keys,
           sessions[k] # None
    PROVE  sessions'[k] = sessions[k]
<1>1. CASE \E r \in Requests : CommitCompletion(r)
  BY <1>1, CommitStores
<1>2. CASE UNCHANGED sessions
  BY <1>2
<1>3. QED
  BY <1>1, <1>2
  DEF Next, Arrive, Progress, PostComplete, PostReview, GetQuests, Authenticate,
      FirstCompletion, ScenarioNotFound, Replay, SessionConflict, QuestsExist,
      PlaceQuests, CheckForeignKey, DeadlockVictim, LoseInsert,
      RecoverByReplay, CommitRead, ReadOnly, CommitReview, Fail, NextDay,
      Upgrade, vars, db

\* A handler that r's step does not concern keeps its discipline, as long as
\* the lock it may hold stays with it.
LEMMA OthersKeepDiscipline ==
    ASSUME TypeOK, AllWellFormed, Disciplined, [Next]_vars,
           NEW q \in Requests,
           pc'[q] = pc[q], op'[q] = op[q], dialect' = dialect,
           holder = q => holder' = q,
           ~ \E k \in Keys : /\ sessions[k] = None /\ sessions'[k] # None
                             /\ dialect = "postgresql" /\ holder = q
    PROVE  (LockDiscipline(q) /\ LoserFindsRow(q))'
<1>1. pc[q] # "idle" /\ op[q].kind = "complete" => op[q].key \in Keys
  BY DEF AllWellFormed, WellFormed
<1>2. pc[q] # "idle" /\ op[q].replay => op[q].kind = "complete"
  BY DEF AllWellFormed, WellFormed
<1>3. pc[q] = "recover" => op[q].kind = "complete"
  BY DEF AllWellFormed, WellFormed
<1>4. LockDiscipline(q) /\ LoserFindsRow(q)
  BY DEF Disciplined
<1>5. QED
  BY <1>1, <1>2, <1>3, <1>4, StoredStays DEF LockDiscipline, LoserFindsRow

\* A step that leaves the stored sessions alone, and no lock but r's own.
LEMMA StepKeepsDiscipline ==
    ASSUME TypeOK, AllWellFormed, Disciplined, [Next]_vars,
           NEW r \in Requests, UNCHANGED <<dialect, sessions>>,
           \A q \in Requests \ {r} :
               /\ pc'[q] = pc[q] /\ op'[q] = op[q]
               /\ dialect = "postgresql" /\ holder = q => holder' = q,
           (LockDiscipline(r) /\ LoserFindsRow(r))'
    PROVE  Disciplined'
<1>1. ASSUME NEW q \in Requests, q # r
      PROVE  (LockDiscipline(q) /\ LoserFindsRow(q))'
  <2>1. LockDiscipline(q) /\ LoserFindsRow(q)
    BY DEF Disciplined
  <2>2. pc'[q] = pc[q] /\ op'[q] = op[q]
    BY <1>1
  <2>3. dialect = "postgresql" /\ holder = q => holder' = q
    BY <1>1
  <2>4. QED
    BY <2>1, <2>2, <2>3 DEF LockDiscipline, LoserFindsRow
<1>2. QED
  BY <1>1 DEF Disciplined

LEMMA FinishKeepsDiscipline ==
    ASSUME TypeOK, AllWellFormed, Disciplined, [Next]_vars,
           NEW r \in Requests, UNCHANGED <<dialect, sessions>>,
           Release(r) \/ UNCHANGED locks, Finish(r)
    PROVE  Disciplined'
<1>1. \A q \in Requests \ {r} :
          /\ pc'[q] = pc[q] /\ op'[q] = op[q]
          /\ dialect = "postgresql" /\ holder = q => holder' = q
  BY DEF Finish, Release, TypeOK, locks
<1>2. pc'[r] = "idle"
  BY DEF Finish, TypeOK
<1>3. (LockDiscipline(r) /\ LoserFindsRow(r))'
  BY <1>2 DEF LockDiscipline, LoserFindsRow
<1>4. QED
  BY <1>1, <1>3, StepKeepsDiscipline

\* The lock is taken, or kept, by the handler whose step it is.
LEMMA LockStepKeepsDiscipline ==
    ASSUME TypeOK, AllWellFormed, Disciplined, [Next]_vars,
           NEW r \in Requests,
           FirstCompletion(r) \/ Replay(r) \/ RecoverByReplay(r)
    PROVE  Disciplined'
<1>1. UNCHANGED <<dialect, sessions>>
  BY DEF FirstCompletion, Replay, RecoverByReplay, db
<1>2. dialect = "postgresql" => holder \in {None, r} /\ holder' = r
  BY DEF FirstCompletion, Replay, RecoverByReplay, HasLock, CanLockUser,
         LockUser
<1>3. r # None
  BY CompletionAssumption DEF CompletionAssumption
<1>4. \A q \in Requests \ {r} :
          /\ pc'[q] = pc[q] /\ op'[q] = op[q]
          /\ dialect = "postgresql" /\ holder = q => holder' = q
  <2>1. \A q \in Requests \ {r} : pc'[q] = pc[q] /\ op'[q] = op[q]
    BY DEF FirstCompletion, Replay, RecoverByReplay, Goto, TypeOK
  <2>2. \A q \in Requests : q # None
    BY CompletionAssumption DEF CompletionAssumption
  <2>3. QED
    BY <1>2, <2>1, <2>2
<1>5. (LockDiscipline(r) /\ LoserFindsRow(r))'
  <2>1. CASE FirstCompletion(r)
    <3>1. pc'[r] \in {"ensure", "settle"} /\ op'[r] = op[r]
          /\ sessions[op[r].key] = None /\ op[r].replay = FALSE
      BY <2>1 DEF FirstCompletion, HasLock, Goto, TypeOK, AllWellFormed,
                  WellFormed
    <3>2. QED
      BY <1>1, <1>2, <3>1 DEF LockDiscipline, LoserFindsRow
  <2>2. CASE Replay(r)
    <3>1. op[r] \in Op
      BY <2>2 DEF Replay, HasLock, AllWellFormed, WellFormed
    <3>2. pc'[r] = "ensure" /\ op'[r].key = op[r].key
          /\ op'[r].take = op[r].take /\ op'[r].replay = TRUE
      BY <2>2, <3>1 DEF Replay, Goto, TypeOK, Op
    <3>3. /\ sessions[op[r].key] # None
          /\ SameSession(sessions[op[r].key].take, op[r].take)
      BY <2>2 DEF Replay
    <3>4. QED
      BY <1>1, <1>2, <3>2, <3>3 DEF LockDiscipline, LoserFindsRow
  <2>3. CASE RecoverByReplay(r)
    <3>1. dialect # "postgresql"
      BY <2>3 DEF RecoverByReplay, Disciplined, LockDiscipline
    <3>2. pc'[r] = "ensure"
      BY <2>3 DEF RecoverByReplay, Goto, TypeOK
    <3>3. QED
      BY <1>1, <3>1, <3>2 DEF LockDiscipline, LoserFindsRow
  <2>4. QED
    BY <2>1, <2>2, <2>3
<1>6. QED
  BY <1>1, <1>4, <1>5, StepKeepsDiscipline

\* Arrival and the creation of the quests leave the lock where it is; off
\* postgresql there is no discipline to keep.
LEMMA QuestStepKeepsDiscipline ==
    ASSUME TypeOK, AllWellFormed, Disciplined, [Next]_vars,
           NEW r \in Requests,
           QuestsExist(r) \/ PlaceQuests(r) \/ CheckForeignKey(r)
    PROVE  Disciplined'
<1>1. /\ UNCHANGED <<dialect, sessions, op>>
      /\ dialect = "postgresql" => holder' = holder
  BY DEF QuestsExist, PlaceQuests, CheckForeignKey, db, locks
<1>2. /\ \A q \in Requests \ {r} : pc'[q] = pc[q]
      /\ pc[r] \in {"ensure", "fk"} /\ pc'[r] \in {"fk", "settle"}
  BY DEF QuestsExist, PlaceQuests, CheckForeignKey, Goto, TypeOK
<1>3. (LockDiscipline(r) /\ LoserFindsRow(r))'
  BY <1>1, <1>2 DEF Disciplined, LockDiscipline, LoserFindsRow
<1>4. QED
  BY <1>1, <1>2, <1>3, StepKeepsDiscipline

LEMMA ArriveKeepsDiscipline ==
    ASSUME TypeOK, AllWellFormed, Disciplined, [Next]_vars,
           NEW r \in Requests, Arrive(r)
    PROVE  Disciplined'
<1>1. /\ UNCHANGED <<dialect, sessions, holder>>
      /\ \A q \in Requests \ {r} : pc'[q] = pc[q] /\ op'[q] = op[q]
  BY DEF Arrive, PostComplete, PostReview, GetQuests, Authenticate, Goto, db,
         locks, TypeOK
<1>2. PICK o, label : /\ Authenticate(r, o, label)
                      /\ o.replay = FALSE /\ label \in {"lock", "ensure"}
                      /\ o.kind = "complete" => label = "lock"
  <2>1. ASSUME NEW k \in Keys, NEW t \in Takes, PostComplete(r, k, t)
        PROVE  /\ Authenticate(r, OpOf("complete", k, t), "lock")
               /\ OpOf("complete", k, t).replay = FALSE
    BY <2>1 DEF PostComplete, OpOf
  <2>2. /\ OpOf("review", None, None).replay = FALSE
        /\ OpOf("review", None, None).kind # "complete"
        /\ OpOf("quests", None, None).replay = FALSE
        /\ OpOf("quests", None, None).kind # "complete"
    BY DEF OpOf
  <2>3. CASE \E k \in Keys, t \in Takes : PostComplete(r, k, t)
    BY <2>1, <2>3
  <2>4. CASE PostReview(r)
    BY <2>2, <2>4 DEF PostReview
  <2>5. CASE GetQuests(r)
    BY <2>2, <2>5 DEF GetQuests
  <2>6. QED
    BY <2>3, <2>4, <2>5 DEF Arrive
<1>3. op'[r] = o /\ pc'[r] = label
  BY <1>2 DEF Authenticate, Goto, TypeOK
<1>4. (LockDiscipline(r) /\ LoserFindsRow(r))'
  BY <1>2, <1>3 DEF LockDiscipline, LoserFindsRow
<1>5. QED
  BY <1>1, <1>4, StepKeepsDiscipline

LEMMA LoseInsertKeepsDiscipline ==
    ASSUME TypeOK, AllWellFormed, Disciplined, [Next]_vars,
           NEW r \in Requests, LoseInsert(r)
    PROVE  Disciplined'
<1>1. /\ UNCHANGED <<dialect, sessions, op>>
      /\ sessions[op[r].key] # None
      /\ pc[r] = "settle" /\ op[r].kind = "complete" /\ ~op[r].replay
  BY DEF LoseInsert, db
<1>2. dialect # "postgresql"
  BY <1>1 DEF Disciplined, LockDiscipline
<1>3. \A q \in Requests \ {r} : pc'[q] = pc[q]
  BY DEF LoseInsert, Goto, TypeOK
<1>4. (LockDiscipline(r) /\ LoserFindsRow(r))'
  BY <1>1, <1>2 DEF LockDiscipline, LoserFindsRow
<1>5. QED
  BY <1>1, <1>2, <1>3, <1>4, StepKeepsDiscipline

\* The commit that stores a session holds the lock: no other completion is
\* past its lookup.
LEMMA CommitKeepsDiscipline ==
    ASSUME TypeOK, AllWellFormed, Disciplined, [Next]_vars,
           NEW r \in Requests, CommitCompletion(r)
    PROVE  Disciplined'
<1>1. /\ pc[r] = "settle" /\ op[r].kind = "complete" /\ ~op[r].replay
      /\ dialect' = dialect /\ Release(r) /\ Finish(r)
  BY DEF CommitCompletion
<1>2. dialect = "postgresql" => holder = r
  BY <1>1 DEF Disciplined, LockDiscipline
<1>3. pc'[r] = "idle"
  BY <1>1 DEF Finish, TypeOK
<1>4. (LockDiscipline(r) /\ LoserFindsRow(r))'
  BY <1>3 DEF LockDiscipline, LoserFindsRow
<1>5. ASSUME NEW q \in Requests, q # r
      PROVE  (LockDiscipline(q) /\ LoserFindsRow(q))'
  <2>1. pc'[q] = pc[q] /\ op'[q] = op[q]
    BY <1>1, <1>5 DEF Finish, TypeOK
  <2>2. holder = q => holder' = q
    BY <1>1, <1>5 DEF Release
  <2>3. ~(dialect = "postgresql" /\ holder = q)
    BY <1>2, <1>5
  <2>4. QED
    BY <1>1, <2>1, <2>2, <2>3, OthersKeepDiscipline
<1>6. QED
  BY <1>4, <1>5 DEF Disciplined

LEMMA NextKeepsDiscipline ==
    ASSUME TypeOK, AllWellFormed, Disciplined, [Next]_vars
    PROVE  Disciplined'
<1>1. ASSUME NEW r \in Requests, Arrive(r) PROVE Disciplined'
  BY <1>1, ArriveKeepsDiscipline
<1>2. ASSUME NEW r \in Requests, Progress(r) PROVE Disciplined'
  <2>1. CASE FirstCompletion(r) \/ Replay(r) \/ RecoverByReplay(r)
    BY <2>1, LockStepKeepsDiscipline
  <2>2. CASE ScenarioNotFound(r) \/ SessionConflict(r) \/ DeadlockVictim(r)
             \/ CommitRead(r) \/ CommitReview(r)
    <3>1. UNCHANGED <<dialect, sessions>> /\ Finish(r)
          /\ (Release(r) \/ UNCHANGED locks)
      BY <2>2 DEF ScenarioNotFound, SessionConflict, DeadlockVictim,
                  CommitRead, ReadOnly, CommitReview, db
    <3>2. QED
      BY <3>1, FinishKeepsDiscipline
  <2>3. CASE QuestsExist(r) \/ PlaceQuests(r) \/ CheckForeignKey(r)
    BY <2>3, QuestStepKeepsDiscipline
  <2>4. CASE CommitCompletion(r)
    BY <2>4, CommitKeepsDiscipline
  <2>5. CASE LoseInsert(r)
    BY <2>5, LoseInsertKeepsDiscipline
  <2>6. QED
    BY <1>2, <2>1, <2>2, <2>3, <2>4, <2>5 DEF Progress
<1>3. ASSUME NEW r \in Requests, Fail(r) PROVE Disciplined'
  BY <1>3, FinishKeepsDiscipline DEF Fail, db
<1>4. CASE NextDay \/ Upgrade \/ UNCHANGED vars
  BY <1>4 DEF NextDay, Upgrade, vars, db, locks, Disciplined, LockDiscipline,
              LoserFindsRow
<1>5. QED
  BY <1>1, <1>2, <1>3, <1>4 DEF Next

\* The inductive invariant the theorems below share.
Inductive == TypeOK /\ AllWellFormed /\ Disciplined

LEMMA InductiveInvariant == Spec => []Inductive
<1>1. Init => Inductive
  <2>1. Init => Disciplined
    BY DEF Init, Disciplined, LockDiscipline, LoserFindsRow
  <2>2. QED
    BY <2>1, InitType DEF Inductive
<1>2. Inductive /\ [Next]_vars => Inductive'
  BY NextType, NextKeepsDiscipline DEF Inductive
<1>3. QED
  BY <1>1, <1>2, PTL DEF Spec

\* The unique constraint on (user, client_session_id) is hit only where the
\* users row is not locked, and the loser finds the winner's row: the
\* recovery path of complete_session never runs on postgresql, and never
\* gives up.
THEOREM InsertRaceExcluded == Spec => []InsertRaceOnlyWithoutRowLock
<1>1. Inductive => InsertRaceOnlyWithoutRowLock
  BY CompletionAssumption
  DEF CompletionAssumption, Inductive, TypeOK, Disciplined, LockDiscipline,
      LoserFindsRow, InsertRaceOnlyWithoutRowLock
<1>2. QED
  BY <1>1, InductiveInvariant, PTL

\* Under the row lock a replayed answer always describes the session that
\* was sent: complete_session compares it before it replays, and the row
\* cannot change while the handler waits.
THEOREM ReplaysAreConsistent == Spec => []ReplayAnswersItsPayload
<1>1. Inductive => ReplayAnswersItsPayload
  BY DEF Inductive, Disciplined, LockDiscipline, ReplayAnswersItsPayload,
         InFlight
<1>2. QED
  BY <1>1, InductiveInvariant, PTL

\* No step of any handler changes or drops a stored session.
THEOREM StoredSessionsImmutable == Spec => SessionRowsImmutable
<1>1. Inductive /\ [Next]_vars
         => [\A k \in Keys : sessions[k] # None => sessions'[k] = sessions[k]]_vars
  BY StoredStays DEF Inductive
<1>2. QED
  BY <1>1, InductiveInvariant, PTL DEF Spec, SessionRowsImmutable

\* The steps that record nothing.
LEMMA QuietSteps ==
    ASSUME [Next]_vars,
           ~ \E r \in Requests : CommitCompletion(r) \/ CommitReview(r)
    PROVE  UNCHANGED <<account, sessions, badges, evidence, events>>
BY DEF Next, Arrive, Progress, PostComplete, PostReview, GetQuests, Authenticate,
       FirstCompletion, ScenarioNotFound, Replay, SessionConflict, QuestsExist,
       PlaceQuests, CheckForeignKey, DeadlockVictim, LoseInsert,
       RecoverByReplay, CommitRead, ReadOnly, Fail, NextDay, Upgrade, vars, db

\* Every key is recorded as completed exactly when its session is stored,
\* and once: whatever is sent again, races or dies, nothing is awarded twice.
THEOREM AwardedOnce == Spec => []CompletionsAwardedOnce
<1>1. Init => CompletionsAwardedOnce
  BY DEF Init, CompletionsAwardedOnce, NoEvents
<1>2. ASSUME Inductive, CompletionsAwardedOnce, [Next]_vars
      PROVE  CompletionsAwardedOnce'
  <2>1. ASSUME NEW r \in Requests, CommitCompletion(r)
        PROVE  CompletionsAwardedOnce'
    <3>1. /\ sessions[op[r].key] = None /\ sessions'[op[r].key] # None
          /\ \A k \in Keys : k # op[r].key => sessions'[k] = sessions[k]
      BY <1>2, <2>1, CommitStores DEF Inductive
    <3>2. op[r].key \in Keys
      BY <1>2, <2>1 DEF CommitCompletion, Inductive, AllWellFormed, WellFormed
    <3>3. events'.completed = [events.completed EXCEPT ![op[r].key] = @ + 1]
      BY <1>2, <2>1 DEF CommitCompletion, Inductive, TypeOK, Events
    <3>4. events.completed \in [Keys -> Nat]
      BY <1>2 DEF Inductive, TypeOK, Events
    <3>5. QED
      BY <1>2, <3>1, <3>2, <3>3, <3>4 DEF CompletionsAwardedOnce
  <2>2. ASSUME NEW r \in Requests, CommitReview(r)
        PROVE  CompletionsAwardedOnce'
    <3>1. sessions' = sessions /\ events'.completed = events.completed
      BY <1>2, <2>2 DEF CommitReview, Inductive, TypeOK, Events
    <3>2. QED
      BY <1>2, <3>1 DEF CompletionsAwardedOnce
  <2>3. CASE UNCHANGED <<account, sessions, badges, evidence, events>>
    BY <1>2, <2>3 DEF CompletionsAwardedOnce
  <2>4. QED
    BY <1>2, <2>1, <2>2, <2>3, QuietSteps
<1>3. QED
  BY <1>1, <1>2, InductiveInvariant, PTL DEF Spec

\* A badge is announced by the commit that inserts its row, and never again.
THEOREM BadgeAwardedOnce == Spec => []BadgesAwardedOnce
<1>1. Init => BadgesAwardedOnce
  BY DEF Init, BadgesAwardedOnce, NoEvents
<1>2. ASSUME Inductive, BadgesAwardedOnce, [Next]_vars
      PROVE  BadgesAwardedOnce'
  <2>1. events.badge \in [Badges -> Nat] /\ badges \subseteq Badges
    BY <1>2 DEF Inductive, TypeOK, Events
  <2>2. ASSUME NEW r \in Requests, CommitCompletion(r)
        PROVE  BadgesAwardedOnce'
    <3>1. PICK won : /\ won \cap badges = {} /\ won \subseteq Badges
                     /\ badges' = badges \cup won
                     /\ events'.badge =
                          [b \in Badges |-> IF b \in won THEN events.badge[b] + 1
                                            ELSE events.badge[b]]
      <4> DEFINE codes == IF Eligible(op[r].take) THEN SessionCodes ELSE {}
                 paid == NewlyCompleted(snap[r].quests, codes)
                 new == CompletedAccount(LoadedAccount(r), op[r].take,
                                         op[r].day, QuestXp(paid))
                 n == Cardinality(EligibleSessions(
                        [sessions EXCEPT ![op[r].key] =
                           [take |-> op[r].take,
                            session_xp |-> SessionXp(op[r].take, new.streak_count),
                            quest_xp |-> QuestXp(paid), day |-> op[r].day]]))
                 won == IF Eligible(op[r].take)
                        THEN NewBadges(new, n, ProgressCodes(snap[r].quests, codes))
                        ELSE {}
      <4>1. won \cap badges = {} /\ won \subseteq Badges
        BY DEF NewBadges, EarnedBadges
      <4>2. badges' = badges \cup won
        BY <2>2 DEF CommitCompletion
      <4>3. events'.badge =
              [b \in Badges |-> IF b \in won THEN events.badge[b] + 1
                                ELSE events.badge[b]]
        BY <1>2, <2>2 DEF CommitCompletion, Inductive, TypeOK, Events
      <4>4. QED
        BY <4>1, <4>2, <4>3
    <3>2. QED
      BY <1>2, <2>1, <3>1 DEF BadgesAwardedOnce
  <2>3. ASSUME NEW r \in Requests, CommitReview(r)
        PROVE  BadgesAwardedOnce'
    <3>1. badges' = badges /\ events'.badge = events.badge
      BY <1>2, <2>3 DEF CommitReview, Inductive, TypeOK, Events
    <3>2. QED
      BY <1>2, <3>1 DEF BadgesAwardedOnce
  <2>4. CASE UNCHANGED <<account, sessions, badges, evidence, events>>
    BY <1>2, <2>4 DEF BadgesAwardedOnce
  <2>5. QED
    BY <1>2, <2>2, <2>3, <2>4, QuietSteps
<1>3. QED
  BY <1>1, <1>2, InductiveInvariant, PTL DEF Spec

\* A premium payload in flight, or stored, means a premium learner: the
\* gate is at the door, and nobody is downgraded.
EntitledInFlight ==
    \A r \in Requests :
        pc[r] # "idle" /\ op[r].kind = "complete"
            => ~NeedsPremium(op[r].take)

\* A handler in flight keeps its payload, a new one has passed the gate.
LEMMA TakeKept ==
    ASSUME Inductive, NEW r \in Requests, Progress(r), NEW q \in Requests,
           pc'[q] # "idle"
    PROVE  /\ pc[q] # "idle"
           /\ op'[q].kind = op[q].kind /\ op'[q].take = op[q].take
<1>1. TypeOK
  BY DEF Inductive
<1>2. CASE op' = op
  BY <1>1, <1>2
  DEF TypeOK, Progress, FirstCompletion, ScenarioNotFound, Replay,
      SessionConflict, QuestsExist, PlaceQuests, CheckForeignKey,
      DeadlockVictim, CommitCompletion, LoseInsert, RecoverByReplay,
      CommitRead, CommitReview, HasLock, Goto, Finish
<1>3. CASE Finish(r)
  BY <1>1, <1>3 DEF TypeOK, Finish
<1>4. CASE Replay(r) \/ RecoverByReplay(r)
  <2>1. op' = [op EXCEPT ![r].replay = TRUE]
    BY <1>4 DEF Replay, RecoverByReplay
  <2>2. pc[r] \in {"lock", "recover"} /\ op[r] \in Op
    BY <1>4 DEF Replay, RecoverByReplay, HasLock, Inductive, AllWellFormed,
                WellFormed
  <2>3. [op[r] EXCEPT !.replay = TRUE].kind = op[r].kind
        /\ [op[r] EXCEPT !.replay = TRUE].take = op[r].take
    BY <2>2 DEF Op
  <2>4. op'[q].kind = op[q].kind /\ op'[q].take = op[q].take
    BY <1>1, <2>1, <2>3 DEF TypeOK
  <2>5. pc[q] # "idle"
    BY <1>1, <1>4, <2>2 DEF TypeOK, Replay, RecoverByReplay, Goto
  <2>6. QED
    BY <2>4, <2>5
<1>5. QED
  BY <1>2, <1>3, <1>4
  DEF Progress, FirstCompletion, ScenarioNotFound, SessionConflict,
      QuestsExist, PlaceQuests, CheckForeignKey, DeadlockVictim,
      CommitCompletion, LoseInsert, CommitRead, CommitReview

LEMMA GateAtArrival ==
    ASSUME Inductive, NEW r \in Requests, Arrive(r),
           pc'[r] # "idle", op'[r].kind = "complete"
    PROVE  ~NeedsPremium(op'[r].take)
<1>1. ASSUME NEW k \in Keys, NEW t \in Takes, PostComplete(r, k, t)
      PROVE  ~NeedsPremium(op'[r].take)
  <2>1. op'[r] = OpOf("complete", k, t)
    BY <1>1 DEF PostComplete, Authenticate, Inductive, TypeOK
  <2>2. QED
    BY <1>1, <2>1 DEF PostComplete, OpOf
<1>2. ASSUME PostReview(r) \/ GetQuests(r) PROVE op'[r].kind # "complete"
  <2>1. op'[r] \in {OpOf("review", None, None), OpOf("quests", None, None)}
    BY <1>2 DEF PostReview, GetQuests, Authenticate, Inductive, TypeOK
  <2>2. QED
    BY <2>1 DEF OpOf
<1>3. QED
  BY <1>1, <1>2 DEF Arrive

\* A free learner never has a stored session of a premium scenario,
\* whatever races or retries brought it there.
THEOREM PaywallHolds == Spec => []PremiumOnlyWhenEntitled
<1> DEFINE Gated == EntitledInFlight /\ PremiumOnlyWhenEntitled
<1>1. Init => Gated
  BY DEF Init, EntitledInFlight, PremiumOnlyWhenEntitled
<1>2. ASSUME Inductive, Gated, [Next]_vars
      PROVE  Gated'
  <2>1. tier = "premium" => tier' = "premium"
    <3>1. ASSUME NEW r \in Requests, Arrive(r) \/ Fail(r) PROVE tier' = tier
      BY <3>1 DEF Arrive, PostComplete, PostReview, GetQuests, Authenticate, Fail
    <3>2. ASSUME NEW r \in Requests, Progress(r) PROVE tier' = tier
      <4>1. CommitCompletion(r) => tier' = tier
        BY DEF CommitCompletion
      <4>2. CommitRead(r) \/ CommitReview(r) => tier' = tier
        BY DEF CommitRead, CommitReview
      <4>3. FirstCompletion(r) \/ ScenarioNotFound(r) \/ Replay(r)
               \/ SessionConflict(r) => tier' = tier
        BY DEF FirstCompletion, ScenarioNotFound, Replay, SessionConflict
      <4>4. QuestsExist(r) \/ PlaceQuests(r) \/ CheckForeignKey(r)
               \/ DeadlockVictim(r) => tier' = tier
        BY DEF QuestsExist, PlaceQuests, CheckForeignKey, DeadlockVictim
      <4>5. LoseInsert(r) \/ RecoverByReplay(r) => tier' = tier
        BY DEF LoseInsert, RecoverByReplay
      <4>6. QED
        BY <3>2, <4>1, <4>2, <4>3, <4>4, <4>5 DEF Progress
    <3>3. NextDay \/ Upgrade \/ UNCHANGED vars
             => (tier = "premium" => tier' = "premium")
      BY DEF NextDay, Upgrade, vars
    <3>4. QED
      BY <1>2, <3>1, <3>2, <3>3 DEF Next
  <2>2. EntitledInFlight'
    <3>1. ASSUME NEW q \in Requests,
                 pc'[q] # "idle" /\ op'[q].kind = "complete"
          PROVE  (~NeedsPremium(op[q].take))'
      <4>1. CASE pc'[q] = pc[q] /\ op'[q] = op[q]
        BY <1>2, <2>1, <3>1, <4>1 DEF EntitledInFlight, NeedsPremium
      <4>2. ASSUME NEW r \in Requests, Progress(r)
            PROVE  (~NeedsPremium(op[q].take))'
        BY <1>2, <2>1, <3>1, <4>2, TakeKept DEF EntitledInFlight, NeedsPremium
      <4>3. ASSUME NEW r \in Requests, Arrive(r), q = r
            PROVE  (~NeedsPremium(op[q].take))'
        BY <1>2, <2>1, <3>1, <4>3, GateAtArrival DEF NeedsPremium
      <4>4. ASSUME NEW r \in Requests, Arrive(r), q # r
            PROVE  pc'[q] = pc[q] /\ op'[q] = op[q]
        BY <1>2, <4>4
        DEF Arrive, PostComplete, PostReview, GetQuests, Authenticate, Goto,
            Inductive, TypeOK
      <4>5. ASSUME NEW r \in Requests, Fail(r)
            PROVE  pc'[q] = pc[q] /\ op'[q] = op[q]
        BY <1>2, <3>1, <4>5 DEF Fail, Finish, Inductive, TypeOK
      <4>6. CASE NextDay \/ Upgrade \/ UNCHANGED vars
        BY <4>1, <4>6 DEF NextDay, Upgrade, vars
      <4>7. QED
        BY <1>2, <4>1, <4>2, <4>3, <4>4, <4>5, <4>6 DEF Next
    <3>2. QED
      BY <3>1 DEF EntitledInFlight
  <2>3. PremiumOnlyWhenEntitled'
    <3>1. ASSUME NEW r \in Requests, CommitCompletion(r)
          PROVE  PremiumOnlyWhenEntitled'
      <4>1. /\ op[r].key \in Keys /\ pc[r] # "idle" /\ op[r].kind = "complete"
        BY <1>2, <3>1 DEF CommitCompletion, Inductive, AllWellFormed, WellFormed
      <4>2. \A k \in Keys : k # op[r].key => sessions'[k] = sessions[k]
        BY <1>2, <3>1, CommitStores DEF Inductive
      <4>3. sessions'[op[r].key].take = op[r].take
        BY <1>2, <3>1, <4>1 DEF CommitCompletion, Inductive, TypeOK
      <4>4. ~NeedsPremium(op[r].take)
        BY <1>2, <4>1 DEF EntitledInFlight
      <4>5. QED
        BY <1>2, <2>1, <4>2, <4>3, <4>4
        DEF PremiumOnlyWhenEntitled, NeedsPremium
    <3>2. CASE UNCHANGED sessions
      BY <1>2, <2>1, <3>2 DEF PremiumOnlyWhenEntitled
    <3>3. QED
      BY <1>2, <3>1, <3>2, QuietSteps DEF CommitReview
  <2>4. QED
    BY <2>2, <2>3
<1>3. QED
  BY <1>1, <1>2, InductiveInvariant, PTL DEF Spec

-----------------------------------------------------------------------------
(***************************************************************************)
(* A learner whose requests do not overlap, except for duplicates of one   *)
(* completion: XP, quests, streak, badges and counters agree with the      *)
(* stored history.                                                         *)
(***************************************************************************)

(***************************************************************************)
(* A handler that still has something to write loaded what is committed.   *)
(***************************************************************************)

\* A quest that has no row stands where a new row would put it.
Quest(d, c) == IF quests[d][c] = None THEN FreshQuest ELSE quests[d][c]

\* The quests of one date are inserted together.
AllOrNone(qs) ==
    (\E c \in Codes : qs[c] = None) => \A c \in Codes : qs[c] = None

\* a stored local date, if there is one, is not after day
NotAfter(date, day) == date # None => date <= day

\* r will write more than missing quest rows, if nobody does before it
Pending(r) ==
    /\ pc[r] # "idle"
    /\ op[r].kind = "complete" => sessions[op[r].key] = None

\* What is in flight together is one completion, sent again.
Alike ==
    \A r, q \in Requests :
        r # q /\ pc[r] # "idle" /\ pc[q] # "idle"
            => /\ op[r].kind = "complete" /\ op[q].kind = "complete"
               /\ op[r].key = op[q].key

\* The identity map of a handler against the committed rows.
UpToDate(r) ==
    /\ op[r].day <= today
    /\ op[r].replay => sessions[op[r].key] # None
    /\ AllOrNone(snap[r].quests)
    /\ \A c \in Codes :
          quests[op[r].day][c] = None => snap[r].quests[c] \in {None, FreshQuest}
    /\ Pending(r) =>
          /\ snap[r].account = account
          /\ \A c \in Codes :
                quests[op[r].day][c] # None
                    => snap[r].quests[c] = quests[op[r].day][c]
          /\ pc[r] = "fk" => \A c \in Codes : quests[op[r].day][c] = None
          /\ NotAfter(account.xp_today_date, op[r].day)
          /\ NotAfter(account.streak_last_date, op[r].day)

Fresh ==
    /\ Alike
    /\ NotAfter(account.xp_today_date, today)
    /\ NotAfter(account.streak_last_date, today)
    /\ \A d \in Days : AllOrNone(quests[d])
    /\ \A r \in Requests : pc[r] # "idle" => UpToDate(r)

LEMMA InFlightType ==
    ASSUME TypeOK, AllWellFormed, NEW r \in Requests, pc[r] # "idle"
    PROVE  /\ op[r] \in Op /\ op[r].day \in Days /\ op[r].day \in Nat
           /\ snap[r].account \in Account
           /\ snap[r].quests \in [Codes -> QuestRow \cup {None}]
           /\ op[r].kind = "complete" => op[r].key \in Keys /\ op[r].take \in Takes
BY DEF AllWellFormed, WellFormed, Op, Snapshot, Days


LEMMA NoneIsNoValue == None \notin QuestRow /\ None \notin SessionRow /\ None \notin Days
BY NoneIsNoRow, CompletionAssumption
DEF NoneIsNoRow, CompletionAssumption, Days

LEMMA QuestType ==
    ASSUME TypeOK, NEW d \in Days, NEW c \in Codes
    PROVE  /\ quests[d][c] \in QuestRow \cup {None} /\ Quest(d, c) \in QuestRow
           /\ FreshQuest \in QuestRow
BY DEF TypeOK, Quest, FreshQuest, QuestRow

\* A handler whose request and identity map stay, while the committed rows
\* stay, is as up to date as before.
LEMMA StaysUpToDate ==
    ASSUME UNCHANGED <<account, quests, sessions>>, NEW r \in Requests,
           today <= today', today \in Days, today' \in Days,
           pc[r] # "idle", UpToDate(r),
           op[r].day \in Nat,
           UNCHANGED <<op[r], snap[r]>>,
           pc'[r] = "fk" => pc[r] = "fk"
    PROVE  UpToDate(r)'
BY DEF UpToDate, Pending, AllOrNone, NotAfter, Days

\* A step of r that leaves the committed rows alone.
LEMMA StepStaysFresh ==
    ASSUME TypeOK, AllWellFormed, Fresh, NEW r \in Requests,
           UNCHANGED <<account, quests, sessions, today>>,
           \A q \in Requests \ {r} :
               UNCHANGED <<pc[q], op[q], snap[q]>>,
           pc'[r] # "idle" =>
               /\ UpToDate(r)'
               /\ pc[r] # "idle" /\ op'[r].kind = op[r].kind /\ op'[r].key = op[r].key
    PROVE  Fresh'
<1>1. Alike'
  <2> SUFFICES ASSUME NEW p \in Requests, NEW q \in Requests,
                      p # q, pc'[p] # "idle", pc'[q] # "idle"
               PROVE  /\ op'[p].kind = "complete" /\ op'[q].kind = "complete"
                      /\ op'[p].key = op'[q].key
    BY DEF Alike
  <2>1. \A x \in {p, q} : pc[x] # "idle" /\ op'[x].kind = op[x].kind
                           /\ op'[x].key = op[x].key
    OBVIOUS
  <2>2. QED
    BY <2>1 DEF Fresh, Alike
<1>2. ASSUME NEW q \in Requests, pc'[q] # "idle" PROVE UpToDate(q)'
  <2>1. CASE q = r
    BY <1>2, <2>1
  <2>2. CASE q # r
    <3>1. UNCHANGED <<pc[q], op[q], snap[q]>>
      BY <2>2
    <3>2. pc[q] # "idle" /\ UpToDate(q)
      BY <1>2, <3>1 DEF Fresh
    <3>3. op[q].day \in Nat /\ today \in Days /\ today \in Nat
      BY <3>2, InFlightType DEF TypeOK, Days
    <3>4. QED
      BY <3>1, <3>2, <3>3, StaysUpToDate
  <2>3. QED
    BY <2>1, <2>2
<1>3. QED
  BY <1>1, <1>2 DEF Fresh, NotAfter, AllOrNone

LEMMA FinishStaysFresh ==
    ASSUME TypeOK, AllWellFormed, Fresh, NEW r \in Requests,
           UNCHANGED <<account, quests, sessions, today>>, Finish(r)
    PROVE  Fresh'
<1>1. /\ pc'[r] = "idle"
      /\ \A q \in Requests \ {r} : UNCHANGED <<pc[q], op[q], snap[q]>>
  BY DEF Finish, TypeOK
<1>2. QED
  BY <1>1, StepStaysFresh

\* Authentication loads what is committed, on the learner's local date.
LEMMA AuthenticateStaysFresh ==
    ASSUME Overlap = "duplicates", TypeOK, AllWellFormed, Fresh,
           NEW r \in Requests, NEW o \in Op, NEW label \in {"lock", "ensure"},
           Authenticate(r, o, label), o.day = today, o.replay = FALSE
    PROVE  Fresh'
<1>1. /\ UNCHANGED <<account, quests, sessions, today>>
      /\ \A q \in Requests \ {r} : UNCHANGED <<pc[q], op[q], snap[q]>>
      /\ pc'[r] = label /\ op'[r] = o
      /\ snap'[r] = [account |-> account, quests |-> quests[o.day]]
  BY DEF Authenticate, Goto, TypeOK, db
<1>2. Alike'
  <2>1. ASSUME NEW q \in Requests, q # r, pc'[q] # "idle"
        PROVE  /\ op'[r].kind = "complete" /\ op'[q].kind = "complete"
               /\ op'[r].key = op'[q].key
    <3>1. pc[q] # "idle" /\ op'[q] = op[q]
      BY <1>1, <2>1
    <3>2. /\ o.kind = "complete" /\ op[q].kind = "complete" /\ o.key = op[q].key
      BY <3>1 DEF Authenticate, MayOverlap, InFlight
    <3>3. QED
      BY <1>1, <3>1, <3>2
  <2>2. ASSUME NEW p \in Requests, NEW q \in Requests, p # r, q # r,
               p # q, pc'[p] # "idle", pc'[q] # "idle"
        PROVE  /\ op'[p].kind = "complete" /\ op'[q].kind = "complete"
               /\ op'[p].key = op'[q].key
    <3>1. UNCHANGED <<pc[p], op[p], pc[q], op[q]>>
      BY <1>1, <2>2
    <3>2. QED
      BY <2>2, <3>1 DEF Fresh, Alike
  <2>3. QED
    BY <2>1, <2>2 DEF Alike
<1>3. UpToDate(r)'
  <2>1. AllOrNone(quests[today])
    BY DEF Fresh, TypeOK
  <2>2. today' \in Nat
    BY <1>1 DEF TypeOK, Days
  <2>3. /\ snap'[r].account = account' /\ snap'[r].quests = quests'[op'[r].day]
        /\ op'[r].day = today' /\ op'[r].replay = FALSE /\ pc'[r] # "fk"
    BY <1>1
  <2>4. AllOrNone(snap'[r].quests)
    BY <1>1, <2>1
  <2>5. NotAfter(account.xp_today_date, today)'
        /\ NotAfter(account.streak_last_date, today)'
    BY <1>1 DEF Fresh, NotAfter
  <2>6. QED
    BY <2>2, <2>3, <2>4, <2>5 DEF UpToDate, NotAfter
<1>4. ASSUME NEW q \in Requests, q # r, pc'[q] # "idle" PROVE UpToDate(q)'
  <2>1. UNCHANGED <<pc[q], op[q], snap[q]>>
    BY <1>1, <1>4
  <2>2. pc[q] # "idle" /\ UpToDate(q)
    BY <1>4, <2>1 DEF Fresh
  <2>3. op[q].day \in Nat /\ today \in Days /\ today \in Nat
    BY <2>2, InFlightType DEF TypeOK, Days
  <2>4. QED
    BY <1>1, <2>1, <2>2, <2>3, StaysUpToDate
<1>5. QED
  BY <1>1, <1>2, <1>3, <1>4 DEF Fresh, NotAfter, AllOrNone

LEMMA ArriveStaysFresh ==
    ASSUME Overlap = "duplicates", TypeOK, AllWellFormed, Fresh,
           NEW r \in Requests, Arrive(r)
    PROVE  Fresh'
<1>1. ASSUME NEW k \in Keys, NEW t \in Takes, PostComplete(r, k, t)
      PROVE  Fresh'
  <2>1. OpOf("complete", k, t) \in Op
    BY DEF OpOf, Op, Kinds, TypeOK
  <2>2. QED
    BY <1>1, <2>1, AuthenticateStaysFresh DEF PostComplete, OpOf
<1>2. OpOf("review", None, None) \in Op /\ OpOf("quests", None, None) \in Op
  BY DEF OpOf, Op, Kinds, TypeOK
<1>3. ASSUME PostReview(r) PROVE Fresh'
  BY <1>2, <1>3, AuthenticateStaysFresh DEF PostReview, OpOf
<1>4. ASSUME GetQuests(r) PROVE Fresh'
  BY <1>2, <1>4, AuthenticateStaysFresh DEF GetQuests, OpOf
<1>5. QED
  BY <1>1, <1>3, <1>4 DEF Arrive

\* Taking the lock, or finding the key taken, loads nothing; the recovery
\* loads everything again.
LEMMA LockStepStaysFresh ==
    ASSUME TypeOK, AllWellFormed, Fresh, NEW r \in Requests,
           FirstCompletion(r) \/ Replay(r) \/ LoseInsert(r) \/ RecoverByReplay(r)
    PROVE  Fresh'
<1>1. /\ UNCHANGED <<account, quests, sessions, today>>
      /\ \A q \in Requests \ {r} : UNCHANGED <<pc[q], op[q], snap[q]>>
      /\ pc[r] \in {"lock", "settle", "recover"} /\ pc'[r] \notin {"idle", "fk"}
  BY DEF FirstCompletion, Replay, LoseInsert, RecoverByReplay, HasLock, Goto,
         TypeOK, db
<1>2. op[r] \in Op /\ op[r].kind = "complete" /\ op[r].day \in Days
      /\ op[r].day \in Nat /\ today \in Nat /\ today \in Days
  <2>1. op[r].kind = "complete"
    BY DEF FirstCompletion, Replay, LoseInsert, RecoverByReplay, HasLock,
           AllWellFormed, WellFormed
  <2>2. today \in Nat /\ today \in Days
    BY DEF TypeOK, Days
  <2>3. QED
    BY <1>1, <2>1, <2>2, InFlightType
<1>3. UpToDate(r)
  BY <1>1 DEF Fresh
<1>4. CASE FirstCompletion(r) \/ LoseInsert(r)
  <2>1. UNCHANGED <<op[r], snap[r]>>
    BY <1>4 DEF FirstCompletion, LoseInsert
  <2>2. UpToDate(r)'
    BY <1>1, <1>2, <1>3, <2>1, StaysUpToDate
  <2>3. QED
    BY <1>1, <2>1, <2>2, StepStaysFresh
<1>5. CASE Replay(r)
  <2>1. /\ op'[r].kind = op[r].kind /\ op'[r].key = op[r].key
        /\ op'[r].day = op[r].day /\ snap'[r] = snap[r]
        /\ sessions[op[r].key] # None
    BY <1>2, <1>5 DEF Replay, TypeOK, Op
  <2>2. UpToDate(r)'
    BY <1>1, <1>2, <1>3, <2>1 DEF UpToDate, Pending, AllOrNone
  <2>3. QED
    BY <1>1, <2>1, <2>2, StepStaysFresh
<1>6. CASE RecoverByReplay(r)
  <2>1. /\ op'[r].kind = op[r].kind /\ op'[r].key = op[r].key
        /\ op'[r].day = op[r].day
        /\ snap'[r].quests = quests[op[r].day]
        /\ sessions[op[r].key] # None
    BY <1>2, <1>6 DEF RecoverByReplay, TypeOK, Op
  <2>2. AllOrNone(quests[op[r].day])
    BY <1>2 DEF Fresh
  <2>3. UpToDate(r)'
    BY <1>1, <1>2, <1>3, <2>1, <2>2 DEF UpToDate, Pending, AllOrNone
  <2>4. QED
    BY <1>1, <2>1, <2>3, StepStaysFresh
<1>7. QED
  BY <1>4, <1>5, <1>6

LEMMA UniformLoad ==
    ASSUME NEW loaded, NEW day \in Days,
           AllOrNone(loaded), AllOrNone(quests[day])
    PROVE  /\ AllOrNone(LoadQuests(loaded, day))
           /\ (\E c \in Codes : LoadQuests(loaded, day)[c] = None)
                 => \A c \in Codes : loaded[c] = None /\ quests[day][c] = None
BY DEF AllOrNone, LoadQuests

LEMMA UniformFresh ==
    /\ AllOrNone([c \in Codes |-> FreshQuest])
    /\ \A c \in Codes : [e \in Codes |-> FreshQuest][c] = FreshQuest
BY NoneIsNoValue DEF AllOrNone, FreshQuest, QuestRow

\* ensure_daily_quests loads the rows there are, or places fresh ones where
\* there are none.
LEMMA EnsureStepStaysFresh ==
    ASSUME TypeOK, AllWellFormed, Fresh, NEW r \in Requests,
           QuestsExist(r) \/ PlaceQuests(r) \/ CheckForeignKey(r)
    PROVE  Fresh'
<1> DEFINE day == op[r].day
<1>1. /\ UNCHANGED <<account, quests, sessions, today, op>>
      /\ \A q \in Requests \ {r} : UNCHANGED <<pc[q], op[q], snap[q]>>
      /\ pc[r] \in {"ensure", "fk"} /\ pc'[r] \in {"fk", "settle"}
  BY DEF QuestsExist, PlaceQuests, CheckForeignKey, WithQuests, Goto, TypeOK, db
<1>2. UpToDate(r) /\ day \in Days /\ snap[r] \in Snapshot
  BY <1>1, InFlightType DEF Fresh, AllWellFormed, WellFormed
<1>3. AllOrNone(snap[r].quests) /\ AllOrNone(quests[day])
  BY <1>2 DEF UpToDate, Fresh
<1>4. UpToDate(r)'
  <2>1. CASE QuestsExist(r)
    <3>1. snap'[r].account = snap[r].account
          /\ snap'[r].quests = LoadQuests(snap[r].quests, day)
          /\ pc'[r] = "settle"
      BY <1>2, <2>1 DEF QuestsExist, WithQuests, Goto, TypeOK, Snapshot
    <3>2. AllOrNone(snap'[r].quests)
      BY <1>2, <1>3, <3>1, UniformLoad
    <3>3. \A c \in Codes : snap'[r].quests[c] = IF snap[r].quests[c] = None
                                                THEN quests[day][c]
                                                ELSE snap[r].quests[c]
      BY <3>1 DEF LoadQuests
    <3>4. Pending(r)' => Pending(r)
      BY <1>1 DEF Pending
    <3>5. AllOrNone(snap[r].quests)'
      BY <3>2 DEF AllOrNone
    <3>6. \A c \in Codes : quests[day][c] = None
                => snap'[r].quests[c] \in {None, FreshQuest}
      BY <1>2, <3>3 DEF UpToDate
    <3>7. Pending(r) => \A c \in Codes : quests[day][c] # None
                            => snap'[r].quests[c] = quests[day][c]
      BY <1>2, <3>3 DEF UpToDate
    <3>8. QED
      BY <1>1, <1>2, <3>1, <3>4, <3>5, <3>6, <3>7 DEF UpToDate, NotAfter
  <2>2. CASE PlaceQuests(r) /\ dialect = "postgresql"
    <3>1. snap' = snap /\ Missing(r)
      BY <2>2 DEF PlaceQuests
    <3>2. \A c \in Codes : quests[day][c] = None
      BY <1>2, <1>3, <3>1, UniformLoad DEF Missing
    <3>3. Pending(r)' => Pending(r)
      BY <1>1 DEF Pending
    <3>4. QED
      BY <1>1, <1>2, <3>1, <3>2, <3>3 DEF UpToDate, AllOrNone, NotAfter
  <2>3. CASE CheckForeignKey(r) \/ (PlaceQuests(r) /\ dialect # "postgresql")
    <3>1. snap'[r].account = snap[r].account
          /\ snap'[r].quests = [c \in Codes |-> FreshQuest]
          /\ pc'[r] = "settle"
      BY <1>2, <2>3
      DEF CheckForeignKey, PlaceQuests, WithQuests, Goto, TypeOK, Snapshot
    <3>2. Pending(r) => \A c \in Codes : quests[day][c] = None
      <4>1. CASE CheckForeignKey(r)
        BY <1>2, <4>1 DEF CheckForeignKey, UpToDate
      <4>2. CASE PlaceQuests(r)
        BY <1>2, <1>3, <4>2, UniformLoad DEF PlaceQuests, Missing
      <4>3. QED
        BY <2>3, <4>1, <4>2
    <3>3. Pending(r)' => Pending(r)
      BY <1>1 DEF Pending
    <3>4. AllOrNone(snap'[r].quests)
          /\ \A c \in Codes : snap'[r].quests[c] = FreshQuest
      BY <3>1, UniformFresh
    <3>5. AllOrNone(snap[r].quests)'
      BY <3>4 DEF AllOrNone
    <3>6. QED
      BY <1>1, <1>2, <3>1, <3>2, <3>3, <3>4, <3>5 DEF UpToDate, NotAfter
  <2>4. QED
    BY <2>1, <2>2, <2>3
<1>5. QED
  BY <1>1, <1>4, StepStaysFresh

(***************************************************************************)
(* What a commit writes.                                                   *)
(***************************************************************************)

LEMMA FlushedQuests ==
    ASSUME TypeOK, AllWellFormed, NEW r \in Requests, pc[r] # "idle",
           NEW new, quests' = FlushQuests(r, new)
    PROVE  \A d \in Days, c \in Codes :
              quests'[d][c] =
                 IF d = op[r].day
                 THEN FlushQuest(quests[d][c], snap[r].quests[c], new[c])
                 ELSE quests[d][c]
BY InFlightType DEF FlushQuests, TypeOK

\* The flush of a handler that is up to date: rows appear together, none is
\* dropped, and where it loaded a row the new one is stored.
LEMMA FlushIsUniform ==
    ASSUME TypeOK, AllWellFormed, Fresh, NEW r \in Requests, pc[r] # "idle",
           NEW new \in [Codes -> QuestRow \cup {None}],
           \A c \in Codes : snap[r].quests[c] # None => new[c] \in QuestRow,
           quests' = FlushQuests(r, new)
    PROVE  /\ \A d \in Days : AllOrNone(quests'[d])
           /\ \A d \in Days, c \in Codes :
                 /\ quests[d][c] # None => quests'[d][c] # None
                 /\ d # op[r].day => quests'[d][c] = quests[d][c]
<1>1. /\ op[r].day \in Days /\ AllOrNone(snap[r].quests)
      /\ snap[r].quests \in [Codes -> QuestRow \cup {None}]
      /\ \A d \in Days : AllOrNone(quests[d])
  BY InFlightType DEF Fresh, UpToDate
<1>2. \A d \in Days, c \in Codes :
         quests'[d][c] =
            IF d = op[r].day
            THEN FlushQuest(quests[d][c], snap[r].quests[c], new[c])
            ELSE quests[d][c]
  BY FlushedQuests
<1>3. ASSUME NEW c \in Codes, NEW d \in Days
      PROVE  /\ snap[r].quests[c] = None
                   => FlushQuest(quests[d][c], snap[r].quests[c], new[c])
                         = quests[d][c]
             /\ snap[r].quests[c] # None
                   => FlushQuest(quests[d][c], snap[r].quests[c], new[c]) # None
  <2>1. CASE snap[r].quests[c] = None
    BY <2>1 DEF FlushQuest
  <2>2. CASE snap[r].quests[c] # None /\ quests[d][c] = None
    BY <2>2, NoneIsNoValue DEF FlushQuest
  <2>3. CASE snap[r].quests[c] # None /\ quests[d][c] # None
    <3>1. new[c] \in QuestRow /\ quests[d][c] \in QuestRow
      BY <2>3, QuestType
    <3>2. FlushQuest(quests[d][c], snap[r].quests[c], new[c]) \in QuestRow
      BY <2>3, <3>1 DEF FlushQuest, Column, QuestRow
    <3>3. QED
      BY <2>3, <3>2, NoneIsNoValue
  <2>4. QED
    BY <2>1, <2>2, <2>3
<1>4. \A d \in Days : AllOrNone(quests'[d])
  <2> SUFFICES ASSUME NEW d \in Days PROVE AllOrNone(quests'[d])
    OBVIOUS
  <2>1. CASE d # op[r].day
    BY <1>1, <1>2, <2>1 DEF AllOrNone
  <2>2. CASE d = op[r].day /\ \A c \in Codes : snap[r].quests[c] = None
    BY <1>1, <1>2, <1>3, <2>2 DEF AllOrNone
  <2>3. CASE d = op[r].day /\ \A c \in Codes : snap[r].quests[c] # None
    BY <1>2, <1>3, <2>3 DEF AllOrNone
  <2>4. QED
    BY <1>1, <2>1, <2>2, <2>3 DEF AllOrNone
<1>5. \A d \in Days, c \in Codes : quests[d][c] # None => quests'[d][c] # None
  BY <1>2, <1>3
<1>6. QED
  BY <1>2, <1>4, <1>5

\* A commit of r, after which no other handler has anything to write.
LEMMA CommitStaysFresh ==
    ASSUME TypeOK, AllWellFormed, Fresh, NEW r \in Requests, pc[r] # "idle",
           Finish(r), UNCHANGED today,
           \A d \in Days : AllOrNone(quests'[d]),
           \A d \in Days, c \in Codes : quests[d][c] # None => quests'[d][c] # None,
           \A k \in Keys : sessions[k] # None => sessions'[k] # None,
           op[r].kind = "complete" => sessions'[op[r].key] # None,
           NotAfter(account.xp_today_date, today)',
           NotAfter(account.streak_last_date, today)'
    PROVE  Fresh'
<1>1. /\ pc'[r] = "idle"
      /\ \A q \in Requests \ {r} : UNCHANGED <<pc[q], op[q], snap[q]>>
  BY DEF Finish, TypeOK
<1>2. Alike'
  BY <1>1 DEF Fresh, Alike
<1>3. ASSUME NEW q \in Requests, pc'[q] # "idle" PROVE UpToDate(q)'
  <2>1. q # r /\ UNCHANGED <<pc[q], op[q], snap[q]>> /\ pc[q] # "idle"
    BY <1>1, <1>3
  <2>2. op[q].kind = "complete" /\ op[r].kind = "complete"
        /\ op[q].key = op[r].key
    BY <2>1 DEF Fresh, Alike
  <2>3. sessions'[op[q].key] # None
    BY <2>2
  <2>4. ~Pending(q)'
    BY <2>1, <2>2, <2>3 DEF Pending
  <2>5. UpToDate(q) /\ op[q].day \in Days
    BY <2>1, InFlightType DEF Fresh
  <2>6. QED
    BY <2>1, <2>3, <2>4, <2>5 DEF UpToDate, AllOrNone
<1>4. (\A d \in Days : AllOrNone(quests[d]))'
  BY DEF AllOrNone
<1>5. QED
  BY <1>2, <1>3, <1>4 DEF Fresh

(***************************************************************************)
(* Each step, as what it does to the learner's rows.                       *)
(***************************************************************************)

Standing(day) == [c \in Codes |-> Quest(day, c)]
Earning(t) == IF Eligible(t) THEN SessionCodes ELSE {}

\* the quests of codes advance, and the rest stand where they stood
Advances(day, codes) ==
    \A d \in Days, c \in Codes :
        Quest(d, c)' = IF d = day /\ c \in codes
                       THEN ProgressQuest(Quest(d, c), c) ELSE Quest(d, c)

Pays(day, paid, xp) ==
    /\ events'.paid = [events.paid EXCEPT ![day] =
                          [c \in Codes |-> IF c \in paid THEN @[c] + 1 ELSE @[c]]]
    /\ events'.xp = events.xp + xp
    /\ events'.xpOn = [events.xpOn EXCEPT ![day] = @ + xp]

\* A completion of t under k, on the account and the quests as they are.
Completes(k, t, day) ==
    LET paid == NewlyCompleted(Standing(day), Earning(t))
        new == CompletedAccount(account, t, day, QuestXp(paid))
        xp == SessionXp(t, new.streak_count)
        stored == [sessions EXCEPT ![k] =
                      [take |-> t, session_xp |-> xp,
                       quest_xp |-> QuestXp(paid), day |-> day]]
        won == IF Eligible(t)
               THEN NewBadges(new, Cardinality(EligibleSessions(stored)),
                              ProgressCodes(Standing(day), Earning(t)))
               ELSE {}
    IN  /\ sessions[k] = None
        /\ NotAfter(account.xp_today_date, day)
        /\ NotAfter(account.streak_last_date, day)
        /\ account' = new
        /\ sessions' = stored
        /\ badges' = badges \cup won
        /\ Pays(day, paid, xp + QuestXp(paid))
        /\ events'.reviewed = events.reviewed
        /\ Advances(day, Earning(t))

\* An answered review.
Reviews(day) ==
    LET paid == NewlyCompleted(Standing(day), {"vocab_10"})
        xp == QuestXp(paid)
        reviewed == [account EXCEPT !.reps = @ + 1]
    IN  /\ NotAfter(account.xp_today_date, day)
        /\ account' = IF xp > 0 THEN ApplySessionXp(reviewed, xp, day)
                      ELSE reviewed
        /\ Pays(day, paid, xp)
        /\ events'.reviewed = [events.reviewed EXCEPT ![day] = @ + 1]
        /\ Advances(day, {"vocab_10"})
        /\ UNCHANGED <<sessions, badges>>

\* Anything else: at most fresh quest rows appear.
Rests == Advances(0, {}) /\ UNCHANGED <<account, sessions, badges, events>>

LEMMA LoadedQuest ==
    ASSUME TypeOK, Fresh, NEW r \in Requests, Pending(r), NEW c \in Codes,
           snap[r].quests[c] # None
    PROVE  snap[r].quests[c] = Quest(op[r].day, c)
BY DEF Fresh, UpToDate, Pending, Quest

LEMMA FlushedRow ==
    ASSUME TypeOK, NEW d \in Days, NEW c \in Codes, NEW new \in QuestRow
    PROVE  FlushQuest(quests[d][c], Quest(d, c), new) = new
<1>1. Quest(d, c) \in QuestRow /\ Quest(d, c) # None
  BY QuestType, NoneIsNoValue
<1>2. CASE quests[d][c] = None
  BY <1>1, <1>2 DEF FlushQuest
<1>3. CASE quests[d][c] # None
  BY <1>1, <1>3 DEF FlushQuest, Quest, Column, QuestRow
<1>4. QED
  BY <1>2, <1>3

LEMMA FlushedAccount ==
    ASSUME NEW a \in Account, NEW new \in Account
    PROVE  FlushAccount(a, a, new) = new
BY DEF FlushAccount, Column, Account

\* The flush of a handler that writes: what it makes of the loaded quests is
\* what becomes of the committed ones.
LEMMA FlushAdvances ==
    ASSUME TypeOK, AllWellFormed, Fresh, NEW r \in Requests, Pending(r),
           NEW codes \in SUBSET Codes,
           \A c \in codes : snap[r].quests[c] # None,
           quests' = FlushQuests(r, ProgressCodes(snap[r].quests, codes))
    PROVE  Advances(op[r].day, codes)
<1> DEFINE day == op[r].day
           new == ProgressCodes(snap[r].quests, codes)
<1>1. pc[r] # "idle" /\ day \in Days
      /\ snap[r].quests \in [Codes -> QuestRow \cup {None}]
  BY InFlightType DEF Pending
<1>2. \A d \in Days, c \in Codes :
         quests'[d][c] =
            IF d = day
            THEN FlushQuest(quests[d][c], snap[r].quests[c], new[c])
            ELSE quests[d][c]
  BY <1>1, FlushedQuests
<1>3. ASSUME NEW d \in Days, NEW c \in Codes
      PROVE  Quest(d, c)' = IF d = day /\ c \in codes
                            THEN ProgressQuest(Quest(d, c), c) ELSE Quest(d, c)
  <2>1. CASE d # day
    BY <1>2, <2>1 DEF Quest
  <2>2. CASE d = day /\ snap[r].quests[c] = None
    BY <1>2, <2>2 DEF Quest, FlushQuest
  <2>3. CASE d = day /\ snap[r].quests[c] # None
    <3> DEFINE q == Quest(d, c)
    <3>1. snap[r].quests[c] = q /\ q \in QuestRow
      BY <2>3, LoadedQuest, QuestType
    <3>2. new[c] = IF c \in codes THEN ProgressQuest(q, c) ELSE q
      BY <3>1 DEF ProgressCodes
    <3>3. new[c] \in QuestRow
      BY <3>1, <3>2, ProgressQuestType
    <3>4. quests'[d][c] = new[c]
      BY <1>2, <2>3, <3>1, <3>3, FlushedRow
    <3>5. quests'[d][c] # None
      BY <3>3, <3>4, NoneIsNoValue
    <3>6. QED
      BY <2>3, <3>2, <3>4, <3>5 DEF Quest
  <2>4. QED
    BY <2>1, <2>2, <2>3
<1>4. QED
  BY <1>3 DEF Advances

LEMMA CommitCompletes ==
    ASSUME TypeOK, AllWellFormed, Fresh, NEW r \in Requests, CommitCompletion(r)
    PROVE  Completes(op[r].key, op[r].take, op[r].day)
<1> DEFINE t == op[r].take
           day == op[r].day
           k == op[r].key
           codes == Earning(t)
           paid == NewlyCompleted(Standing(day), codes)
           new == CompletedAccount(account, t, day, QuestXp(paid))
           xp == SessionXp(t, new.streak_count)
           stored == [sessions EXCEPT ![k] =
                         [take |-> t, session_xp |-> xp,
                          quest_xp |-> QuestXp(paid), day |-> day]]
           newQuests == ProgressCodes(Standing(day), codes)
           won == IF Eligible(t)
                  THEN NewBadges(new, Cardinality(EligibleSessions(stored)),
                                 newQuests)
                  ELSE {}
<1>1. /\ pc[r] = "settle" /\ op[r].kind = "complete" /\ ~op[r].replay
      /\ sessions[k] = None /\ k \in Keys /\ t \in Takes /\ day \in Days
      /\ snap[r] \in Snapshot
  BY DEF CommitCompletion, AllWellFormed, WellFormed, Op
<1>2. Pending(r) /\ UpToDate(r)
  BY <1>1 DEF Pending, Fresh
<1>3. /\ snap[r].account = account
      /\ NotAfter(account.xp_today_date, day)
      /\ NotAfter(account.streak_last_date, day)
  BY <1>2 DEF UpToDate
<1>4. LoadedAccount(r) = account
  BY <1>3 DEF LoadedAccount, TypeOK, Account
<1>5. Eligible(t) => snap[r].quests = Standing(day)
  <2>1. SUFFICES ASSUME Eligible(t) PROVE snap[r].quests = Standing(day)
    BY <2>1
  <2>2. snap[r].quests \in [Codes -> QuestRow]
    BY <1>1, <2>1 DEF AllWellFormed, WellFormed
  <2>3. \A c \in Codes : snap[r].quests[c] = Quest(day, c)
    BY <1>2, <2>2, LoadedQuest, NoneIsNoValue
  <2>4. QED
    BY <2>2, <2>3 DEF Standing
<1>6. NewlyCompleted(snap[r].quests, codes) = paid
  BY <1>5 DEF Earning, NewlyCompleted
<1>7. Eligible(t) => ProgressCodes(snap[r].quests, codes) = newQuests
  BY <1>5
<1>8. QuestXp(paid) \in Nat /\ new \in Account
  BY <1>1, QuestXpIsNat, CompletedAccountType DEF TypeOK
<1>9. Advances(day, codes)
  <2>1. codes \in SUBSET Codes
    BY DEF Earning, SessionCodes, Codes
  <2>2. \A c \in codes : snap[r].quests[c] # None
    BY <1>1, NoneIsNoValue, <2>1 DEF Earning, AllWellFormed, WellFormed
  <2>3. quests' = FlushQuests(r, ProgressCodes(snap[r].quests, codes))
    BY DEF CommitCompletion, Earning
  <2>4. QED
    BY <1>2, <2>1, <2>2, <2>3, FlushAdvances
<1>10. account' = new
  <2>1. account' = FlushAccount(account, LoadedAccount(r),
                      CompletedAccount(LoadedAccount(r), t, day,
                         QuestXp(NewlyCompleted(snap[r].quests, codes))))
    BY DEF CommitCompletion, Earning
  <2>2. account' = FlushAccount(account, account, new)
    BY <1>4, <1>6, <2>1
  <2>3. account \in Account
    BY DEF TypeOK
  <2> HIDE DEF new
  <2>4. QED
    BY <1>8, <2>2, <2>3, FlushedAccount
<1>11. sessions' = stored /\ badges' = badges \cup won
  BY <1>4, <1>6, <1>7 DEF CommitCompletion, Earning
<1>12. Pays(day, paid, xp + QuestXp(paid)) /\ events'.reviewed = events.reviewed
  <2>1. events' =
          [events EXCEPT
             !.completed[k] = @ + 1,
             !.paid[day] = [c \in Codes |-> IF c \in paid THEN @[c] + 1 ELSE @[c]],
             !.badge = [b \in Badges |-> IF b \in won THEN @[b] + 1 ELSE @[b]],
             !.xp = @ + (xp + QuestXp(paid)),
             !.xpOn[day] = @ + (xp + QuestXp(paid))]
    BY <1>4, <1>6, <1>7 DEF CommitCompletion, Earning
  <2>2. events \in Events
    BY DEF TypeOK
  <2> HIDE DEF paid, xp, won
  <2>3. QED
    BY <2>1, <2>2 DEF Pays, Events
<1>13. QED
  BY <1>1, <1>3, <1>9, <1>10, <1>11, <1>12 DEF Completes

LEMMA CommitReviews ==
    ASSUME TypeOK, AllWellFormed, Fresh, NEW r \in Requests, CommitReview(r)
    PROVE  Reviews(op[r].day)
<1> DEFINE day == op[r].day
           paid == NewlyCompleted(Standing(day), {"vocab_10"})
           xp == QuestXp(paid)
           reviewed == [account EXCEPT !.reps = @ + 1]
           new == IF xp > 0 THEN ApplySessionXp(reviewed, xp, day) ELSE reviewed
<1>1. /\ pc[r] = "settle" /\ op[r].kind = "review" /\ day \in Days
      /\ snap[r].quests \in [Codes -> QuestRow]
  BY DEF CommitReview, AllWellFormed, WellFormed, Op
<1>2. Pending(r) /\ UpToDate(r)
  BY <1>1 DEF Pending, Fresh
<1>3. snap[r].account = account /\ NotAfter(account.xp_today_date, day)
  BY <1>2 DEF UpToDate
<1>4. snap[r].quests = Standing(day)
  <2>1. \A c \in Codes : snap[r].quests[c] = Quest(day, c)
    BY <1>1, <1>2, LoadedQuest, NoneIsNoValue
  <2>2. QED
    BY <1>1, <2>1 DEF Standing
<1>5. xp \in Nat /\ reviewed \in Account
  <2>1. xp \in Nat
    BY QuestXpIsNat
  <2>2. account \in Account /\ account.reps + 1 \in Nat
    BY DEF TypeOK, Account
  <2>3. reviewed \in Account
    BY <2>2 DEF Account
  <2>4. QED
    BY <2>1, <2>3
<1>6. new \in Account
  BY <1>1, <1>5, ApplySessionXpType
<1>7. account' = new
  <2>1. account' = FlushAccount(account, account, new)
    BY <1>3, <1>4 DEF CommitReview
  <2>2. account \in Account
    BY DEF TypeOK
  <2> HIDE DEF new
  <2>3. QED
    BY <1>6, <2>1, <2>2, FlushedAccount
<1>8. Advances(day, {"vocab_10"})
  <2>1. {"vocab_10"} \in SUBSET Codes
    BY DEF Codes
  <2>2. \A c \in {"vocab_10"} : snap[r].quests[c] # None
    BY <1>1, NoneIsNoValue, <2>1
  <2>3. quests' = FlushQuests(r, ProgressCodes(snap[r].quests, {"vocab_10"}))
    BY DEF CommitReview
  <2>4. QED
    BY <1>2, <2>1, <2>2, <2>3, FlushAdvances
<1>9. Pays(day, paid, xp)
      /\ events'.reviewed = [events.reviewed EXCEPT ![day] = @ + 1]
  <2>1. events' =
          [events EXCEPT
             !.paid[day] = [c \in Codes |-> IF c \in paid THEN @[c] + 1 ELSE @[c]],
             !.reviewed[day] = @ + 1,
             !.xp = @ + xp,
             !.xpOn[day] = @ + xp]
    BY <1>4 DEF CommitReview
  <2>2. events \in Events
    BY DEF TypeOK
  <2> HIDE DEF paid, xp
  <2>3. QED
    BY <2>1, <2>2 DEF Pays, Events
<1>10. UNCHANGED <<sessions, badges>>
  BY DEF CommitReview
<1>11. QED
  BY <1>3, <1>7, <1>8, <1>9, <1>10 DEF Reviews

\* A handler that only made sure that the quests exist.
LEMMA CommitReadRests ==
    ASSUME TypeOK, AllWellFormed, Fresh, NEW r \in Requests, CommitRead(r)
    PROVE  Rests
<1> DEFINE day == op[r].day
<1>1. /\ pc[r] = "settle" /\ snap[r].quests \in [Codes -> QuestRow]
      /\ quests' = FlushQuests(r, snap[r].quests)
      /\ UNCHANGED <<account, sessions, badges, events>>
  BY DEF CommitRead, ReadOnly, AllWellFormed, WellFormed
<1>2. \A d \in Days, c \in Codes :
         quests'[d][c] =
            IF d = day
            THEN FlushQuest(quests[d][c], snap[r].quests[c], snap[r].quests[c])
            ELSE quests[d][c]
  BY <1>1, FlushedQuests
<1>3. \A c \in Codes : quests[day][c] = None
                          => snap[r].quests[c] \in {None, FreshQuest}
  BY <1>1 DEF Fresh, UpToDate
<1>4. ASSUME NEW d \in Days, NEW c \in Codes PROVE Quest(d, c)' = Quest(d, c)
  <2>1. CASE d # day
    BY <1>2, <2>1 DEF Quest
  <2>2. CASE d = day /\ quests[d][c] = None
    BY <1>2, <1>3, <2>2 DEF Quest, FlushQuest
  <2>3. CASE d = day /\ quests[d][c] # None
    <3>1. quests[d][c] \in QuestRow
      BY <2>3, QuestType
    <3>2. quests'[d][c] = quests[d][c]
      BY <1>2, <2>3, <3>1 DEF FlushQuest, Column, QuestRow
    <3>3. QED
      BY <3>2 DEF Quest
  <2>4. QED
    BY <2>1, <2>2, <2>3
<1>5. QED
  BY <1>1, <1>4 DEF Rests, Advances

LEMMA StepEffect ==
    ASSUME TypeOK, AllWellFormed, Fresh, [Next]_vars
    PROVE  \/ \E r \in Requests : CommitCompletion(r)
                                  /\ Completes(op[r].key, op[r].take, op[r].day)
           \/ \E r \in Requests : CommitReview(r) /\ Reviews(op[r].day)
           \/ Rests
<1>1. CASE \E r \in Requests : CommitCompletion(r)
  BY <1>1, CommitCompletes
<1>2. CASE \E r \in Requests : CommitReview(r)
  BY <1>2, CommitReviews
<1>3. CASE \E r \in Requests : CommitRead(r)
  BY <1>3, CommitReadRests
<1>4. CASE UNCHANGED <<account, quests, sessions, badges, events>>
  BY <1>4 DEF Rests, Advances, Quest
<1>5. QED
  BY <1>1, <1>2, <1>3, <1>4
  DEF Next, Arrive, Progress, PostComplete, PostReview, GetQuests, Authenticate,
      FirstCompletion, ScenarioNotFound, Replay, SessionConflict, QuestsExist,
      PlaceQuests, CheckForeignKey, DeadlockVictim, LoseInsert,
      RecoverByReplay, Fail, NextDay, Upgrade, vars, db

LEMMA CompletedAccountDates ==
    ASSUME NEW a \in Account, NEW t, NEW day, NEW questXp
    PROVE  /\ CompletedAccount(a, t, day, questXp).xp_today_date = day
           /\ CompletedAccount(a, t, day, questXp).streak_last_date
                 = IF Eligible(t) THEN day ELSE a.streak_last_date
BY DEF CompletedAccount, ApplySessionXp, UpdateStreak, Account

\* Every step keeps the handlers that have something to write up to date.
LEMMA NextStaysFresh ==
    ASSUME Overlap = "duplicates", TypeOK, AllWellFormed, Fresh, [Next]_vars
    PROVE  Fresh'
<1>1. ASSUME NEW r \in Requests, Arrive(r) PROVE Fresh'
  BY <1>1, ArriveStaysFresh
<1>2. ASSUME NEW r \in Requests, Progress(r) PROVE Fresh'
  <2>1. CASE FirstCompletion(r) \/ Replay(r) \/ LoseInsert(r) \/ RecoverByReplay(r)
    BY <2>1, LockStepStaysFresh
  <2>2. CASE ScenarioNotFound(r) \/ SessionConflict(r) \/ DeadlockVictim(r)
    BY <2>2, FinishStaysFresh
    DEF ScenarioNotFound, SessionConflict, DeadlockVictim, db
  <2>3. CASE QuestsExist(r) \/ PlaceQuests(r) \/ CheckForeignKey(r)
    BY <2>3, EnsureStepStaysFresh
  <2>4. CASE CommitCompletion(r)
    <3> DEFINE t == op[r].take
               codes == IF Eligible(t) THEN SessionCodes ELSE {}
               new == ProgressCodes(snap[r].quests, codes)
    <3>1. /\ pc[r] = "settle" /\ op[r].kind = "complete" /\ Finish(r)
          /\ UNCHANGED today /\ t \in Takes /\ op[r].day \in Days
          /\ op[r].day <= today
      BY <2>4, InFlightType DEF CommitCompletion, Fresh, UpToDate
    <3>2. /\ \A c \in Codes : snap[r].quests[c] # None => new[c] \in QuestRow
          /\ new \in [Codes -> QuestRow \cup {None}]
      <4>1. snap[r].quests \in [Codes -> QuestRow \cup {None}]
        BY <3>1, InFlightType
      <4>2. Eligible(t) => snap[r].quests \in [Codes -> QuestRow]
        BY <3>1 DEF AllWellFormed, WellFormed
      <4>3. \A c \in Codes :
               new[c] = IF c \in codes THEN ProgressQuest(snap[r].quests[c], c)
                        ELSE snap[r].quests[c]
        BY DEF ProgressCodes
      <4>4. new = [c \in Codes |-> new[c]]
        BY DEF ProgressCodes
      <4> HIDE DEF new
      <4>5. QED
        BY <4>1, <4>2, <4>3, <4>4, ProgressQuestType
    <3>3. quests' = FlushQuests(r, new)
      BY <2>4 DEF CommitCompletion
    <3>4. /\ \A d \in Days : AllOrNone(quests'[d])
          /\ \A d \in Days, c \in Codes : quests[d][c] # None => quests'[d][c] # None
      <4> HIDE DEF new
      <4>1. QED
        BY <3>1, <3>2, <3>3, FlushIsUniform
    <3>5. /\ \A k \in Keys : sessions[k] # None => sessions'[k] # None
          /\ sessions'[op[r].key] # None
      BY <2>4, CommitStores
    <3>6. NotAfter(account.xp_today_date, today)'
          /\ NotAfter(account.streak_last_date, today)'
      <4>1. Completes(op[r].key, t, op[r].day)
        BY <2>4, CommitCompletes
      <4>2. /\ account'.xp_today_date = op[r].day
            /\ account'.streak_last_date
                  = IF Eligible(t) THEN op[r].day ELSE account.streak_last_date
        BY <4>1, CompletedAccountDates DEF Completes, TypeOK
      <4>3. QED
        BY <3>1, <4>2 DEF NotAfter, Fresh
    <3>7. QED
      BY <3>1, <3>4, <3>5, <3>6, CommitStaysFresh
  <2>5. CASE CommitRead(r)
    <3>1. /\ pc[r] = "settle" /\ Finish(r) /\ UNCHANGED <<today, account, sessions>>
          /\ quests' = FlushQuests(r, snap[r].quests)
          /\ snap[r].quests \in [Codes -> QuestRow]
      BY <2>5 DEF CommitRead, ReadOnly, AllWellFormed, WellFormed
    <3>2. /\ \A d \in Days : AllOrNone(quests'[d])
          /\ \A d \in Days, c \in Codes : quests[d][c] # None => quests'[d][c] # None
      BY <3>1, FlushIsUniform
    <3>3. op[r].kind = "complete" => sessions'[op[r].key] # None
      BY <2>5, <3>1 DEF CommitRead, Fresh, UpToDate
    <3>4. NotAfter(account.xp_today_date, today)'
          /\ NotAfter(account.streak_last_date, today)'
      BY <3>1 DEF Fresh, NotAfter
    <3>5. QED
      BY <3>1, <3>2, <3>3, <3>4, CommitStaysFresh
  <2>6. CASE CommitReview(r)
    <3> DEFINE new == ProgressCodes(snap[r].quests, {"vocab_10"})
    <3>1. /\ pc[r] = "settle" /\ Finish(r) /\ UNCHANGED <<today, sessions>>
          /\ quests' = FlushQuests(r, new) /\ op[r].kind = "review"
          /\ snap[r].quests \in [Codes -> QuestRow]
          /\ op[r].day \in Days /\ op[r].day <= today
      BY <2>6, InFlightType DEF CommitReview, AllWellFormed, WellFormed, Fresh, UpToDate
    <3>2. new \in [Codes -> QuestRow]
      BY <3>1, ProgressCodesType
    <3>3. /\ \A d \in Days : AllOrNone(quests'[d])
          /\ \A d \in Days, c \in Codes : quests[d][c] # None => quests'[d][c] # None
      <4> HIDE DEF new
      <4>1. QED
        BY <3>1, <3>2, FlushIsUniform
    <3>4. NotAfter(account.xp_today_date, today)'
          /\ NotAfter(account.streak_last_date, today)'
      <4>1. Reviews(op[r].day)
        BY <2>6, CommitReviews
      <4>2. /\ account'.xp_today_date \in {op[r].day, account.xp_today_date}
            /\ account'.streak_last_date = account.streak_last_date
        BY <4>1 DEF Reviews, ApplySessionXp, TypeOK, Account
      <4>3. QED
        BY <3>1, <4>2 DEF NotAfter, Fresh
    <3>5. QED
      BY <3>1, <3>3, <3>4, CommitStaysFresh
  <2>7. QED
    BY <1>2, <2>1, <2>2, <2>3, <2>4, <2>5, <2>6 DEF Progress
<1>3. ASSUME NEW r \in Requests, Fail(r) PROVE Fresh'
  BY <1>3, FinishStaysFresh DEF Fail, db
<1>4. CASE NextDay \/ Upgrade \/ UNCHANGED vars
  <2>1. /\ UNCHANGED <<account, quests, sessions, pc, op, snap>>
        /\ today' = today \/ (today' = today + 1 /\ today < MaxDay)
    BY <1>4 DEF NextDay, Upgrade, vars, db
  <2>2. today \in Nat /\ today' \in Nat /\ today \in Days /\ today' \in Days /\ today <= today'
    BY <2>1, CompletionAssumption DEF TypeOK, Days, CompletionAssumption
  <2>3. ASSUME NEW r \in Requests, pc'[r] # "idle" PROVE UpToDate(r)'
    <3>1. UNCHANGED <<pc[r], op[r], snap[r]>>
      BY <2>1
    <3>2. pc[r] # "idle" /\ UpToDate(r) /\ op[r].day \in Nat
      BY <2>3, <3>1, InFlightType DEF Fresh
    <3>3. QED
      BY <2>1, <2>2, <3>1, <3>2, StaysUpToDate
  <2>4. NotAfter(account.xp_today_date, today)'
        /\ NotAfter(account.streak_last_date, today)'
    <3>1. /\ account.xp_today_date \in Nat \cup {None}
          /\ account.streak_last_date \in Nat \cup {None}
      BY DEF TypeOK, Account, Days
    <3>2. QED
      BY <2>1, <2>2, <3>1 DEF Fresh, NotAfter
  <2>5. QED
    BY <2>1, <2>3, <2>4 DEF Fresh, Alike, AllOrNone
<1>5. QED
  BY <1>1, <1>2, <1>3, <1>4 DEF Next

LEMMA InitFresh == ASSUME Init PROVE Fresh
BY DEF Init, Fresh, Alike, NotAfter, AllOrNone, NewAccount

LEMMA FreshInvariant ==
    ASSUME Overlap = "duplicates"
    PROVE  Spec => [](Inductive /\ Fresh)
<1>1. Init => Fresh
  BY InitFresh
<1>2. Inductive /\ Fresh /\ [Next]_vars => Fresh'
  BY NextStaysFresh DEF Inductive
<1>3. QED
  BY <1>1, <1>2, InductiveInvariant, PTL DEF Spec

\* The three kinds of steps, as the properties see them.
LEMMA StepCases ==
    ASSUME Inductive, Fresh, [Next]_vars
    PROVE  \/ \E k \in Keys, t \in Takes, day \in Days : Completes(k, t, day)
           \/ \E day \in Days : Reviews(day)
           \/ Rests
<1>1. ASSUME NEW r \in Requests, CommitCompletion(r)
      PROVE  op[r].key \in Keys /\ op[r].take \in Takes /\ op[r].day \in Days
  BY <1>1, InFlightType DEF CommitCompletion, Inductive
<1>2. ASSUME NEW r \in Requests, CommitReview(r) PROVE op[r].day \in Days
  BY <1>2, InFlightType DEF CommitReview, Inductive
<1>3. QED
  BY <1>1, <1>2, StepEffect DEF Inductive

(***************************************************************************)
(* Quests: each is paid when it is completed, and counts its day.          *)
(***************************************************************************)

PaidWhenCompleted ==
    \A d \in Days, c \in Codes :
        events.paid[d][c] = IF Quest(d, c).completed THEN 1 ELSE 0

LEMMA PaysWhatCompletes ==
    ASSUME TypeOK, PaidWhenCompleted, NEW day \in Days, NEW codes \in SUBSET Codes,
           NEW xp, Pays(day, NewlyCompleted(Standing(day), codes), xp),
           Advances(day, codes)
    PROVE  PaidWhenCompleted'
<1> DEFINE paid == NewlyCompleted(Standing(day), codes)
<1>1. events.paid \in [Days -> [Codes -> Nat]]
  BY DEF TypeOK, Events
<1>2. \A c \in Codes : c \in paid <=> /\ c \in codes /\ ~Quest(day, c).completed
                                      /\ ProgressQuest(Quest(day, c), c).completed
  BY DEF NewlyCompleted, Standing
<1>3. ASSUME NEW d \in Days, NEW c \in Codes
      PROVE  events'.paid[d][c] = IF Quest(d, c)'.completed THEN 1 ELSE 0
  <2>1. events.paid[d][c] = IF Quest(d, c).completed THEN 1 ELSE 0
    BY DEF PaidWhenCompleted
  <2>2. Quest(d, c)' = IF d = day /\ c \in codes
                       THEN ProgressQuest(Quest(d, c), c) ELSE Quest(d, c)
    BY DEF Advances
  <2>3. events'.paid[d][c] = IF d = day /\ c \in paid THEN events.paid[d][c] + 1
                             ELSE events.paid[d][c]
    <3> HIDE DEF paid
    <3>1. events'.paid = [events.paid EXCEPT ![day] =
             [e \in Codes |-> IF e \in paid THEN @[e] + 1 ELSE @[e]]]
      BY DEF Pays, paid
    <3>2. QED
      BY <1>1, <3>1
  <2>4. Quest(d, c).completed => ProgressQuest(Quest(d, c), c).completed
    BY DEF ProgressQuest
  <2> HIDE DEF paid
  <2>5. QED
    BY <1>2, <2>1, <2>2, <2>3, <2>4
<1>4. QED
  BY <1>3 DEF PaidWhenCompleted

LEMMA EarningCodes == \A t : Earning(t) \in SUBSET Codes
BY DEF Earning, SessionCodes, Codes

\* No quest of a local date is paid twice, whoever retries or races.
THEOREM QuestsPayOnce ==
    ASSUME Overlap = "duplicates"
    PROVE  Spec => []QuestsPaidOnce
<1>1. Init => PaidWhenCompleted
  BY DEF Init, PaidWhenCompleted, NoEvents, Quest, FreshQuest
<1>2. ASSUME Inductive, Fresh, PaidWhenCompleted, [Next]_vars
      PROVE  PaidWhenCompleted'
  <2>1. ASSUME NEW k \in Keys, NEW t \in Takes, NEW day \in Days,
               Completes(k, t, day)
        PROVE  PaidWhenCompleted'
    BY <1>2, <2>1, PaysWhatCompletes, EarningCodes DEF Completes, Inductive
  <2>2. ASSUME NEW day \in Days, Reviews(day)
        PROVE  PaidWhenCompleted'
    <3>1. {"vocab_10"} \in SUBSET Codes
      BY DEF Codes
    <3>2. QED
      BY <1>2, <2>2, <3>1, PaysWhatCompletes DEF Reviews, Inductive
  <2>3. CASE Rests
    BY <1>2, <2>3 DEF Rests, Advances, PaidWhenCompleted
  <2>4. QED
    BY <1>2, <2>1, <2>2, <2>3, StepCases
<1>3. PaidWhenCompleted => QuestsPaidOnce
  BY DEF PaidWhenCompleted, QuestsPaidOnce
<1>4. QED
  BY <1>1, <1>2, <1>3, FreshInvariant, PTL DEF Spec

(***************************************************************************)
(* What a completion adds to the history.                                  *)
(***************************************************************************)

LEMMA CompletionAdds ==
    ASSUME TypeOK, NEW k \in Keys, NEW t \in Takes, NEW day \in Days,
           Completes(k, t, day)
    PROVE  /\ sessions[k] = None /\ sessions' \in [Keys -> SessionRow \cup {None}]
           /\ sessions'[k] # None /\ sessions'[k] \in SessionRow
           /\ sessions'[k].take = t /\ sessions'[k].day = day
           /\ \A e \in Keys : e # k => sessions'[e] = sessions[e]
           /\ account' \in Account
<1> DEFINE paid == NewlyCompleted(Standing(day), Earning(t))
           new == CompletedAccount(account, t, day, QuestXp(paid))
           xp == SessionXp(t, new.streak_count)
           row == [take |-> t, session_xp |-> xp, quest_xp |-> QuestXp(paid),
                   day |-> day]
<1>1. new \in Account
  BY CompletedAccountType, QuestXpIsNat DEF TypeOK
<1>2. xp \in Nat
  <2>1. new.streak_count \in Nat
    BY <1>1 DEF Account
  <2>2. QED
    BY <2>1, SessionXpIsNat
<1>3. sessions[k] = None /\ sessions' = [sessions EXCEPT ![k] = row]
      /\ account' = new
  BY DEF Completes
<1> HIDE DEF new, xp
<1>4. row \in SessionRow
  BY <1>2, QuestXpIsNat DEF SessionRow
<1>5. row.take = t /\ row.day = day
  OBVIOUS
<1> HIDE DEF row
<1>6. QED
  BY <1>1, <1>3, <1>4, <1>5, NoneIsNoValue DEF TypeOK

LEMMA EligibleGrows ==
    ASSUME TypeOK, NEW k \in Keys, NEW t \in Takes, NEW day \in Days,
           Completes(k, t, day)
    PROVE  /\ k \notin EligibleSessions(sessions)
           /\ EligibleSessions(sessions)' =
                 EligibleSessions(sessions) \cup (IF Eligible(t) THEN {k} ELSE {})
           /\ \A d \in Days : EligibleOn(d)' =
                 EligibleOn(d) \cup (IF Eligible(t) /\ d = day THEN {k} ELSE {})
           /\ PracticeDays' =
                 PracticeDays \cup (IF Eligible(t) THEN {day} ELSE {})
<1>1. /\ sessions[k] = None /\ sessions'[k] # None
      /\ sessions'[k].take = t /\ sessions'[k].day = day
      /\ \A e \in Keys : e # k => sessions'[e] = sessions[e]
  BY CompletionAdds
<1>2. k \notin EligibleSessions(sessions)
  BY <1>1 DEF EligibleSessions
<1>3. ASSUME NEW e \in Keys
      PROVE  e \in EligibleSessions(sessions)' <=>
                e \in EligibleSessions(sessions) \/ (e = k /\ Eligible(t))
  BY <1>1 DEF EligibleSessions
<1>4. EligibleSessions(sessions) \subseteq Keys
      /\ EligibleSessions(sessions)' \subseteq Keys
  BY DEF EligibleSessions
<1>5. EligibleSessions(sessions)' =
         EligibleSessions(sessions) \cup (IF Eligible(t) THEN {k} ELSE {})
  BY <1>3, <1>4
<1>6. ASSUME NEW d \in Days
      PROVE  EligibleOn(d)' =
                EligibleOn(d) \cup (IF Eligible(t) /\ d = day THEN {k} ELSE {})
  <2>1. \A e \in EligibleSessions(sessions) : e # k /\ sessions'[e].day = sessions[e].day
    BY <1>1, <1>2, <1>4
  <2>2. QED
    BY <1>1, <1>5, <2>1 DEF EligibleOn
<1>7. PracticeDays' = PracticeDays \cup (IF Eligible(t) THEN {day} ELSE {})
  <2>1. \A e \in EligibleSessions(sessions) : sessions'[e].day = sessions[e].day
    BY <1>1, <1>2, <1>4
  <2>2. QED
    BY <1>1, <1>5, <2>1 DEF PracticeDays
<1>8. QED
  BY <1>2, <1>5, <1>6, <1>7

LEMMA EligibleFinite ==
    /\ \A d : IsFiniteSet(EligibleOn(d)) /\ Cardinality(EligibleOn(d)) \in Nat
    /\ IsFiniteSet(EligibleSessions(sessions))
    /\ Cardinality(EligibleSessions(sessions)) \in Nat
<1>1. IsFiniteSet(Keys)
  BY KeysAssumption DEF KeysAssumption
<1>2. EligibleSessions(sessions) \in SUBSET Keys
      /\ \A d : EligibleOn(d) \in SUBSET Keys
  BY DEF EligibleSessions, EligibleOn
<1>3. QED
  BY <1>1, <1>2, FS_Subset, FS_CardinalityType

\* the sessions or reviews that advance a quest
Done(d, c) == IF c = "vocab_10" THEN events.reviewed[d]
              ELSE Cardinality(EligibleOn(d))

QuestCounts ==
    \A d \in Days, c \in Codes :
        /\ Quest(d, c).progress = Min2(Done(d, c), Target[c])
        /\ Quest(d, c).completed <=> Done(d, c) >= Target[c]

LEMMA DoneIsNat ==
    ASSUME TypeOK, NEW d \in Days, NEW c \in Codes
    PROVE  Done(d, c) \in Nat /\ Target[c] \in Nat /\ Target[c] > 0
<1>1. events.reviewed[d] \in Nat
  BY DEF TypeOK, Events
<1>2. Target[c] \in Nat /\ Target[c] > 0
  BY CompletionAssumption DEF CompletionAssumption, Target, Codes
<1>3. QED
  BY <1>1, <1>2, EligibleFinite DEF Done

\* One more session or review, one increment.
LEMMA CountAdvances ==
    ASSUME TypeOK, QuestCounts, NEW day \in Days, NEW codes \in SUBSET Codes,
           Advances(day, codes),
           \A d \in Days, c \in Codes :
              Done(d, c)' = IF d = day /\ c \in codes THEN Done(d, c) + 1
                            ELSE Done(d, c)
    PROVE  QuestCounts'
<1> SUFFICES ASSUME NEW d \in Days, NEW c \in Codes
             PROVE  /\ Quest(d, c)'.progress = Min2(Done(d, c)', Target[c])
                    /\ Quest(d, c)'.completed <=> Done(d, c)' >= Target[c]
  BY DEF QuestCounts
<1>1. /\ Quest(d, c).progress = Min2(Done(d, c), Target[c])
      /\ Quest(d, c).completed <=> Done(d, c) >= Target[c]
  BY DEF QuestCounts
<1>2. Done(d, c) \in Nat /\ Target[c] \in Nat
  BY DoneIsNat
<1>3. CASE d = day /\ c \in codes
  <2>1. Quest(d, c)' = ProgressQuest(Quest(d, c), c) /\ Done(d, c)' = Done(d, c) + 1
    BY <1>3 DEF Advances
  <2>2. CASE Quest(d, c).completed
    BY <1>1, <1>2, <2>1, <2>2 DEF ProgressQuest, Min2
  <2>3. CASE ~Quest(d, c).completed
    <3>1. /\ Quest(d, c).progress = Done(d, c)
          /\ ~(Done(d, c) >= Target[c])
      BY <1>1, <1>2, <2>3 DEF Min2
    <3>2. Quest(d, c)' = [progress |-> Min2(Done(d, c) + 1, Target[c]),
                          completed |-> Done(d, c) + 1 >= Target[c]]
      BY <2>1, <2>3, <3>1 DEF ProgressQuest
    <3>3. /\ Quest(d, c)'.progress = Min2(Done(d, c) + 1, Target[c])
          /\ Quest(d, c)'.completed = (Done(d, c) + 1 >= Target[c])
      BY <3>2
    <3>4. QED
      BY <2>1, <3>3
  <2>4. QED
    BY <2>2, <2>3
<1>4. CASE ~(d = day /\ c \in codes)
  BY <1>1, <1>4 DEF Advances
<1>5. QED
  BY <1>3, <1>4

LEMMA NextKeepsQuestCounts ==
    ASSUME Inductive, Fresh, QuestCounts, [Next]_vars
    PROVE  QuestCounts'
<1>1. ASSUME NEW k \in Keys, NEW t \in Takes, NEW day \in Days,
             Completes(k, t, day)
      PROVE  QuestCounts'
  <2>1. ASSUME NEW d \in Days, NEW c \in Codes
        PROVE  Done(d, c)' = IF d = day /\ c \in Earning(t) THEN Done(d, c) + 1
                             ELSE Done(d, c)
    <3>1. events'.reviewed = events.reviewed
      BY <1>1 DEF Completes
    <3>2. k \notin EligibleOn(d)
          /\ EligibleOn(d)' =
                EligibleOn(d) \cup (IF Eligible(t) /\ d = day THEN {k} ELSE {})
      BY <1>1, EligibleGrows DEF Inductive, EligibleOn
    <3>3. Cardinality(EligibleOn(d)') =
             IF Eligible(t) /\ d = day THEN Cardinality(EligibleOn(d)) + 1
             ELSE Cardinality(EligibleOn(d))
      <4>1. CASE Eligible(t) /\ d = day
        BY <3>2, <4>1, EligibleFinite, FS_AddElement
      <4>2. CASE ~(Eligible(t) /\ d = day)
        <5>1. EligibleOn(d)' = EligibleOn(d)
          BY <3>2, <4>2
        <5>2. QED
          BY <4>2, <5>1
      <4>3. QED
        BY <4>1, <4>2
    <3>4. Done(d, c)' = IF c = "vocab_10" THEN events'.reviewed[d]
                        ELSE Cardinality(EligibleOn(d)')
      BY DEF Done
    <3>5. c \in Earning(t) <=> Eligible(t) /\ c # "vocab_10"
      BY DEF Earning, SessionCodes, Codes
    <3>6. QED
      BY <3>1, <3>3, <3>4, <3>5 DEF Done
  <2>2. QED
    BY <1>1, <2>1, CountAdvances, EarningCodes DEF Completes, Inductive
<1>2. ASSUME NEW day \in Days, Reviews(day)
      PROVE  QuestCounts'
  <2>1. {"vocab_10"} \in SUBSET Codes
    BY DEF Codes
  <2>2. \A d \in Days : EligibleOn(d)' = EligibleOn(d)
    BY <1>2 DEF Reviews, EligibleOn, EligibleSessions
  <2>3. \A d \in Days :
           events'.reviewed[d] = IF d = day THEN events.reviewed[d] + 1
                                 ELSE events.reviewed[d]
    BY <1>2 DEF Reviews, Inductive, TypeOK, Events
  <2>4. ASSUME NEW d \in Days, NEW c \in Codes
        PROVE  Done(d, c)' = IF d = day /\ c \in {"vocab_10"} THEN Done(d, c) + 1
                             ELSE Done(d, c)
    <3>1. Done(d, c)' = IF c = "vocab_10" THEN events'.reviewed[d]
                        ELSE Cardinality(EligibleOn(d)')
      BY DEF Done
    <3>2. QED
      BY <2>2, <2>3, <3>1 DEF Done
  <2>5. QED
    BY <1>2, <2>1, <2>4, CountAdvances DEF Reviews, Inductive
<1>3. CASE Rests
  <2>1. \A d \in Days, c \in Codes : Quest(d, c)' = Quest(d, c)
    BY <1>3 DEF Rests, Advances
  <2>2. \A d \in Days, c \in Codes : Done(d, c)' = Done(d, c)
    BY <1>3 DEF Rests, Done, EligibleOn, EligibleSessions
  <2>3. QED
    BY <2>1, <2>2 DEF QuestCounts
<1>4. QED
  BY <1>1, <1>2, <1>3, StepCases

\* Each quest stands where the day's sessions and reviews put it, and is
\* completed at its target, whichever handler created its rows.
THEOREM QuestsFollowHistory ==
    ASSUME Overlap = "duplicates"
    PROVE  Spec => []QuestsMatchHistory
<1>1. Init => QuestCounts
  <2> SUFFICES ASSUME Init, NEW d \in Days, NEW c \in Codes
               PROVE  /\ Quest(d, c).progress = Min2(Done(d, c), Target[c])
                      /\ Quest(d, c).completed <=> Done(d, c) >= Target[c]
    BY DEF QuestCounts
  <2>1. Done(d, c) = 0
    <3>1. EligibleOn(d) = {} /\ events.reviewed[d] = 0
      BY DEF Init, EligibleOn, EligibleSessions, NoEvents
    <3>2. QED
      BY <3>1, FS_EmptySet DEF Done
  <2>2. Quest(d, c) = FreshQuest
    BY DEF Init, Quest
  <2>3. Target[c] \in Nat /\ Target[c] > 0
    BY InitType, DoneIsNat
  <2>4. QED
    BY <2>1, <2>2, <2>3 DEF FreshQuest, Min2
<1>2. Inductive /\ QuestCounts => QuestsMatchHistory
  <2> SUFFICES ASSUME Inductive, QuestCounts, NEW d \in Days, NEW c \in Codes
               PROVE  IF quests[d][c] = None THEN Done(d, c) = 0
                      ELSE /\ quests[d][c].progress = Min2(Done(d, c), Target[c])
                           /\ quests[d][c].completed = (Done(d, c) >= Target[c])
    BY DEF QuestsMatchHistory, Done
  <2>1. Done(d, c) \in Nat /\ Target[c] \in Nat /\ Target[c] > 0
    BY DoneIsNat DEF Inductive
  <2>2. /\ Quest(d, c).progress = Min2(Done(d, c), Target[c])
        /\ Quest(d, c).completed <=> Done(d, c) >= Target[c]
    BY DEF QuestCounts
  <2>3. CASE quests[d][c] = None
    <3>1. Min2(Done(d, c), Target[c]) = 0
      BY <2>2, <2>3 DEF Quest, FreshQuest
    <3>2. QED
      BY <2>1, <2>3, <3>1 DEF Min2
  <2>4. CASE quests[d][c] # None
    <3>1. quests[d][c] = Quest(d, c)
      BY <2>4 DEF Quest
    <3>2. quests[d][c].completed \in BOOLEAN
      BY <3>1, QuestType DEF Inductive, QuestRow
    <3>3. quests[d][c].completed = (Done(d, c) >= Target[c])
      BY <2>2, <3>1, <3>2
    <3>4. QED
      BY <2>2, <2>4, <3>1, <3>3
  <2>5. QED
    BY <2>3, <2>4
<1>3. QED
  BY <1>1, <1>2, NextKeepsQuestCounts, FreshInvariant, PTL DEF Spec

(***************************************************************************)
(* XP: the account against the event log.                                  *)
(***************************************************************************)

\* ... and nothing is logged for a local date after the last one
Balanced ==
    /\ account.total_xp = events.xp
    /\ account.xp_today_date # None
          => account.xp_today = events.xpOn[account.xp_today_date]
    /\ \A d \in Days :
          account.xp_today_date = None \/ d > account.xp_today_date
             => events.xpOn[d] = 0

LEMMA BalanceKept ==
    ASSUME TypeOK, Balanced, NEW day \in Days, NEW paid, NEW xp \in Nat,
           NotAfter(account.xp_today_date, day), Pays(day, paid, xp),
           account'.total_xp = account.total_xp + xp,
           account'.xp_today_date = day,
           account'.xp_today = (IF account.xp_today_date = day
                                THEN account.xp_today ELSE 0) + xp
    PROVE  Balanced'
<1>1. /\ events.xpOn \in [Days -> Nat] /\ day \in Nat
      /\ account.xp_today_date \in Days \cup {None}
      /\ account.xp_today_date # None => account.xp_today_date \in Nat
  BY DEF TypeOK, Events, Account, Days
<1>2. \A d \in Days : events'.xpOn[d] = IF d = day THEN events.xpOn[d] + xp
                                        ELSE events.xpOn[d]
  BY <1>1 DEF Pays
<1>3. account.xp_today_date # day => events.xpOn[day] = 0
  BY <1>1 DEF Balanced, NotAfter
<1>4. account'.total_xp = events'.xp
  BY DEF Balanced, Pays
<1>5. account'.xp_today = events'.xpOn[account'.xp_today_date]
  <2>1. CASE account.xp_today_date = day
    <3>1. day # None
      BY NoneIsNoValue
    <3>2. QED
      BY <1>2, <2>1, <3>1 DEF Balanced
  <2>2. CASE account.xp_today_date # day
    BY <1>2, <1>3, <2>2
  <2>3. QED
    BY <2>1, <2>2
<1>6. ASSUME NEW d \in Days, d > day PROVE events'.xpOn[d] = 0
  <2>1. d \in Nat
    BY DEF Days
  <2>2. account.xp_today_date = None \/ d > account.xp_today_date
    BY <1>1, <1>6, <2>1 DEF NotAfter
  <2>3. QED
    BY <1>1, <1>2, <1>6, <2>1, <2>2 DEF Balanced
<1>7. account'.xp_today_date # None
  BY NoneIsNoValue
<1>8. QED
  BY <1>4, <1>5, <1>6, <1>7 DEF Balanced

LEMMA CompletedAccountXp ==
    ASSUME NEW a \in Account, NEW t \in Takes, NEW day \in Days, NEW q \in Nat,
           NEW new, new = CompletedAccount(a, t, day, q)
    PROVE  /\ SessionXp(t, new.streak_count) + q \in Nat
           /\ new.total_xp = a.total_xp + (SessionXp(t, new.streak_count) + q)
           /\ new.xp_today_date = day
           /\ new.xp_today = (IF a.xp_today_date = day THEN a.xp_today ELSE 0)
                                + (SessionXp(t, new.streak_count) + q)
<1> DEFINE played == IF Eligible(t) THEN UpdateStreak(a, day) ELSE a
           xp == SessionXp(t, played.streak_count) + q
           paid == ApplySessionXp(played, xp, day)
<1>1. played \in Account
  BY UpdateStreakType
<1>2. /\ played.total_xp = a.total_xp /\ played.xp_today_date = a.xp_today_date
      /\ played.xp_today = a.xp_today
  BY DEF UpdateStreak, Account
<1>3. xp \in Nat
  <2>1. played.streak_count \in Nat
    BY <1>1 DEF Account
  <2>2. QED
    BY <2>1, SessionXpIsNat
<1> HIDE DEF played
<1>4. /\ paid.total_xp = played.total_xp + xp
      /\ paid.xp_today_date = day /\ paid.streak_count = played.streak_count
      /\ paid.xp_today = (IF played.xp_today_date = day THEN played.xp_today
                          ELSE 0) + xp
  BY <1>1 DEF ApplySessionXp, Account
<1>5. paid \in Account
  BY <1>1, <1>3, ApplySessionXpType
<1>6. new = [paid EXCEPT !.total_speaking_seconds = @ + t.duration,
                         !.scored = IF Eligible(t) THEN @ + 1 ELSE @]
  BY DEF CompletedAccount, played
<1> HIDE DEF paid
<1>7. /\ new.total_xp = paid.total_xp /\ new.xp_today_date = paid.xp_today_date
      /\ new.xp_today = paid.xp_today /\ new.streak_count = paid.streak_count
  BY <1>5, <1>6 DEF Account
<1>8. QED
  BY <1>2, <1>3, <1>4, <1>7

\* XP is neither lost nor paid twice, and the daily counter is that of its
\* local date: apply_session_xp resets it when the date changes.
THEOREM XpIsLedger ==
    ASSUME Overlap = "duplicates"
    PROVE  Spec => []LedgerBalances
<1>1. Init => Balanced
  BY DEF Init, Balanced, NewAccount, NoEvents
<1>2. ASSUME Inductive, Fresh, Balanced, [Next]_vars
      PROVE  Balanced'
  <2>1. account \in Account /\ TypeOK
    BY <1>2 DEF Inductive, TypeOK
  <2>2. ASSUME NEW k \in Keys, NEW t \in Takes, NEW day \in Days,
               Completes(k, t, day)
        PROVE  Balanced'
    <3> DEFINE paid == NewlyCompleted(Standing(day), Earning(t))
               new == CompletedAccount(account, t, day, QuestXp(paid))
               xp == SessionXp(t, new.streak_count) + QuestXp(paid)
    <3>1. account' = new /\ Pays(day, paid, xp)
          /\ NotAfter(account.xp_today_date, day)
      BY <2>2 DEF Completes
    <3>2. QuestXp(paid) \in Nat
      BY QuestXpIsNat
    <3> HIDE DEF paid
    <3>3. /\ xp \in Nat /\ new.total_xp = account.total_xp + xp
          /\ new.xp_today_date = day
          /\ new.xp_today = (IF account.xp_today_date = day
                             THEN account.xp_today ELSE 0) + xp
      BY <2>1, <3>2, CompletedAccountXp
    <3> HIDE DEF new, xp
    <3>4. QED
      BY <1>2, <2>1, <3>1, <3>3, BalanceKept
  <2>3. ASSUME NEW day \in Days, Reviews(day)
        PROVE  Balanced'
    <3> DEFINE paid == NewlyCompleted(Standing(day), {"vocab_10"})
               xp == QuestXp(paid)
               reviewed == [account EXCEPT !.reps = @ + 1]
    <3>1. /\ account' = IF xp > 0 THEN ApplySessionXp(reviewed, xp, day)
                        ELSE reviewed
          /\ Pays(day, paid, xp) /\ NotAfter(account.xp_today_date, day)
          /\ xp \in Nat
      BY <2>3, QuestXpIsNat DEF Reviews
    <3>2. /\ reviewed.total_xp = account.total_xp
          /\ reviewed.xp_today = account.xp_today
          /\ reviewed.xp_today_date = account.xp_today_date
          /\ reviewed \in Account
      <4>1. account.reps + 1 \in Nat
        BY <2>1 DEF Account
      <4>2. QED
        BY <2>1, <4>1 DEF Account
    <3> HIDE DEF reviewed, xp, paid
    <3>3. CASE xp > 0
      <4>1. /\ account'.total_xp = account.total_xp + xp
            /\ account'.xp_today_date = day
            /\ account'.xp_today = (IF account.xp_today_date = day
                                    THEN account.xp_today ELSE 0) + xp
        BY <3>1, <3>2, <3>3 DEF ApplySessionXp, Account
      <4>2. QED
        BY <1>2, <2>1, <3>1, <4>1, BalanceKept
    <3>4. CASE xp = 0
      <4>1. /\ account'.total_xp = account.total_xp
            /\ account'.xp_today = account.xp_today
            /\ account'.xp_today_date = account.xp_today_date
        BY <3>1, <3>2, <3>4
      <4>2. events'.xp = events.xp /\ events'.xpOn = events.xpOn
        BY <2>1, <3>1, <3>4 DEF Pays, TypeOK, Events
      <4>3. QED
        BY <1>2, <4>1, <4>2 DEF Balanced
    <3>5. QED
      BY <3>1, <3>3, <3>4
  <2>4. CASE Rests
    BY <1>2, <2>4 DEF Rests, Balanced
  <2>5. QED
    BY <1>2, <2>2, <2>3, <2>4, StepCases
<1>3. Balanced => LedgerBalances
  BY DEF Balanced, LedgerBalances
<1>4. QED
  BY <1>1, <1>2, <1>3, FreshInvariant, PTL DEF Spec

(***************************************************************************)
(* Badges.                                                                 *)
(***************************************************************************)

LEMMA CompletedAccountStreak ==
    ASSUME NEW a \in Account, NEW t \in Takes, NEW day \in Days, NEW q \in Nat,
           NEW new, new = CompletedAccount(a, t, day, q)
    PROVE  /\ Eligible(t) =>
                 /\ new.streak_count = NextStreak(a, day)
                 /\ new.longest_streak = Max2(a.longest_streak, NextStreak(a, day))
                 /\ new.streak_last_date = day
           /\ ~Eligible(t) =>
                 /\ new.streak_count = a.streak_count
                 /\ new.longest_streak = a.longest_streak
                 /\ new.streak_last_date = a.streak_last_date
BY DEF CompletedAccount, ApplySessionXp, UpdateStreak, Account

CompletedQuest(d, c) == Quest(d, c).completed

LEMMA CompletedQuestRow ==
    ASSUME TypeOK, NEW d \in Days, NEW c \in Codes
    PROVE  CompletedQuest(d, c) <=> quests[d][c] # None /\ quests[d][c].completed
BY DEF CompletedQuest, Quest, FreshQuest

BadgesEarned ==
    /\ "first_session" \in badges <=> EligibleSessions(sessions) # {}
    /\ "streak_3" \in badges <=> account.longest_streak >= 3
    /\ "xp_500" \in badges => account.total_xp >= BadgeXp
    /\ "quest_day_complete" \in badges
          => \E d \in Days : \A c \in Codes : CompletedQuest(d, c)

LEMMA CompletedStays ==
    ASSUME NEW day, NEW codes, Advances(day, codes),
           NEW d \in Days, NEW c \in Codes, CompletedQuest(d, c)
    PROVE  CompletedQuest(d, c)'
BY DEF Advances, CompletedQuest, ProgressQuest

\* Badges that sessions earn are never missed, and no badge is unearned,
\* however often a completion is sent again.
THEOREM BadgesAreEarned ==
    ASSUME Overlap = "duplicates"
    PROVE  Spec => []BadgesMatchHistory
<1>1. Init => BadgesEarned
  BY DEF Init, BadgesEarned, EligibleSessions, NewAccount
<1>2. ASSUME Inductive, Fresh, BadgesEarned, [Next]_vars
      PROVE  BadgesEarned'
  <2>1. /\ account \in Account /\ TypeOK
        /\ account.total_xp \in Nat /\ account.longest_streak \in Nat
        /\ BadgeXp \in Nat
    BY <1>2, CompletionAssumption DEF Inductive, TypeOK, Account, CompletionAssumption
  <2>2. ASSUME NEW k \in Keys, NEW t \in Takes, NEW day \in Days,
               Completes(k, t, day)
        PROVE  BadgesEarned'
    <3> DEFINE paid == NewlyCompleted(Standing(day), Earning(t))
               new == CompletedAccount(account, t, day, QuestXp(paid))
               n == Cardinality(EligibleSessions(sessions'))
               qs == ProgressCodes(Standing(day), Earning(t))
    <3>1. /\ account' = new
          /\ badges' = badges \cup (IF Eligible(t) THEN NewBadges(new, n, qs) ELSE {})
      BY <2>2 DEF Completes
    <3>2. QuestXp(paid) \in Nat
      BY QuestXpIsNat
    <3> HIDE DEF paid
    <3>3. /\ new.total_xp >= account.total_xp /\ new.total_xp \in Nat
          /\ new \in Account
      <4>1. new.total_xp = account.total_xp
               + (SessionXp(t, new.streak_count) + QuestXp(paid))
            /\ SessionXp(t, new.streak_count) + QuestXp(paid) \in Nat
        BY <2>1, <3>2, CompletedAccountXp
      <4>2. new \in Account
        BY <2>1, <3>2, CompletedAccountType
      <4> HIDE DEF new
      <4>3. QED
        BY <2>1, <4>1, <4>2
    <3>4. /\ Eligible(t) =>
                /\ new.streak_count = NextStreak(account, day)
                /\ new.longest_streak
                      = Max2(account.longest_streak, NextStreak(account, day))
          /\ ~Eligible(t) => new.longest_streak = account.longest_streak
      BY <2>1, <3>2, CompletedAccountStreak
    <3>5. NextStreak(account, day) \in Nat
      BY <2>1, NextStreakType
    <3>6. /\ EligibleSessions(sessions') =
                EligibleSessions(sessions) \cup (IF Eligible(t) THEN {k} ELSE {})
      BY <2>1, <2>2, EligibleGrows DEF EligibleSessions
    <3>7. Eligible(t) => n \in Nat /\ n >= 1
      <4>1. IsFiniteSet(EligibleSessions(sessions'))
        <5>1. IsFiniteSet(Keys) /\ EligibleSessions(sessions') \in SUBSET Keys
          BY KeysAssumption DEF KeysAssumption, EligibleSessions
        <5>2. QED
          BY <5>1, FS_Subset
      <4>2. Eligible(t) => EligibleSessions(sessions') # {}
        BY <3>6
      <4>3. n \in Nat /\ (n = 0 => EligibleSessions(sessions') = {})
        BY <4>1, FS_CardinalityType, FS_EmptySet
      <4>4. QED
        BY <4>2, <4>3
    <3> HIDE DEF new, n, qs
    <3>8. \A b \in Badges : b \in badges' <=>
             b \in badges \/ (Eligible(t) /\ b \in EarnedBadges(new, n, qs))
      BY <3>1 DEF NewBadges
    <3>9. {"first_session", "streak_3", "xp_500", "quest_day_complete"} \subseteq Badges
      BY DEF Badges
    <3>10. ("first_session" \in badges <=> EligibleSessions(sessions) # {})'
      <4>1. "first_session" \in EarnedBadges(new, n, qs) <=> n >= 1
        BY DEF EarnedBadges, Badges
      <4>2. "first_session" \in badges' <=> "first_session" \in badges \/ Eligible(t)
        BY <3>7, <3>8, <3>9, <4>1
      <4>3. EligibleSessions(sessions') # {}
               <=> EligibleSessions(sessions) # {} \/ Eligible(t)
        BY <3>6
      <4>4. "first_session" \in badges <=> EligibleSessions(sessions) # {}
        BY <1>2 DEF BadgesEarned
      <4>5. EligibleSessions(sessions)' = EligibleSessions(sessions')
        BY DEF EligibleSessions
      <4>6. QED
        BY <4>2, <4>3, <4>4, <4>5
    <3>11. ("streak_3" \in badges <=> account.longest_streak >= 3)'
      <4>1. "streak_3" \in EarnedBadges(new, n, qs) <=> new.streak_count >= 3
        BY DEF EarnedBadges, Badges
      <4>2. "streak_3" \in badges' <=>
               "streak_3" \in badges \/ (Eligible(t) /\ new.streak_count >= 3)
        BY <3>8, <3>9, <4>1
      <4>3. "streak_3" \in badges <=> account.longest_streak >= 3
        BY <1>2 DEF BadgesEarned
      <4>4. CASE Eligible(t)
        <5>1. new.longest_streak >= 3 <=>
                 account.longest_streak >= 3 \/ new.streak_count >= 3
          BY <2>1, <3>4, <3>5, <4>4 DEF Max2
        <5>2. QED
          BY <3>1, <4>2, <4>3, <4>4, <5>1
      <4>5. CASE ~Eligible(t)
        BY <3>1, <3>4, <4>2, <4>3, <4>5
      <4>6. QED
        BY <4>4, <4>5
    <3>12. ("xp_500" \in badges => account.total_xp >= BadgeXp)'
      <4>1. "xp_500" \in EarnedBadges(new, n, qs) => new.total_xp >= BadgeXp
        BY DEF EarnedBadges
      <4>2. "xp_500" \in badges => account.total_xp >= BadgeXp
        BY <1>2 DEF BadgesEarned
      <4>3. "xp_500" \in badges' => new.total_xp >= BadgeXp
        BY <2>1, <3>3, <3>8, <3>9, <4>1, <4>2
      <4>4. QED
        BY <3>1, <4>3
    <3>13. ("quest_day_complete" \in badges
              => \E d \in Days : \A c \in Codes : CompletedQuest(d, c))'
      <4>1. Advances(day, Earning(t))
        BY <2>2 DEF Completes
      <4>2. CASE "quest_day_complete" \in badges
        BY <1>2, <4>1, <4>2, CompletedStays DEF BadgesEarned
      <4>3. CASE Eligible(t) /\ "quest_day_complete" \in EarnedBadges(new, n, qs)
        <5>1. \A c \in Codes : qs[c].completed
          BY <4>3 DEF EarnedBadges
        <5>2. \A c \in Codes : qs[c] = Quest(day, c)'
          BY <4>1 DEF qs, ProgressCodes, Standing, Advances
        <5>3. \A c \in Codes : CompletedQuest(day, c)'
          BY <5>1, <5>2 DEF CompletedQuest
        <5>4. QED
          BY <5>3
      <4>4. QED
        BY <3>8, <3>9, <4>2, <4>3
    <3>14. QED
      BY <3>10, <3>11, <3>12, <3>13 DEF BadgesEarned
  <2>3. ASSUME NEW day \in Days, Reviews(day)
        PROVE  BadgesEarned'
    <3> DEFINE xp == QuestXp(NewlyCompleted(Standing(day), {"vocab_10"}))
    <3>1. /\ UNCHANGED <<sessions, badges>> /\ Advances(day, {"vocab_10"})
      BY <2>3 DEF Reviews
    <3>2. /\ account'.longest_streak = account.longest_streak
          /\ account'.total_xp \in {account.total_xp, account.total_xp + xp}
      BY <2>1, <2>3 DEF Reviews, ApplySessionXp, Account
    <3>3. xp \in Nat
      BY QuestXpIsNat
    <3>4. EligibleSessions(sessions)' = EligibleSessions(sessions)
      BY <3>1 DEF EligibleSessions
    <3> HIDE DEF xp
    <3>5. "xp_500" \in badges => account'.total_xp >= BadgeXp
      BY <1>2, <2>1, <3>2, <3>3 DEF BadgesEarned
    <3>6. "quest_day_complete" \in badges
             => \E d \in Days : \A c \in Codes : CompletedQuest(d, c)'
      BY <1>2, <3>1, CompletedStays DEF BadgesEarned
    <3>7. QED
      BY <1>2, <3>1, <3>2, <3>4, <3>5, <3>6 DEF BadgesEarned
  <2>4. CASE Rests
    <3>1. \A d \in Days, c \in Codes : CompletedQuest(d, c)' <=> CompletedQuest(d, c)
      BY <2>4 DEF Rests, Advances, CompletedQuest
    <3>2. QED
      BY <1>2, <2>4, <3>1 DEF Rests, BadgesEarned, EligibleSessions
  <2>5. QED
    BY <1>2, <2>2, <2>3, <2>4, StepCases
<1>3. Inductive /\ BadgesEarned => BadgesMatchHistory
  BY CompletedQuestRow DEF Inductive, BadgesEarned, BadgesMatchHistory
<1>4. QED
  BY <1>1, <1>2, <1>3, FreshInvariant, PTL DEF Spec

(***************************************************************************)
(* The streak.                                                             *)
(***************************************************************************)

RunsOf(P) == {n \in 1 .. MaxDay + 1 :
                 \E d \in Days : d - n + 1 >= 0 /\ (d - n + 1) .. d \subseteq P}

\* n days up to last is the run of P that ends at its last date, and longest
\* the longest run
StreakOf(P, last, n, longest) ==
    IF P = {} THEN last = None /\ n = 0 /\ longest = 0
    ELSE /\ last \in P /\ \A d \in P : d <= last
         /\ n >= 1 /\ (last - n + 1) .. last \subseteq P
         /\ (last - n) \notin P
         /\ longest \in RunsOf(P)
         /\ \A m \in RunsOf(P) : m <= longest

LEMMA DaysAreNat == Days \subseteq Nat /\ MaxDay \in Nat /\ \A d \in Days : d <= MaxDay
BY CompletionAssumption DEF CompletionAssumption, Days

\* The run that ends at a date that is not before any other.
LEMMA LastRun ==
    ASSUME NEW P \in SUBSET Days, NEW day \in P, \A d \in P : d <= day,
           NEW n \in Nat, n >= 1, (day - n + 1) .. day \subseteq P
    PROVE  n \in RunsOf(P)
<1>1. day \in Nat /\ day <= MaxDay /\ MaxDay \in Nat
  BY DaysAreNat
<1>2. day - n + 1 \in (day - n + 1) .. day
  BY <1>1
<1>3. day - n + 1 \in Nat
  BY <1>2, DaysAreNat
<1>4. n \in 1 .. MaxDay + 1
  BY <1>1, <1>3
<1>5. QED
  BY <1>1, <1>3, <1>4 DEF RunsOf

LEMMA StreakGrows ==
    ASSUME NEW P \in SUBSET Days, NEW day \in Days, day \notin P,
           \A d \in P : d < day,
           NEW n \in Nat, n >= 1, NEW longest \in Nat,
           P = {} => longest = 0,
           P # {} => longest \in RunsOf(P),
           \A m \in RunsOf(P) : m <= longest,
           (day - n + 1) .. day \subseteq P \cup {day},
           (day - n) \notin P
    PROVE  StreakOf(P \cup {day}, day, n, Max2(longest, n))
<1> DEFINE Q == P \cup {day}
           best == Max2(longest, n)
<1>1. day \in Nat /\ day - n \in Int /\ day - n # day /\ MaxDay \in Nat
  BY DaysAreNat
<1>2. \A d \in Q : d \in Nat /\ d <= day
  BY <1>1, DaysAreNat
<1>3. (day - n) \notin Q
  BY <1>1
<1>4. n \in RunsOf(Q)
  BY <1>2, LastRun
<1>5. RunsOf(P) \subseteq RunsOf(Q)
  BY DEF RunsOf
<1>6. best \in RunsOf(Q)
  <2>1. CASE longest <= n
    <3>1. best = n
      BY <2>1 DEF Max2
    <3>2. QED
      BY <1>4, <3>1
  <2>2. CASE longest > n
    <3>1. best = longest /\ P # {}
      BY <2>2 DEF Max2
    <3>2. QED
      BY <1>5, <3>1
  <2>3. QED
    BY <2>1, <2>2
<1>7. longest <= best /\ n <= best
  BY DEF Max2
<1>8. ASSUME NEW m \in RunsOf(Q) PROVE m <= best
  <2>1. PICK d \in Days : d - m + 1 >= 0 /\ (d - m + 1) .. d \subseteq Q
    BY DEF RunsOf
  <2>2. m \in Nat /\ m >= 1 /\ d \in Nat /\ best \in Nat
    BY <1>1, DaysAreNat DEF RunsOf, Max2
  <2>3. CASE day \in (d - m + 1) .. d
    <3>1. d \in (d - m + 1) .. d
      BY <2>2
    <3>2. d = day
      BY <1>1, <1>2, <2>1, <2>2, <2>3, <3>1
    <3>3. day - n \notin (day - m + 1) .. day
      BY <1>3, <2>1, <3>2
    <3>4. m <= n
      BY <1>1, <2>2, <3>3
    <3>5. QED
      BY <1>7, <2>2, <3>4
  <2>4. CASE day \notin (d - m + 1) .. d
    <3>1. m \in RunsOf(P)
      BY <2>1, <2>4 DEF RunsOf
    <3>2. QED
      BY <1>7, <2>2, <3>1
  <2>5. QED
    BY <2>3, <2>4
<1>9. Q # {} /\ day \in Q
  OBVIOUS
<1> HIDE DEF Q, best
<1>10. (day - n + 1) .. day \subseteq Q
  BY DEF Q
<1>11. StreakOf(Q, day, n, best)
  BY <1>2, <1>3, <1>6, <1>8, <1>9, <1>10 DEF StreakOf
<1>12. QED
  BY <1>11 DEF Q, best

LEMMA StreakStep ==
    ASSUME NEW P \in SUBSET Days, NEW a \in Account, NEW day \in Days,
           NotAfter(a.streak_last_date, day),
           StreakOf(P, a.streak_last_date, a.streak_count, a.longest_streak)
    PROVE  StreakOf(P \cup {day}, day, NextStreak(a, day),
                    Max2(a.longest_streak, NextStreak(a, day)))
<1> DEFINE last == a.streak_last_date
           n == a.streak_count
           longest == a.longest_streak
           next == NextStreak(a, day)
<1>1. /\ n \in Nat /\ longest \in Nat /\ last \in Days \cup {None}
      /\ day \in Nat /\ P \subseteq Nat
  BY DaysAreNat DEF Account
<1>2. CASE P = {}
  <2>1. last = None /\ longest = 0 /\ next = 1
    BY <1>2 DEF StreakOf, NextStreak
  <2>2. \A m \in RunsOf(P) : m <= longest
    <3>1. SUFFICES ASSUME NEW m \in RunsOf(P) PROVE FALSE
      OBVIOUS
    <3>2. PICK d \in Days : d - m + 1 >= 0 /\ (d - m + 1) .. d \subseteq P
      BY DEF RunsOf
    <3>3. m \in Nat /\ m >= 1 /\ d \in Nat
      BY DaysAreNat DEF RunsOf
    <3>4. d \in (d - m + 1) .. d
      BY <3>3
    <3>5. QED
      BY <1>2, <3>2, <3>4
  <2>3. (day - 1 + 1) .. day \subseteq P \cup {day}
    BY <1>1
  <2>4. QED
    BY <1>1, <1>2, <2>1, <2>2, <2>3, StreakGrows
<1>3. CASE P # {}
  <2>1. /\ last \in P /\ \A d \in P : d <= last
        /\ n >= 1 /\ (last - n + 1) .. last \subseteq P
        /\ (last - n) \notin P
        /\ longest \in RunsOf(P)
        /\ \A m \in RunsOf(P) : m <= longest
    BY <1>3 DEF StreakOf
  <2>2. last \in Nat /\ last <= day /\ last # None
    BY <1>1, <2>1, NoneIsNoValue DEF NotAfter
  <2>3. CASE last = day
    <3>1. next = n /\ P \cup {day} = P
      BY <2>1, <2>2, <2>3 DEF NextStreak
    <3>2. n \in RunsOf(P)
      BY <1>1, <2>1, LastRun
    <3>3. Max2(longest, n) = longest
      BY <1>1, <2>1, <3>2 DEF Max2
    <3>4. QED
      BY <2>3, <3>1, <3>3
  <2>4. CASE last + 1 = day
    <3>1. next = n + 1
      BY <2>2, <2>4 DEF NextStreak
    <3>2. /\ day \notin P /\ \A d \in P : d < day
          /\ day - (n + 1) \notin P
      BY <1>1, <2>1, <2>2, <2>4
    <3>3. (day - (n + 1) + 1) .. day \subseteq P \cup {day}
      <4>1. (day - (n + 1) + 1) .. day \subseteq ((last - n + 1) .. last) \cup {day}
        BY <1>1, <2>2, <2>4
      <4>2. QED
        BY <2>1, <4>1
    <3>4. n + 1 \in Nat /\ n + 1 >= 1
      BY <1>1
    <3>5. QED
      BY <1>1, <1>3, <2>1, <3>1, <3>2, <3>3, <3>4, StreakGrows
  <2>5. CASE last # day /\ last + 1 # day
    <3>1. next = 1
      BY <2>2, <2>5 DEF NextStreak
    <3>2. /\ day \notin P /\ \A d \in P : d < day
          /\ day - 1 \notin P
      BY <1>1, <2>1, <2>2, <2>5
    <3>3. (day - 1 + 1) .. day \subseteq P \cup {day}
      BY <1>1
    <3> HIDE DEF last, longest, next
    <3>4. StreakOf(P \cup {day}, day, 1, Max2(longest, 1))
      BY <1>1, <1>3, <2>1, <3>2, <3>3, StreakGrows
    <3>5. QED
      BY <3>1, <3>4 DEF next, longest
  <2>6. QED
    BY <2>3, <2>4, <2>5
<1>4. QED
  BY <1>2, <1>3

StreakKept ==
    StreakOf(PracticeDays, account.streak_last_date, account.streak_count,
             account.longest_streak)

\* The streak is the run of local dates with an eligible session that ends at
\* the last one, and longest_streak the longest run: update_streak, which
\* looks at the last date only, agrees with the stored sessions.
THEOREM StreakFollowsHistory ==
    ASSUME Overlap = "duplicates"
    PROVE  Spec => []StreakMatchesHistory
<1>1. Init => StreakKept
  BY DEF Init, StreakKept, StreakOf, PracticeDays, EligibleSessions, NewAccount
<1>2. ASSUME Inductive, Fresh, StreakKept, [Next]_vars
      PROVE  StreakKept'
  <2>1. account \in Account /\ TypeOK
    BY <1>2 DEF Inductive, TypeOK
  <2>2. ASSUME NEW k \in Keys, NEW t \in Takes, NEW day \in Days,
               Completes(k, t, day)
        PROVE  StreakKept'
    <3> DEFINE paid == NewlyCompleted(Standing(day), Earning(t))
               new == CompletedAccount(account, t, day, QuestXp(paid))
    <3>1. account' = new /\ NotAfter(account.streak_last_date, day)
      BY <2>2 DEF Completes
    <3>2. QuestXp(paid) \in Nat
      BY QuestXpIsNat
    <3>3. /\ Eligible(t) =>
                /\ new.streak_count = NextStreak(account, day)
                /\ new.longest_streak
                      = Max2(account.longest_streak, NextStreak(account, day))
                /\ new.streak_last_date = day
          /\ ~Eligible(t) =>
                /\ new.streak_count = account.streak_count
                /\ new.longest_streak = account.longest_streak
                /\ new.streak_last_date = account.streak_last_date
      BY <2>1, <3>2, CompletedAccountStreak
    <3>4. PracticeDays' = PracticeDays \cup (IF Eligible(t) THEN {day} ELSE {})
      BY <2>1, <2>2, EligibleGrows
    <3>5. PracticeDays \in SUBSET Days
      BY <2>1 DEF PracticeDays, EligibleSessions, TypeOK, SessionRow
    <3> HIDE DEF new
    <3>6. CASE Eligible(t)
      <4>1. StreakOf(PracticeDays \cup {day}, day, NextStreak(account, day),
                     Max2(account.longest_streak, NextStreak(account, day)))
        BY <1>2, <2>1, <3>1, <3>5, StreakStep DEF StreakKept
      <4>2. PracticeDays' = PracticeDays \cup {day}
        BY <3>4, <3>6
      <4>3. QED
        BY <3>1, <3>3, <3>6, <4>1, <4>2 DEF StreakKept
    <3>7. CASE ~Eligible(t)
      <4>1. PracticeDays' = PracticeDays
        BY <3>4, <3>7
      <4>2. QED
        BY <1>2, <3>1, <3>3, <3>7, <4>1 DEF StreakKept
    <3>8. QED
      BY <3>6, <3>7
  <2>3. ASSUME NEW day \in Days, Reviews(day)
        PROVE  StreakKept'
    <3>1. /\ account'.streak_count = account.streak_count
          /\ account'.longest_streak = account.longest_streak
          /\ account'.streak_last_date = account.streak_last_date
      BY <2>1, <2>3 DEF Reviews, ApplySessionXp, Account
    <3>2. PracticeDays' = PracticeDays
      BY <2>3 DEF Reviews, PracticeDays, EligibleSessions
    <3>3. QED
      BY <1>2, <3>1, <3>2 DEF StreakKept
  <2>4. CASE Rests
    BY <1>2, <2>4 DEF Rests, StreakKept, PracticeDays, EligibleSessions
  <2>5. QED
    BY <1>2, <2>2, <2>3, <2>4, StepCases
<1>3. StreakKept => StreakMatchesHistory
  <2>1. Runs = RunsOf(PracticeDays)
    BY DEF Runs, RunsOf
  <2>2. QED
    BY <2>1 DEF StreakKept, StreakOf, StreakMatchesHistory
<1>4. QED
  BY <1>1, <1>2, <1>3, FreshInvariant, PTL DEF Spec

(***************************************************************************)
(* The counters that are sums over the history.                            *)
(***************************************************************************)

Durations == [k \in Keys |-> sessions[k].take.duration]

LEMMA SpeakingTimeIsTotal ==
    SumOver(Stored, LAMBDA k : sessions[k].take.duration) = Total(Durations, Stored)
<1> DEFINE Eq(g) == g = [s \in SUBSET Stored |->
                            IF s = {} THEN 0
                            ELSE sessions[CHOOSE x \in s : TRUE].take.duration
                                   + g[s \ {CHOOSE x \in s : TRUE}]]
           sum == CHOOSE g : Eq(g)
<1>1. SumOver(Stored, LAMBDA k : sessions[k].take.duration) = sum[Stored]
  BY Zenon DEF SumOver, MapThenFoldSet
<1>2. \A s \in SUBSET Stored : s # {} => (CHOOSE x \in s : TRUE) \in s
  OBVIOUS
<1>3. \A k \in Stored : Durations[k] = sessions[k].take.duration
  BY DEF Stored, Durations
<1> HIDE DEF Stored, Durations
<1>4. \A g : Eq(g) <=> IsTotal(g, Durations, Stored)
  BY <1>2, <1>3 DEF IsTotal, Pick
<1>5. IsFiniteSet(Stored)
  BY KeysAssumption, FS_Subset DEF KeysAssumption, Stored
<1>6. IsTotal(sum, Durations, Stored)
  <2> HIDE DEF Eq
  <2>1. PICK g : IsTotal(g, Durations, Stored)
    BY <1>5, TotalExists
  <2>2. Eq(g)
    BY <1>4, <2>1
  <2>3. Eq(sum)
    BY <2>2
  <2>4. QED
    BY <1>4, <2>3
<1>7. QED
  BY <1>1, <1>5, <1>6, TotalIs

LEMMA ReviewsAreTotal ==
    SumOver(Days, LAMBDA d : events.reviewed[d]) = Total(events.reviewed, Days)
<1> DEFINE Eq(g) == g = [s \in SUBSET Days |->
                            IF s = {} THEN 0
                            ELSE events.reviewed[CHOOSE x \in s : TRUE]
                                   + g[s \ {CHOOSE x \in s : TRUE}]]
           sum == CHOOSE g : Eq(g)
<1>1. SumOver(Days, LAMBDA d : events.reviewed[d]) = sum[Days]
  BY Zenon DEF SumOver, MapThenFoldSet
<1>2. \A g : Eq(g) <=> IsTotal(g, events.reviewed, Days)
  BY DEF IsTotal, Pick
<1>3. IsFiniteSet(Days)
  BY CompletionAssumption, FS_Interval DEF CompletionAssumption, Days
<1>4. IsTotal(sum, events.reviewed, Days)
  <2> HIDE DEF Eq
  <2>1. PICK g : IsTotal(g, events.reviewed, Days)
    BY <1>3, TotalExists
  <2>2. Eq(g)
    BY <1>2, <2>1
  <2>3. Eq(sum)
    BY <2>2
  <2>4. QED
    BY <1>2, <2>3
<1>5. QED
  BY <1>1, <1>3, <1>4, TotalIs

LEMMA FiniteHistory ==
    /\ IsFiniteSet(Keys) /\ IsFiniteSet(Stored) /\ IsFiniteSet(Days)
<1>1. IsFiniteSet(Keys)
  BY KeysAssumption DEF KeysAssumption
<1>2. Stored \in SUBSET Keys
  BY DEF Stored
<1>3. IsFiniteSet(Days)
  BY CompletionAssumption, FS_Interval DEF CompletionAssumption, Days
<1>4. QED
  BY <1>1, <1>2, <1>3, FS_Subset

CountersKept ==
    /\ account.total_speaking_seconds = Total(Durations, Stored)
    /\ account.scored = Cardinality(EligibleSessions(sessions))
    /\ account.reps = Total(events.reviewed, Days)

LEMMA CompletedAccountCounters ==
    ASSUME NEW a \in Account, NEW t \in Takes, NEW day \in Days, NEW q \in Nat,
           NEW new, new = CompletedAccount(a, t, day, q)
    PROVE  /\ new.total_speaking_seconds = a.total_speaking_seconds + t.duration
           /\ new.scored = IF Eligible(t) THEN a.scored + 1 ELSE a.scored
           /\ new.reps = a.reps
BY DEF CompletedAccount, ApplySessionXp, UpdateStreak, Account

\* Speaking time is the sum of the stored sessions' durations, the skill row
\* counts the eligible ones and the card's reps the reviews: no increment is
\* lost between two handlers and none is made twice.
THEOREM CountersFollowHistory ==
    ASSUME Overlap = "duplicates"
    PROVE  Spec => []CountersMatchHistory
<1>1. ASSUME Init PROVE CountersKept
  <2>1. Stored = {} /\ EligibleSessions(sessions) = {}
    BY <1>1 DEF Init, Stored, EligibleSessions
  <2>2. Total(Durations, Stored) = 0
    BY <2>1, TotalEmpty
  <2>3. Total(events.reviewed, Days) = 0
    <3>1. \A d \in Days : events.reviewed[d] = 0
      BY <1>1 DEF Init, NoEvents
    <3>2. QED
      BY <3>1, FiniteHistory, TotalZero
  <2>4. QED
    BY <1>1, <2>1, <2>2, <2>3, FS_EmptySet DEF Init, NewAccount, CountersKept
<1>2. ASSUME Inductive, Fresh, CountersKept, [Next]_vars
      PROVE  CountersKept'
  <2>1. account \in Account /\ TypeOK
    BY <1>2 DEF Inductive, TypeOK
  <2>2. ASSUME NEW k \in Keys, NEW t \in Takes, NEW day \in Days,
               Completes(k, t, day)
        PROVE  CountersKept'
    <3> DEFINE paid == NewlyCompleted(Standing(day), Earning(t))
               new == CompletedAccount(account, t, day, QuestXp(paid))
    <3>1. account' = new /\ events'.reviewed = events.reviewed
      BY <2>2 DEF Completes
    <3>2. QuestXp(paid) \in Nat
      BY QuestXpIsNat
    <3>3. /\ new.total_speaking_seconds = account.total_speaking_seconds + t.duration
          /\ new.scored = IF Eligible(t) THEN account.scored + 1 ELSE account.scored
          /\ new.reps = account.reps
      BY <2>1, <3>2, CompletedAccountCounters
    <3> HIDE DEF new
    <3>4. /\ sessions[k] = None /\ sessions'[k] # None /\ sessions'[k].take = t
          /\ \A e \in Keys : e # k => sessions'[e] = sessions[e]
      BY <2>1, <2>2, CompletionAdds
    <3>5. Stored' = Stored \cup {k} /\ k \notin Stored
      BY <3>4 DEF Stored
    <3>6. Total(Durations', Stored') = t.duration + Total(Durations, Stored)
      <4>1. \A e \in Stored \cup {k} : Durations'[e] \in Int
        <5>1. ASSUME NEW e \in Stored \cup {k} PROVE Durations'[e] \in Int
          <6>1. e \in Keys /\ Durations'[e] = sessions'[e].take.duration
            BY <5>1 DEF Stored, Durations
          <6>2. sessions'[e].take \in Takes
            BY <2>1, <3>4, <5>1 DEF Stored, TypeOK, SessionRow
          <6>3. QED
            BY <6>1, <6>2, TakeType
        <5>2. QED
          BY <5>1
      <4>2. Total(Durations', Stored \cup {k}) = Durations'[k] + Total(Durations', Stored)
        BY <3>5, <4>1, FiniteHistory, TotalAdd
      <4>3. \A e \in Stored : Durations'[e] = Durations[e]
        BY <3>4, <3>5 DEF Durations, Stored
      <4>4. Total(Durations', Stored) = Total(Durations, Stored)
        BY <4>3, FiniteHistory, TotalCong
      <4>5. Durations'[k] = t.duration
        BY <3>4 DEF Durations
      <4>6. QED
        BY <3>5, <4>2, <4>4, <4>5
    <3>7. Total(Durations, Stored) \in Nat /\ t.duration \in Nat
      BY <1>2, <2>1, TakeType DEF CountersKept, Account
    <3>8. Cardinality(EligibleSessions(sessions)')
             = IF Eligible(t) THEN Cardinality(EligibleSessions(sessions)) + 1
               ELSE Cardinality(EligibleSessions(sessions))
      <4>1. k \notin EligibleSessions(sessions)
            /\ EligibleSessions(sessions)' =
                  EligibleSessions(sessions) \cup (IF Eligible(t) THEN {k} ELSE {})
        BY <2>1, <2>2, EligibleGrows
      <4>2. CASE Eligible(t)
        BY <4>1, <4>2, EligibleFinite, FS_AddElement
      <4>3. CASE ~Eligible(t)
        <5>1. EligibleSessions(sessions)' = EligibleSessions(sessions)
          BY <4>1, <4>3
        <5>2. QED
          BY <4>3, <5>1
      <4>4. QED
        BY <4>2, <4>3
    <3>9. account'.scored = Cardinality(EligibleSessions(sessions)')
      BY <1>2, <3>1, <3>3, <3>8 DEF CountersKept
    <3>10. account'.total_speaking_seconds = Total(Durations', Stored')
      BY <1>2, <3>1, <3>3, <3>6, <3>7 DEF CountersKept
    <3>11. account'.reps = Total(events'.reviewed, Days)
      BY <1>2, <3>1, <3>3 DEF CountersKept
    <3>12. QED
      BY <3>9, <3>10, <3>11 DEF CountersKept
  <2>3. ASSUME NEW day \in Days, Reviews(day)
        PROVE  CountersKept'
    <3>1. /\ UNCHANGED sessions
          /\ events'.reviewed = [events.reviewed EXCEPT ![day] = @ + 1]
          /\ events.reviewed \in [Days -> Nat]
      BY <2>1, <2>3 DEF Reviews, TypeOK, Events
    <3>2. /\ account'.total_speaking_seconds = account.total_speaking_seconds
          /\ account'.scored = account.scored
          /\ account'.reps = account.reps + 1
      BY <2>1, <2>3 DEF Reviews, ApplySessionXp, Account
    <3>3. Total(events'.reviewed, Days)
             = Total(events.reviewed, Days) + events'.reviewed[day]
                 - events.reviewed[day]
      <4>1. /\ \A d \in Days : events.reviewed[d] \in Int /\ events'.reviewed[d] \in Int
            /\ \A d \in Days \ {day} : events'.reviewed[d] = events.reviewed[d]
        BY <3>1
      <4>2. QED
        BY <4>1, FiniteHistory, TotalChange
    <3>4. events'.reviewed[day] = events.reviewed[day] + 1
          /\ events.reviewed[day] \in Nat
      BY <3>1
    <3>5. account.reps = Total(events.reviewed, Days) /\ account.reps \in Nat
      BY <1>2, <2>1 DEF CountersKept, Account
    <3>6. account'.reps = Total(events'.reviewed, Days)
      BY <3>2, <3>3, <3>4, <3>5
    <3>7. /\ Durations' = Durations /\ Stored' = Stored
          /\ EligibleSessions(sessions)' = EligibleSessions(sessions)
      BY <3>1 DEF Durations, Stored, EligibleSessions
    <3>8. QED
      BY <1>2, <3>2, <3>6, <3>7 DEF CountersKept
  <2>4. CASE Rests
    <3>1. /\ UNCHANGED <<account, events>>
          /\ Durations' = Durations /\ Stored' = Stored
          /\ EligibleSessions(sessions)' = EligibleSessions(sessions)
      BY <2>4 DEF Rests, Durations, Stored, EligibleSessions
    <3>2. QED
      BY <1>2, <3>1 DEF CountersKept
  <2>5. QED
    BY <1>2, <2>2, <2>3, <2>4, StepCases
<1>3. CountersKept => CountersMatchHistory
  BY SpeakingTimeIsTotal, ReviewsAreTotal DEF CountersKept, CountersMatchHistory
<1>4. QED
  BY <1>1, <1>2, <1>3, FreshInvariant, PTL DEF Spec

(***************************************************************************)
(* The rewards are a ledger: refinement of RewardLedger.                   *)
(***************************************************************************)

LEMMA ClaimsFinite == IsFiniteSet(Claims)
<1>1. IsFiniteSet(Codes)
  <2>1. Codes = {"session_1"} \cup {"session_2"} \cup {"vocab_10"}
    BY DEF Codes
  <2>2. QED
    BY <2>1, FS_Singleton, FS_Union
<1>2. IsFiniteSet(Days \X Codes)
  BY <1>1, FiniteHistory, FS_Product
<1>3. QED
  BY <1>2, FiniteHistory, FS_Union DEF Claims

LEMMA SumOfIsTotal == \A f : Ledger!SumOf(f) = Total(f, Claims)
<1> TAKE f
<1> DEFINE Eq(g) == g = [s \in SUBSET Claims |->
                            IF s = {} THEN 0
                            ELSE f[CHOOSE x \in s : TRUE]
                                   + g[s \ {CHOOSE x \in s : TRUE}]]
           sum == CHOOSE g : Eq(g)
<1>1. Ledger!SumOf(f) = sum[Claims]
  BY Zenon DEF Ledger!SumOf, Ledger!MapThenFoldSet
<1>2. \A g : Eq(g) <=> IsTotal(g, f, Claims)
  BY DEF IsTotal, Pick
<1>3. IsTotal(sum, f, Claims)
  <2> HIDE DEF Eq
  <2>1. PICK g : IsTotal(g, f, Claims)
    BY ClaimsFinite, TotalExists
  <2>2. Eq(g)
    BY <1>2, <2>1
  <2>3. Eq(sum)
    BY <2>2
  <2>4. QED
    BY <1>2, <2>3
<1>4. QED
  BY <1>1, <1>3, ClaimsFinite, TotalIs

\* One claim is paid.
LEMMA OneClaim ==
    ASSUME NEW f \in [Claims -> Int], NEW x \in Claims, NEW v \in Int
    PROVE  /\ [f EXCEPT ![x] = v] \in [Claims -> Int]
           /\ Total([f EXCEPT ![x] = v], Claims) = Total(f, Claims) + v - f[x]
<1> DEFINE g == [f EXCEPT ![x] = v]
<1>1. g \in [Claims -> Int] /\ g[x] = v /\ \A y \in Claims \ {x} : g[y] = f[y]
  OBVIOUS
<1> HIDE DEF g
<1>2. \A y \in Claims : f[y] \in Int /\ g[y] \in Int
  BY <1>1
<1>3. Total(g, Claims) = Total(f, Claims) + g[x] - f[x]
  BY <1>1, <1>2, ClaimsFinite, TotalChange
<1>4. QED
  BY <1>1, <1>3 DEF g

EarnedWell ==
    /\ Earned \in [Claims -> Nat]
    /\ \A k \in Keys : k \in Claims /\ Earned[k] =
          IF sessions[k] = None THEN 0 ELSE sessions[k].session_xp
    /\ \A d \in Days, c \in Codes :
          /\ <<d, c>> \in Claims /\ <<d, c>> \notin Keys
          /\ Earned[<<d, c>>] = events.paid[d][c] * Reward[c]
          /\ events.paid[d][c] \in Nat

LEMMA EarnedType == TypeOK => EarnedWell
<1> SUFFICES ASSUME TypeOK PROVE EarnedWell
  OBVIOUS
<1>1. events.paid \in [Days -> [Codes -> Nat]]
  BY DEF TypeOK, Events
<1>2. \A d \in Days, c \in Codes : /\ <<d, c>> \in Claims /\ <<d, c>> \notin Keys
                                   /\ events.paid[d][c] \in Nat
  BY <1>1, KeysAssumption DEF Claims, KeysAssumption
<1>3. \A d \in Days, c \in Codes : Earned[<<d, c>>] = events.paid[d][c] * Reward[c]
  BY <1>2 DEF Earned
<1>4. \A k \in Keys : k \in Claims /\ Earned[k] =
          IF sessions[k] = None THEN 0 ELSE sessions[k].session_xp
  BY DEF Earned, Claims
<1>5. \A c \in Codes : Reward[c] \in Nat
  BY DEF Reward, Codes
<1>6. \A d \in Days, c \in Codes : Earned[<<d, c>>] \in Nat
  <2>1. \A m, n \in Nat : m * n \in Nat
    OBVIOUS
  <2>2. QED
    BY <1>2, <1>3, <1>5, <2>1
<1>7. \A k \in Keys : Earned[k] \in Nat
  BY <1>4 DEF TypeOK, SessionRow
<1>8. \A x \in Claims : x \in Keys \/ \E d \in Days, c \in Codes : x = <<d, c>>
  BY DEF Claims
<1>9. \A x \in Claims : Earned[x] \in Nat
  BY <1>6, <1>7, <1>8
<1>10. Earned \in [Claims -> Nat]
  <2>1. Earned = [x \in Claims |-> Earned[x]]
    BY DEF Earned
  <2>2. QED
    BY <1>9, <2>1
<1>11. QED
  BY <1>2, <1>3, <1>4, <1>10 DEF EarnedWell

LEMMA EarnedTypeNext == TypeOK' => EarnedWell'
BY EarnedType, PTL

\* Quest rewards of one date, and at most one session, are paid.
LEMMA ClaimsPaid ==
    ASSUME NEW e \in [Claims -> Nat], NEW f \in [Claims -> Nat],
           NEW day \in Days, NEW paid \in SUBSET Codes, NEW K \in SUBSET Keys,
           NEW xp \in Nat,
           K = {} => xp = 0,
           \A k, l \in K : k = l,
           \A k \in K : e[k] = 0 /\ f[k] = xp,
           \A k \in Keys \ K : f[k] = e[k],
           \A d \in Days, c \in Codes :
               <<d, c>> \in Claims /\ <<d, c>> \notin Keys
               /\ f[<<d, c>>] = IF d = day /\ c \in paid
                                THEN e[<<d, c>>] + Reward[c] ELSE e[<<d, c>>]
    PROVE  Total(f, Claims) = Total(e, Claims) + xp + QuestXp(paid)
<1> DEFINE q1 == <<day, "session_1">>
           q2 == <<day, "session_2">>
           q3 == <<day, "vocab_10">>
           g1 == [e EXCEPT ![q1] = f[q1]]
           g2 == [g1 EXCEPT ![q2] = f[q2]]
           g3 == [g2 EXCEPT ![q3] = f[q3]]
<1>1. /\ "session_1" \in Codes /\ "session_2" \in Codes /\ "vocab_10" \in Codes
      /\ q1 \in Claims /\ q2 \in Claims /\ q3 \in Claims
      /\ q1 \notin Keys /\ q2 \notin Keys /\ q3 \notin Keys
      /\ q1 # q2 /\ q1 # q3 /\ q2 # q3
  BY DEF Codes
<1>2. /\ f[q1] = e[q1] + (IF "session_1" \in paid THEN Reward["session_1"] ELSE 0)
      /\ f[q2] = e[q2] + (IF "session_2" \in paid THEN Reward["session_2"] ELSE 0)
      /\ f[q3] = e[q3] + (IF "vocab_10" \in paid THEN Reward["vocab_10"] ELSE 0)
  BY <1>1
<1>3. /\ e \in [Claims -> Int] /\ f \in [Claims -> Int]
      /\ f[q1] \in Int /\ f[q2] \in Int /\ f[q3] \in Int
      /\ e[q1] \in Int /\ e[q2] \in Int /\ e[q3] \in Int
  BY <1>1
<1>4. \A x \in Claims : x \in Keys \/ \E d \in Days, c \in Codes : x = <<d, c>>
  BY DEF Claims
<1>5. \A x \in Claims \ Keys : x \notin {q1, q2, q3} => f[x] = e[x]
  <2>1. SUFFICES ASSUME NEW d \in Days, NEW c \in Codes, <<d, c>> \notin {q1, q2, q3}
                 PROVE  f[<<d, c>>] = e[<<d, c>>]
    BY <1>4
  <2>2. d # day
    BY <2>1 DEF Codes
  <2>3. QED
    BY <2>2
<1>6. /\ "session_1" \in paid => Reward["session_1"] = 20
      /\ "session_2" \in paid => Reward["session_2"] = 30
      /\ "vocab_10" \in paid => Reward["vocab_10"] = 20
  BY DEF Reward, Codes
<1> HIDE DEF q1, q2, q3
<1>7. g1 \in [Claims -> Int] /\ Total(g1, Claims) = Total(e, Claims) + f[q1] - e[q1]
  BY <1>1, <1>3, OneClaim
<1>8. g1[q2] = e[q2] /\ g1[q3] = e[q3] /\ g1[q1] = f[q1]
      /\ \A x \in Claims : x # q1 => g1[x] = e[x]
  BY <1>1, <1>3
<1> HIDE DEF g1
<1>9. g2 \in [Claims -> Int] /\ Total(g2, Claims) = Total(g1, Claims) + f[q2] - g1[q2]
  BY <1>1, <1>3, <1>7, OneClaim
<1>10. g2[q3] = e[q3] /\ g2[q1] = f[q1] /\ g2[q2] = f[q2]
       /\ \A x \in Claims : x \notin {q1, q2} => g2[x] = e[x]
  BY <1>1, <1>3, <1>7, <1>8
<1> HIDE DEF g2
<1>11. g3 \in [Claims -> Int] /\ Total(g3, Claims) = Total(g2, Claims) + f[q3] - g2[q3]
  BY <1>1, <1>3, <1>9, OneClaim
<1>12. g3[q1] = f[q1] /\ g3[q2] = f[q2] /\ g3[q3] = f[q3]
       /\ \A x \in Claims : x \notin {q1, q2, q3} => g3[x] = e[x]
  BY <1>1, <1>3, <1>9, <1>10
<1> HIDE DEF g3
<1>13. Total(e, Claims) \in Int
  BY <1>3, ClaimsFinite, TotalInt
<1>14. Total(g3, Claims) = Total(e, Claims) + QuestXp(paid)
  <2>1. Total(g3, Claims)
           = Total(e, Claims) + (f[q1] - e[q1]) + (f[q2] - e[q2]) + (f[q3] - e[q3])
    BY <1>3, <1>7, <1>8, <1>9, <1>10, <1>11, <1>13
  <2>2. /\ f[q1] - e[q1] = IF "session_1" \in paid THEN Reward["session_1"] ELSE 0
        /\ f[q2] - e[q2] = IF "session_2" \in paid THEN Reward["session_2"] ELSE 0
        /\ f[q3] - e[q3] = IF "vocab_10" \in paid THEN Reward["vocab_10"] ELSE 0
    BY <1>2, <1>3, <1>6
  <2>3. (f[q1] - e[q1]) + (f[q2] - e[q2]) + (f[q3] - e[q3]) = QuestXp(paid)
    BY <2>2 DEF QuestXp
  <2>4. QED
    BY <1>3, <1>13, <2>1, <2>3
<1>15. CASE K = {}
  <2>1. \A x \in Claims : g3[x] = f[x]
    BY <1>1, <1>5, <1>12, <1>15
  <2>2. Total(g3, Claims) = Total(f, Claims)
    BY <2>1, ClaimsFinite, TotalCong
  <2>3. QED
    BY <1>13, <1>14, <1>15, <2>2, QuestXpIsNat
<1>16. CASE K # {}
  <2>1. PICK k \in Keys : K = {k}
    BY <1>16
  <2>2. k \in Claims /\ g3[k] = 0 /\ f[k] = xp
    BY <1>1, <1>12, <2>1 DEF Claims
  <2>3. \A x \in Claims \ {k} : f[x] = g3[x]
    BY <1>1, <1>5, <1>12, <2>1
  <2>4. \A x \in Claims : g3[x] \in Int /\ f[x] \in Int
    BY <1>3, <1>11
  <2>5. Total(f, Claims) = Total(g3, Claims) + f[k] - g3[k]
    BY <2>2, <2>3, <2>4, ClaimsFinite, TotalChange
  <2>6. QED
    BY <1>13, <1>14, <2>2, <2>5, QuestXpIsNat
<1>17. QED
  BY <1>15, <1>16

LEMMA QuestClaimsGrow ==
    ASSUME TypeOK, TypeOK', PaidWhenCompleted, NEW day \in Days,
           NEW codes \in SUBSET Codes, NEW paid \in SUBSET Codes, NEW xp,
           paid = NewlyCompleted(Standing(day), codes), Pays(day, paid, xp)
    PROVE  \A d \in Days, c \in Codes :
              /\ <<d, c>> \in Claims /\ <<d, c>> \notin Keys
              /\ Earned'[<<d, c>>] = IF d = day /\ c \in paid
                                     THEN Earned[<<d, c>>] + Reward[c]
                                     ELSE Earned[<<d, c>>]
              /\ Earned[<<d, c>>] # 0 => Earned'[<<d, c>>] = Earned[<<d, c>>]
<1>1. events.paid \in [Days -> [Codes -> Nat]]
  BY DEF TypeOK, Events
<1>2. \A c \in paid : ~Quest(day, c).completed
  BY DEF NewlyCompleted, Standing
<1>3. SUFFICES ASSUME NEW d \in Days, NEW c \in Codes
               PROVE  /\ Earned'[<<d, c>>] = IF d = day /\ c \in paid
                                             THEN Earned[<<d, c>>] + Reward[c]
                                             ELSE Earned[<<d, c>>]
                      /\ Earned[<<d, c>>] # 0
                            => Earned'[<<d, c>>] = Earned[<<d, c>>]
  BY EarnedType DEF EarnedWell
<1>4. events'.paid[d][c] = IF d = day /\ c \in paid THEN events.paid[d][c] + 1
                           ELSE events.paid[d][c]
  BY <1>1 DEF Pays
<1>5. Earned[<<d, c>>] = events.paid[d][c] * Reward[c]
  BY EarnedType DEF EarnedWell
<1>6. Earned'[<<d, c>>] = events'.paid[d][c] * Reward[c]
  BY EarnedTypeNext DEF EarnedWell
<1>7. Reward[c] \in {20, 30}
  BY DEF Reward, Codes
<1>8. CASE d = day /\ c \in paid
  <2>1. events.paid[d][c] = 0
    BY <1>2, <1>8 DEF PaidWhenCompleted
  <2>2. events'.paid[d][c] = 1
    BY <1>4, <1>8, <2>1
  <2>3. 0 * Reward[c] = 0 /\ 1 * Reward[c] = Reward[c] /\ 0 + Reward[c] = Reward[c]
    BY <1>7
  <2>4. QED
    BY <1>5, <1>6, <1>8, <2>1, <2>2, <2>3
<1>9. CASE ~(d = day /\ c \in paid)
  BY <1>4, <1>5, <1>6, <1>9
<1>10. QED
  BY <1>8, <1>9

LEMMA LedgerPays ==
    ASSUME TypeOK, TypeOK',
           account.total_xp = Total(Earned, Claims),
           NEW day \in Days, NEW paid \in SUBSET Codes, NEW K \in SUBSET Keys,
           NEW xp \in Nat,
           K = {} => xp = 0,
           \A k, l \in K : k = l,
           \A k \in K : sessions[k] = None /\ sessions'[k] # None
                           /\ sessions'[k].session_xp = xp,
           \A k \in Keys \ K : sessions'[k] = sessions[k],
           \A d \in Days, c \in Codes :
              /\ <<d, c>> \in Claims /\ <<d, c>> \notin Keys
              /\ Earned'[<<d, c>>] = IF d = day /\ c \in paid
                                     THEN Earned[<<d, c>>] + Reward[c]
                                     ELSE Earned[<<d, c>>]
              /\ Earned[<<d, c>>] # 0 => Earned'[<<d, c>>] = Earned[<<d, c>>],
           account'.total_xp = account.total_xp + xp + QuestXp(paid)
    PROVE  account'.total_xp = Total(Earned', Claims) /\ Ledger!Pay
<1>1. Earned \in [Claims -> Nat] /\ Earned' \in [Claims -> Nat]
  BY EarnedType, EarnedTypeNext DEF EarnedWell
<1>2. \A k \in Keys : /\ Earned[k] = IF sessions[k] = None THEN 0
                                     ELSE sessions[k].session_xp
                      /\ Earned'[k] = IF sessions'[k] = None THEN 0
                                      ELSE sessions'[k].session_xp
  BY EarnedType, EarnedTypeNext DEF EarnedWell
<1>3. /\ \A k \in K : Earned[k] = 0 /\ Earned'[k] = xp
      /\ \A k \in Keys \ K : Earned'[k] = Earned[k]
  BY <1>2
<1>4. Total(Earned', Claims) = Total(Earned, Claims) + xp + QuestXp(paid)
  <2> DEFINE e == Earned
             f == Earned'
  <2>1. /\ e \in [Claims -> Nat] /\ f \in [Claims -> Nat]
        /\ \A k \in K : e[k] = 0 /\ f[k] = xp
        /\ \A k \in Keys \ K : f[k] = e[k]
        /\ \A d \in Days, c \in Codes :
              <<d, c>> \in Claims /\ <<d, c>> \notin Keys
              /\ f[<<d, c>>] = IF d = day /\ c \in paid
                               THEN e[<<d, c>>] + Reward[c] ELSE e[<<d, c>>]
    BY <1>1, <1>3
  <2> HIDE DEF e, f
  <2>2. Total(f, Claims) = Total(e, Claims) + xp + QuestXp(paid)
    BY <2>1, ClaimsPaid
  <2>3. QED
    BY <2>2 DEF e, f
<1>5. \A x \in Claims : x \in Keys \/ \E d \in Days, c \in Codes : x = <<d, c>>
  BY DEF Claims
<1>6. \A x \in Claims : Earned[x] # 0 => Earned'[x] = Earned[x]
  BY <1>3, <1>5
<1>7. account'.total_xp = Ledger!SumOf(Earned')
  BY <1>4, SumOfIsTotal
<1>8. QED
  BY <1>1, <1>4, <1>6, <1>7 DEF Ledger!Pay

LedgerKept == PaidWhenCompleted /\ account.total_xp = Total(Earned, Claims)

LEMMA LedgerStep ==
    ASSUME Inductive, TypeOK', Fresh, LedgerKept, [Next]_vars
    PROVE  /\ LedgerKept'
           /\ Ledger!Pay \/ UNCHANGED <<Earned, account.total_xp>>
<1>1. account \in Account /\ account.total_xp \in Nat /\ TypeOK
  BY DEF Inductive, TypeOK, Account
<1>2. ASSUME NEW k \in Keys, NEW t \in Takes, NEW day \in Days,
             Completes(k, t, day)
      PROVE  LedgerKept' /\ Ledger!Pay
  <2> DEFINE paid == NewlyCompleted(Standing(day), Earning(t))
             new == CompletedAccount(account, t, day, QuestXp(paid))
             xp == SessionXp(t, new.streak_count)
             row == [take |-> t, session_xp |-> xp, quest_xp |-> QuestXp(paid),
                     day |-> day]
  <2>1. /\ account' = new /\ Pays(day, paid, xp + QuestXp(paid))
        /\ sessions' = [sessions EXCEPT ![k] = row] /\ sessions[k] = None
        /\ Advances(day, Earning(t))
    BY <1>2 DEF Completes
  <2>2. QuestXp(paid) \in Nat /\ paid \in SUBSET Codes /\ Earning(t) \in SUBSET Codes
    BY QuestXpIsNat, EarningCodes DEF NewlyCompleted
  <2>3. PaidWhenCompleted'
    BY <1>1, <2>1, <2>2, PaysWhatCompletes DEF LedgerKept
  <2>4. \A d \in Days, c \in Codes :
           /\ <<d, c>> \in Claims /\ <<d, c>> \notin Keys
           /\ Earned'[<<d, c>>] = IF d = day /\ c \in paid
                                  THEN Earned[<<d, c>>] + Reward[c]
                                  ELSE Earned[<<d, c>>]
           /\ Earned[<<d, c>>] # 0 => Earned'[<<d, c>>] = Earned[<<d, c>>]
    BY <1>1, <2>1, <2>2, QuestClaimsGrow DEF LedgerKept
  <2> HIDE DEF paid
  <2>5. /\ new.total_xp = account.total_xp + (xp + QuestXp(paid))
        /\ new.streak_count \in Nat
    <3>1. new \in Account
      BY <1>1, <2>2, CompletedAccountType
    <3>2. new.streak_count \in Nat
      BY <3>1 DEF Account
    <3>3. new.total_xp = account.total_xp + (xp + QuestXp(paid))
      BY <1>1, <2>2, CompletedAccountXp
    <3>4. QED
      BY <3>2, <3>3
  <2>6. xp \in Nat
    BY <2>5, SessionXpIsNat
  <2>7. /\ sessions'[k] # None /\ \A e \in Keys \ {k} : sessions'[e] = sessions[e]
    BY <1>1, <1>2, CompletionAdds
  <2>8. sessions'[k].session_xp = xp
    BY <1>1, <2>1 DEF TypeOK
  <2> HIDE DEF new, xp, row
  <2>9. account'.total_xp = account.total_xp + xp + QuestXp(paid)
    BY <1>1, <2>1, <2>2, <2>5, <2>6
  <2>10. account'.total_xp = Total(Earned', Claims) /\ Ledger!Pay
    <3> DEFINE K == {k}
    <3>1. /\ K \in SUBSET Keys /\ K # {} /\ \A a, b \in K : a = b
          /\ \A e \in K : sessions[e] = None /\ sessions'[e] # None
                             /\ sessions'[e].session_xp = xp
          /\ \A e \in Keys \ K : sessions'[e] = sessions[e]
      BY <2>1, <2>7, <2>8
    <3> HIDE DEF K
    <3>2. QED
      BY <1>1, <2>2, <2>4, <2>6, <2>9, <3>1, LedgerPays DEF LedgerKept
  <2>11. QED
    BY <2>3, <2>10 DEF LedgerKept
<1>3. ASSUME NEW day \in Days, Reviews(day)
      PROVE  LedgerKept' /\ Ledger!Pay
  <2> DEFINE codes == {"vocab_10"}
             paid == NewlyCompleted(Standing(day), codes)
             xp == QuestXp(paid)
             reviewed == [account EXCEPT !.reps = @ + 1]
  <2>1. /\ account' = IF xp > 0 THEN ApplySessionXp(reviewed, xp, day) ELSE reviewed
        /\ Pays(day, paid, xp) /\ Advances(day, codes) /\ sessions' = sessions
    BY <1>3 DEF Reviews
  <2>2. xp \in Nat /\ codes \in SUBSET Codes /\ paid \in SUBSET Codes
    BY QuestXpIsNat DEF Codes, NewlyCompleted
  <2>3. PaidWhenCompleted'
    BY <1>1, <2>1, <2>2, PaysWhatCompletes DEF LedgerKept
  <2>4. \A d \in Days, c \in Codes :
           /\ <<d, c>> \in Claims /\ <<d, c>> \notin Keys
           /\ Earned'[<<d, c>>] = IF d = day /\ c \in paid
                                  THEN Earned[<<d, c>>] + Reward[c]
                                  ELSE Earned[<<d, c>>]
           /\ Earned[<<d, c>>] # 0 => Earned'[<<d, c>>] = Earned[<<d, c>>]
    <3> HIDE DEF codes, xp
    <3>1. QED
      BY <1>1, <2>1, <2>2, QuestClaimsGrow DEF LedgerKept
  <2> HIDE DEF codes, paid
  <2>5. reviewed.total_xp = account.total_xp
    BY <1>1 DEF Account
  <2>6. xp > 0 => ApplySessionXp(reviewed, xp, day).total_xp = account.total_xp + xp
    BY <1>1, <2>2, <2>5 DEF ApplySessionXp, Account
  <2> HIDE DEF reviewed
  <2>7. account'.total_xp = account.total_xp + 0 + QuestXp(paid)
    <3>1. CASE xp > 0
      BY <1>1, <2>1, <2>2, <2>6, <3>1
    <3>2. CASE xp = 0
      BY <1>1, <2>1, <2>2, <2>5, <3>2
    <3>3. QED
      BY <2>2, <3>1, <3>2
  <2>8. account'.total_xp = Total(Earned', Claims) /\ Ledger!Pay
    <3> DEFINE K == {}
    <3>1. /\ K \in SUBSET Keys /\ \A a, b \in K : a = b
          /\ \A e \in K : sessions[e] = None /\ sessions'[e] # None
                             /\ sessions'[e].session_xp = 0
          /\ \A e \in Keys \ K : sessions'[e] = sessions[e]
      BY <2>1
    <3> HIDE DEF K
    <3>2. QED
      BY <1>1, <2>2, <2>4, <2>7, <3>1, LedgerPays DEF LedgerKept
  <2>9. QED
    BY <2>3, <2>8 DEF LedgerKept
<1>4. ASSUME Rests PROVE LedgerKept' /\ UNCHANGED <<Earned, account.total_xp>>
  <2>1. Earned' = Earned /\ account' = account
    BY <1>4 DEF Rests, Earned
  <2>2. PaidWhenCompleted'
    BY <1>4 DEF Rests, Advances, LedgerKept, PaidWhenCompleted
  <2>3. QED
    BY <2>1, <2>2 DEF LedgerKept
<1>5. QED
  BY <1>2, <1>3, <1>4, StepCases

LEMMA InitIsLedger == ASSUME Init PROVE LedgerKept /\ Ledger!Init
<1>1. PaidWhenCompleted
  BY DEF Init, PaidWhenCompleted, NoEvents, Quest, FreshQuest
<1>2. \A x \in Claims : Earned[x] = 0
  <2>1. \A k \in Keys : sessions[k] = None
    BY DEF Init
  <2>2. \A d \in Days, c \in Codes : events.paid[d][c] = 0
    BY DEF Init, NoEvents
  <2>3. \A c \in Codes : 0 * Reward[c] = 0
    BY DEF Reward, Codes
  <2>4. \A x \in Claims : x \in Keys \/ \E d \in Days, c \in Codes : x = <<d, c>>
    BY DEF Claims
  <2>5. QED
    BY <2>1, <2>2, <2>3, <2>4 DEF Earned
<1>3. Earned = [x \in Claims |-> 0]
  BY <1>2 DEF Earned
<1>4. Total(Earned, Claims) = 0
  BY <1>2, ClaimsFinite, TotalZero
<1>5. account.total_xp = 0
  BY DEF Init, NewAccount
<1>6. QED
  BY <1>1, <1>3, <1>4, <1>5 DEF LedgerKept, Ledger!Init

\* What the learner is promised is what the handlers implement: every claim (a
\* completed session, a daily quest) is paid at most once, whatever is sent
\* again, races or fails, and total_xp is the sum of what was paid.
THEOREM RewardsImplementLedger ==
    ASSUME Overlap = "duplicates"
    PROVE  Spec => RewardsAreLedger
<1>1. Init => LedgerKept /\ Ledger!Init
  BY InitIsLedger
<1>2. Inductive => TypeOK
  BY DEF Inductive
<1>3. Inductive /\ TypeOK' /\ Fresh /\ LedgerKept /\ [Next]_vars
         => LedgerKept' /\ [Ledger!Pay]_<<Earned, account.total_xp>>
  BY LedgerStep
<1>4. QED
  BY <1>1, <1>2, <1>3, FreshInvariant, PTL DEF Spec, RewardsAreLedger, Ledger!Spec
=============================================================================
