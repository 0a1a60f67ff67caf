-------------------------------- MODULE Cards --------------------------------
(***************************************************************************)
(* Spaced repetition of one learner's vocabulary.  The first request for   *)
(* due cards inserts the whole pack of the preferred language in one       *)
(* transaction, then lists them; an answer reads its card, schedules it    *)
(* (FSRS) and commits the columns that changed.  No row is locked when it  *)
(* is read and no version is compared; what keeps two first requests apart *)
(* is that card keys are deterministic, so that an insert of the same keys *)
(* waits and then fails.  A learner may prefer another language at any     *)
(* time, also between two first requests.                                  *)
(*                                                                         *)
(* Stability and difficulty are abstracted to the interval they yield, any *)
(* of Intervals days.  The vocabulary quest of an answer is in Completion. *)
(***************************************************************************)
EXTENDS Integers, Sequences, FiniteSets

CONSTANTS
    Requests,    \* request handlers that may be in flight at once
    Catalogue,   \* sequence of the packs' cards
    Language,    \* card -> language of its pack
    Languages,   \* what users.preferred_language may be
    Limits,      \* what content_vocabulary_pack_limit may be
    Clients,     \* "patient": one answer about a card at a time; "hasty": not
    Intervals,   \* days FSRS may schedule
    Day,         \* clock ticks in a day; a learning step takes one or two
    MaxNow,      \* bound: the clock
    MaxCalls,    \* bound: requests
    None

Cards == {Catalogue[i] : i \in DOMAIN Catalogue}
Grades == 1 .. 4   \* again, hard, good, easy

ASSUME CardsAssumption ==
    /\ Catalogue \in Seq(Cards)
    /\ \A i, j \in DOMAIN Catalogue : Catalogue[i] = Catalogue[j] => i = j
    /\ Language \in [Cards -> Languages]
    /\ Limits \subseteq Nat \ {0}
    /\ Clients \subseteq {"patient", "hasty"}
    /\ Intervals \subseteq Nat
    /\ Day \in Nat /\ Day > 2
    /\ MaxNow \in Nat /\ MaxCalls \in Nat
    /\ None \notin Cards \cup Grades \cup Nat

VARIABLES
    client, limit,   \* of this learner and this deployment
    language,   \* users.preferred_language
    chosen,     \* (history) what it has been
    now,
    cards,      \* the learner's vocabulary_cards: card -> row
    answers,    \* card -> answers that were accepted
    lapsed,     \* card -> those that found a card in review forgotten
    req,        \* what each handler holds
    calls

setting == <<client, limit>>
preference == <<language, chosen>>
vars == <<setting, preference, now, cards, answers, lapsed, req, calls>>

NewCard(t) == [state |-> 0, days |-> 0, due |-> t, last |-> None, reps |-> 0, lapses |-> 0]

\* MaxNow bounds when an answer comes, not what it schedules
Card ==
    [state : 0 .. 3, days : Nat, due : Nat, last : Nat \cup {None}, reps : Nat, lapses : Nat]

\* pc of /review/due: "insert" when it found no card, "commit" once its rows
\* are inserted; of /review/answer: "answer".  lang: the language preferred
\* when the request was authenticated
Request ==
    [pc : {"idle", "insert", "commit", "answer"}, lang : Languages \cup {None}, card : Cards \cup {None},
     grade : Grades \cup {None}, at : 0 .. MaxNow, read : Card]

Idle == [pc |-> "idle", lang |-> None, card |-> None, grade |-> None, at |-> 0, read |-> NewCard(0)]

TypeOK ==
    /\ client \in Clients /\ limit \in Limits
    /\ language \in chosen /\ chosen \subseteq Languages
    /\ now \in 0 .. MaxNow
    /\ DOMAIN cards \subseteq Cards
    /\ cards \in [DOMAIN cards -> Card]
    /\ answers \in [Cards -> Nat] /\ lapsed \in [Cards -> Nat]
    /\ req \in [Requests -> Request]
    /\ calls \in 0 .. MaxCalls

Init ==
    /\ client \in Clients /\ limit \in Limits
    /\ language \in Languages /\ chosen = {language}
    /\ now = 0
    /\ cards = [c \in {} |-> NewCard(0)]
    /\ answers = [c \in Cards |-> 0] /\ lapsed = [c \in Cards |-> 0]
    /\ req = [q \in Requests |-> Idle]
    /\ calls = 0

-----------------------------------------------------------------------------
(* The pack                                                                *)

Of(l) == {c \in Cards : Language[c] = l}
Index(c) == CHOOSE i \in DOMAIN Catalogue : Catalogue[i] = c

\* The cards of the preferred language come before all others.
Precedes(c, d, l) ==
    IF c \in Of(l) <=> d \in Of(l) THEN Index(c) < Index(d) ELSE c \in Of(l)

\* ensure_user_vocabulary: the preferred language first, then the cap
Pack(l) == {c \in Cards : Cardinality({d \in Cards : Precedes(d, c, l)}) < limit}

-----------------------------------------------------------------------------
(* Scheduling (FSRS)                                                       *)

\* STATE_TRANSITIONS: 0 new, 1 learning, 2 review, 3 relearning
NextState(state, grade) ==
    IF grade >= 3 THEN 2
    ELSE IF state = 0 THEN 1
    ELSE IF grade = 1 THEN 3
    ELSE state

\* LEARNING_STEP_MINUTES
Steps(grade) == IF grade = 1 THEN 1 ELSE 2

\* A lapse is a card in review that was forgotten
Lapse(state, grade) == IF state = 2 /\ grade = 1 THEN 1 ELSE 0

\* review_card, for an interval that rounds to "days"
Reviewed(row, grade, t, days) ==
    LET state == NextState(row.state, grade)
        soon == state \in {1, 3}
        n == IF days = 0 THEN 1 ELSE days
    IN  [state |-> state,
         days |-> IF soon THEN 0 ELSE n,
         due |-> t + (IF soon THEN Steps(grade) ELSE n * Day),
         last |-> t,
         reps |-> row.reps + 1,
         lapses |-> row.lapses + Lapse(row.state, grade)]

\* An UPDATE names the columns whose value is not the one that was read
Changed(row, read, new) ==
    [f \in DOMAIN row |-> IF new[f] = read[f] THEN row[f] ELSE new[f]]

-----------------------------------------------------------------------------
(* Handlers                                                                *)

MayCall(q) == req[q].pc = "idle" /\ calls < MaxCalls

Call(q, r) ==
    /\ calls' = calls + 1
    /\ req' = [req EXCEPT ![q] = r]
    /\ UNCHANGED <<setting, preference, now, cards, answers, lapsed>>

Finish(q) ==
    /\ req' = [req EXCEPT ![q] = Idle]
    /\ UNCHANGED <<setting, preference, now, calls>>

\* POST /users/me/language
Prefer(l) ==
    /\ language' = l
    /\ chosen' = chosen \cup {l}
    /\ UNCHANGED <<setting, now, cards, answers, lapsed, req, calls>>

\* get_due_cards finds no card; otherwise it only lists
Due(q) ==
    /\ MayCall(q)
    /\ DOMAIN cards = {}
    /\ Call(q, [Idle EXCEPT !.pc = "insert", !.lang = language])

\* (bug) rows are replaced
KeysReplaced(q) == FALSE

\* A row of the pack exists under the same deterministic key
KeysTaken(q) == DOMAIN cards \cap Pack(req[q].lang) # {}

\* The flush: it waits for a transaction that inserted one of its keys, and
\* fails, the whole request with it, if that one committed.  (Two flushes that
\* wait for each other's keys are a deadlock: one of them fails.)
Insert(q) ==
    /\ req[q].pc = "insert"
    /\ \A p \in Requests :
          req[p].pc = "commit" => Pack(req[p].lang) \cap Pack(req[q].lang) = {}
    /\ IF KeysTaken(q) THEN Finish(q)
       ELSE req' = [req EXCEPT ![q].pc = "commit", ![q].at = now]
            /\ UNCHANGED <<setting, preference, now, calls>>
    /\ UNCHANGED <<cards, answers, lapsed>>

CommitPack(q) ==
    LET pack == Pack(req[q].lang)
    IN  /\ req[q].pc = "commit"
        /\ cards' = [c \in DOMAIN cards \cup pack |->
                       IF c \in pack THEN NewCard(req[q].at) ELSE cards[c]]
        /\ Finish(q)
        /\ UNCHANGED <<answers, lapsed>>

\* submit_review reads the card.  It asks for no card to be due, so also one
\* in relearning, which the queue never lists, may be answered.
Answer(q, c, grade) ==
    /\ MayCall(q)
    /\ c \in DOMAIN cards
    /\ client = "patient" => \A p \in Requests : req[p].card # c
    /\ Call(q, [Idle EXCEPT !.pc = "answer", !.card = c, !.grade = grade, !.at = now,
                            !.read = cards[c]])

CommitAnswer(q, days) ==
    LET r == req[q]
    IN  /\ r.pc = "answer"
        /\ cards' = [cards EXCEPT ![r.card] =
                       Changed(@, r.read, Reviewed(r.read, r.grade, r.at, days))]
        /\ answers' = [answers EXCEPT ![r.card] = @ + 1]
        /\ lapsed' = [lapsed EXCEPT ![r.card] =
                        @ + Lapse(r.read.state, r.grade)]
        /\ Finish(q)

Fail(q) ==
    /\ req[q].pc # "idle"
    /\ Finish(q)
    /\ UNCHANGED <<cards, answers, lapsed>>

Tick ==
    /\ now < MaxNow
    /\ now' = now + 1
    /\ UNCHANGED <<setting, preference, cards, answers, lapsed, req, calls>>

Next ==
    \/ \E q \in Requests :
        \/ Due(q) \/ Insert(q) \/ CommitPack(q) \/ Fail(q)
        \/ \E c \in Cards, g \in Grades : Answer(q, c, g)
        \/ \E d \in Intervals : CommitAnswer(q, d)
    \/ \E l \in Languages : Prefer(l)
    \/ Tick

Spec == Init /\ [][Next]_vars

-----------------------------------------------------------------------------
(* Properties                                                              *)

\* What the packs of languages L leave, if they have no key in common
Packs(L) == UNION {Pack(l) : l \in L}
Apart(L) == \A k, l \in L : k # l => Pack(k) \cap Pack(l) = {}

\* A pack keeps every card of its language that fits in the cap.
Preferring(l) ==
    \/ Of(l) \subseteq Pack(l)
    \/ Pack(l) \subseteq Of(l) /\ Cardinality(Pack(l)) = limit

\* However first requests overlap with each other, with answers and with a
\* change of the language, what a learner has are whole packs, each of a
\* language that was preferred and for that language, and no card of one was
\* inserted for another.  Overlapping first requests for languages whose packs
\* are disjoint leave both, and then more cards than the cap.
PackWhole ==
    \E L \in SUBSET chosen :
        /\ DOMAIN cards = Packs(L)
        /\ Apart(L)
        /\ \A l \in L : Preferring(l)

\* A row that agrees with the answers it was given
Consistent(row) ==
    /\ row.state = 0 <=> row.last = None
    /\ row.state \in {1, 3} => row.days = 0 /\ row.due - row.last \in {1, 2}
    /\ row.state = 2 => row.days > 0 /\ row.due = row.last + row.days * Day

\* Every answer of a learner who waits for the one before counts, and leaves a
\* row whose state, interval and due date belong together; no materialization
\* resets a card that was answered.  Of answers that overlap some may be lost,
\* but a card that was answered never looks new.
CardFollowsAnswers ==
    \A c \in DOMAIN cards :
        /\ cards[c].reps <= answers[c] /\ cards[c].lapses <= lapsed[c]
        /\ cards[c].state = 0 <=> answers[c] = 0
        /\ client = "patient" =>
             /\ cards[c].reps = answers[c] /\ cards[c].lapses = lapsed[c]
             /\ Consistent(cards[c])
=============================================================================
