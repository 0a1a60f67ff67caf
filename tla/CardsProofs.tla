----------------------------- MODULE CardsProofs -----------------------------
(***************************************************************************)
(* Theorems about Cards and DailyMix for every catalogue, every limit of   *)
(* the pack, every number of requests and every seed of the mix.           *)
(***************************************************************************)
EXTENDS DailyMix, Sums, SequenceTheorems, FiniteSetTheorems, TLAPS

(***************************************************************************)
(* Ranks: in a finite strict order the numbers of elements that come       *)
(* before each are the numbers from 0 up, each once.                       *)
(***************************************************************************)

RankIn(R, S, x) == Cardinality({y \in S : <<y, x>> \in R})

Ordered(R, S) ==
    /\ \A x \in S : <<x, x>> \notin R
    /\ \A x, y \in S : x # y => <<x, y>> \in R \/ <<y, x>> \in R
    /\ \A x, y, z \in S : <<x, y>> \in R /\ <<y, z>> \in R => <<x, z>> \in R

LEMMA RanksGrow ==
    ASSUME NEW S, IsFiniteSet(S), NEW R, Ordered(R, S),
           NEW x \in S, NEW y \in S, <<x, y>> \in R
    PROVE  RankIn(R, S, x) < RankIn(R, S, y)
<1> DEFINE X == {z \in S : <<z, x>> \in R}
           Y == {z \in S : <<z, y>> \in R}
<1>1. X \in SUBSET Y /\ x \in Y /\ x \notin X /\ Y \in SUBSET S
  BY DEF Ordered
<1> HIDE DEF X, Y
<1>2. IsFiniteSet(Y) /\ IsFiniteSet(X) /\ Cardinality(X) \in Nat /\ Cardinality(Y) \in Nat
  BY <1>1, FS_Subset, FS_CardinalityType
<1>3. Cardinality(X) <= Cardinality(Y) /\ Cardinality(X) # Cardinality(Y)
  BY <1>1, <1>2, FS_Subset
<1>4. QED
  BY <1>2, <1>3 DEF RankIn, X, Y

LEMMA RanksCount ==
    ASSUME NEW S, IsFiniteSet(S), NEW R, Ordered(R, S)
    PROVE  /\ Cardinality(S) \in Nat
           /\ \A x \in S : RankIn(R, S, x) \in Nat /\ RankIn(R, S, x) < Cardinality(S)
           /\ \A x, y \in S : RankIn(R, S, x) = RankIn(R, S, y) => x = y
           /\ \A n \in Nat : n < Cardinality(S) => \E x \in S : RankIn(R, S, x) = n
<1> DEFINE size == Cardinality(S)
           T == 0 .. size - 1
           rank == [x \in S |-> RankIn(R, S, x)]
<1>1. size \in Nat
  BY FS_CardinalityType
<1>2. ASSUME NEW x \in S PROVE RankIn(R, S, x) \in Nat /\ RankIn(R, S, x) < size
  <2> DEFINE X == {z \in S : <<z, x>> \in R}
  <2>1. X \in SUBSET S /\ X # S
    BY DEF Ordered
  <2> HIDE DEF X
  <2>2. Cardinality(X) \in Nat /\ Cardinality(X) <= size /\ Cardinality(X) # size
    BY <2>1, FS_Subset, FS_CardinalityType
  <2>3. QED
    BY <1>1, <2>2 DEF RankIn, X
<1>3. \A x, y \in S : RankIn(R, S, x) = RankIn(R, S, y) => x = y
  <2>1. ASSUME NEW x \in S, NEW y \in S, x # y PROVE RankIn(R, S, x) # RankIn(R, S, y)
    <3>1. \A a, b \in S : <<a, b>> \in R => RankIn(R, S, a) < RankIn(R, S, b)
      BY RanksGrow
    <3>2. RankIn(R, S, x) < RankIn(R, S, y) \/ RankIn(R, S, y) < RankIn(R, S, x)
      BY <2>1, <3>1 DEF Ordered
    <3>3. QED
      BY <1>2, <3>2
  <2>2. QED
    BY <2>1
<1> HIDE DEF size
<1>4. rank \in [S -> T] /\ \A x, y \in S : rank[x] = rank[y] => x = y
  BY <1>1, <1>2, <1>3
<1> HIDE DEF rank
<1>5. rank \in Injection(S, T)
  BY <1>4 DEF Injection, IsInjective
<1>6. IsFiniteSet(T) /\ Cardinality(T) = size
  BY <1>1, FS_Interval
<1>7. rank \in Surjection(S, T)
  BY <1>5, <1>6, FS_Injection DEF size
<1>8. \A n \in T : \E x \in S : rank[x] = n
  BY <1>7 DEF Surjection
<1>9. \A n \in Nat : n < size => \E x \in S : RankIn(R, S, x) = n
  <2>1. \A n \in Nat : n < size => n \in T
    BY <1>1
  <2>2. QED
    BY <1>8, <2>1 DEF rank
<1>10. QED
  BY <1>1, <1>2, <1>3, <1>9 DEF size

LEMMA PairIn ==
    ASSUME NEW S, NEW x \in S, NEW y \in S
    PROVE  <<x, y>> \in S \X S /\ <<x, y>>[1] = x /\ <<x, y>>[2] = y
OBVIOUS

(***************************************************************************)
(* Scheduling.                                                             *)
(***************************************************************************)

LEMMA NewCardType == \A t \in Nat : NewCard(t) \in Card
BY DEF NewCard, Card

LEMMA ReviewedRow ==
    ASSUME NEW row \in Card, NEW grade \in Grades, NEW t \in Nat, NEW days \in Nat,
           NEW new, new = Reviewed(row, grade, t, days)
    PROVE  /\ new \in Card /\ Consistent(new) /\ new.state # 0
           /\ new.reps = row.reps + 1
           /\ new.lapses = row.lapses + Lapse(row.state, grade)
           /\ Lapse(row.state, grade) \in {0, 1}
           /\ new.state = NextState(row.state, grade)
<1> DEFINE state == NextState(row.state, grade)
           soon == state \in {1, 3}
           n == IF days = 0 THEN 1 ELSE days
           wait == IF soon THEN Steps(grade) ELSE n * Day
<1>1. state \in {1, 2, 3}
  BY DEF NextState, Card, Grades
<1>2. n \in Nat /\ n > 0
  OBVIOUS
<1>3. n * Day \in Nat
  BY <1>2, CardsAssumption DEF CardsAssumption
<1>4. Steps(grade) \in {1, 2}
  BY DEF Steps
<1>5. Lapse(row.state, grade) \in {0, 1}
  BY DEF Lapse
<1>6. wait \in Nat
  BY <1>3, <1>4
<1>7. new = [state |-> state, days |-> IF soon THEN 0 ELSE n, due |-> t + wait,
             last |-> t, reps |-> row.reps + 1,
             lapses |-> row.lapses + Lapse(row.state, grade)]
  BY DEF Reviewed
<1>8. row.reps \in Nat /\ row.lapses \in Nat
  BY DEF Card
<1>9. t # None
  BY CardsAssumption DEF CardsAssumption
<1>10. soon => wait = Steps(grade)
  OBVIOUS
<1>11. ~soon => wait = n * Day /\ state = 2
  BY <1>1
<1>12. state \in {1, 3} <=> soon
  OBVIOUS
<1> HIDE DEF state, soon, n, wait
<1>13. t + wait \in Nat /\ row.reps + 1 \in Nat
       /\ row.lapses + Lapse(row.state, grade) \in Nat
       /\ (t + wait) - t = wait
  BY <1>5, <1>6, <1>8
<1>14. new \in Card
  BY <1>1, <1>2, <1>7, <1>13 DEF Card
<1>15. Consistent(new)
  BY <1>1, <1>2, <1>4, <1>7, <1>9, <1>10, <1>11, <1>12, <1>13 DEF Consistent
<1>16. QED
  BY <1>1, <1>5, <1>7, <1>14, <1>15 DEF state

LEMMA ChangedRow ==
    ASSUME NEW row \in Card, NEW read \in Card, NEW new \in Card
    PROVE  /\ Changed(row, read, new) \in Card
           /\ Changed(row, read, new).state
                 = IF new.state = read.state THEN row.state ELSE new.state
           /\ Changed(row, read, new).reps
                 = IF new.reps = read.reps THEN row.reps ELSE new.reps
           /\ Changed(row, read, new).lapses
                 = IF new.lapses = read.lapses THEN row.lapses ELSE new.lapses
           /\ row = read => Changed(row, read, new) = new
<1>1. DOMAIN row = {"state", "days", "due", "last", "reps", "lapses"}
  BY DEF Card
<1>2. Changed(row, read, new) =
         [f \in {"state", "days", "due", "last", "reps", "lapses"} |->
            IF new[f] = read[f] THEN row[f] ELSE new[f]]
  BY <1>1 DEF Changed
<1> DEFINE c == Changed(row, read, new)
<1>3. c = [state |-> c.state, days |-> c.days, due |-> c.due, last |-> c.last,
           reps |-> c.reps, lapses |-> c.lapses]
  BY <1>2
<1>4. /\ c.state = IF new.state = read.state THEN row.state ELSE new.state
      /\ c.days = IF new.days = read.days THEN row.days ELSE new.days
      /\ c.due = IF new.due = read.due THEN row.due ELSE new.due
      /\ c.last = IF new.last = read.last THEN row.last ELSE new.last
      /\ c.reps = IF new.reps = read.reps THEN row.reps ELSE new.reps
      /\ c.lapses = IF new.lapses = read.lapses THEN row.lapses ELSE new.lapses
  BY <1>2
<1> HIDE DEF c
<1>5. c \in Card
  BY <1>3, <1>4 DEF Card
<1>6. row = read => c = new
  <2>1. new = [state |-> new.state, days |-> new.days, due |-> new.due,
               last |-> new.last, reps |-> new.reps, lapses |-> new.lapses]
    BY DEF Card
  <2>2. QED
    BY <1>3, <1>4, <2>1
<1>7. QED
  BY <1>4, <1>5, <1>6 DEF c

(***************************************************************************)
(* Types.                                                                  *)
(***************************************************************************)

LEMMA IdleType == Idle \in Request /\ Idle.card = None /\ Idle.pc = "idle"
<1>1. NewCard(0) \in Card /\ 0 \in 0 .. MaxNow
  BY NewCardType, CardsAssumption DEF CardsAssumption
<1>2. QED
  BY <1>1 DEF Idle, Request

\* The row that an answer leaves.
Answered(q, days) ==
    LET r == req[q]
    IN  Changed(cards[r.card], r.read, Reviewed(r.read, r.grade, r.at, days))

\* What the handlers in flight hold.
InFlight ==
    \A q \in Requests :
        /\ req[q].pc # "answer" => req[q].card = None
        /\ req[q].pc = "answer" => req[q].card \in DOMAIN cards /\ req[q].grade \in Grades

LEMMA AnsweredType ==
    ASSUME TypeOK, InFlight, NEW q \in Requests, req[q].pc = "answer",
           NEW days \in Intervals
    PROVE  /\ req[q].read \in Card /\ req[q].grade \in Grades /\ req[q].at \in Nat
           /\ days \in Nat
           /\ req[q].card \in Cards /\ req[q].card \in DOMAIN cards
           /\ cards[req[q].card] \in Card
           /\ Reviewed(req[q].read, req[q].grade, req[q].at, days) \in Card
           /\ Answered(q, days) \in Card
<1>1. /\ req[q].read \in Card /\ req[q].grade \in Grades /\ req[q].at \in Nat
      /\ days \in Nat
      /\ req[q].card \in Cards /\ req[q].card \in DOMAIN cards
      /\ cards[req[q].card] \in Card
  BY CardsAssumption DEF TypeOK, InFlight, Request, CardsAssumption
<1>2. Reviewed(req[q].read, req[q].grade, req[q].at, days) \in Card
  BY <1>1, ReviewedRow
<1>3. QED
  BY <1>1, <1>2, ChangedRow DEF Answered

LEMMA InitTyped == ASSUME Init PROVE TypeOK /\ InFlight
<1>1. /\ cards \in [DOMAIN cards -> Card] /\ DOMAIN cards \subseteq Cards
      /\ req \in [Requests -> Request]
      /\ now \in 0 .. MaxNow /\ calls \in 0 .. MaxCalls
  BY IdleType, CardsAssumption DEF Init, CardsAssumption
<1>2. InFlight
  BY IdleType DEF Init, InFlight
<1>3. QED
  BY <1>1, <1>2 DEF Init, TypeOK

LEMMA NextTyped == ASSUME TypeOK, InFlight, [Next]_vars PROVE TypeOK' /\ InFlight'
<1> USE CardsAssumption DEF CardsAssumption
<1>1. /\ now \in Nat /\ MaxNow \in Nat /\ calls \in Nat /\ MaxCalls \in Nat
      /\ now <= MaxNow /\ calls <= MaxCalls
  BY DEF TypeOK
<1>2. ASSUME NEW q \in Requests, Due(q) PROVE TypeOK' /\ InFlight'
  <2> DEFINE r == [Idle EXCEPT !.pc = "insert", !.lang = language]
  <2>1. r \in Request /\ r.pc = "insert" /\ r.card = None
    BY IdleType DEF Idle, Request, TypeOK
  <2>2. /\ req' = [req EXCEPT ![q] = r] /\ calls' = calls + 1 /\ calls < MaxCalls
        /\ UNCHANGED <<setting, preference, now, cards, answers, lapsed>>
    BY <1>2 DEF Due, Call, MayCall
  <2> HIDE DEF r
  <2>3. QED
    BY <1>1, <2>1, <2>2 DEF TypeOK, InFlight, setting, preference
<1>3. ASSUME NEW q \in Requests, Insert(q) PROVE TypeOK' /\ InFlight'
  <2>1. UNCHANGED <<setting, preference, now, calls, cards, answers, lapsed>> /\ req[q].pc = "insert"
    BY <1>3 DEF Insert, Finish
  <2>2. PICK r \in Request : req' = [req EXCEPT ![q] = r] /\ r.pc # "answer" /\ r.card = None
    <3>1. CASE KeysTaken(q)
      BY <1>3, <3>1, IdleType DEF Insert, Finish
    <3>2. CASE ~KeysTaken(q)
      <4>1. req' = [req EXCEPT ![q] = [@ EXCEPT !.pc = "commit", !.at = now]]
        BY <1>3, <3>2 DEF Insert
      <4>2. /\ [req[q] EXCEPT !.pc = "commit", !.at = now] \in Request
            /\ req[q].card = None
        BY <2>1 DEF TypeOK, Request, InFlight
      <4>3. QED
        BY <4>1, <4>2 DEF TypeOK, Request
    <3>3. QED
      BY <3>1, <3>2
  <2>3. QED
    BY <2>1, <2>2 DEF TypeOK, InFlight, setting, preference
<1>4. ASSUME NEW q \in Requests, CommitPack(q) PROVE TypeOK' /\ InFlight'
  <2>1. /\ req' = [req EXCEPT ![q] = Idle]
        /\ UNCHANGED <<setting, preference, now, calls, answers, lapsed>>
    BY <1>4 DEF CommitPack, Finish
  <2>2. NewCard(req[q].at) \in Card
    BY NewCardType DEF TypeOK, Request
  <2>3. /\ DOMAIN cards' = DOMAIN cards \cup Pack(req[q].lang) /\ DOMAIN cards' \subseteq Cards
        /\ cards' \in [DOMAIN cards' -> Card]
    BY <1>4, <2>2 DEF CommitPack, Pack, TypeOK
  <2>4. QED
    BY <2>1, <2>3, IdleType DEF TypeOK, InFlight, setting, preference
<1>5. ASSUME NEW q \in Requests, Fail(q) PROVE TypeOK' /\ InFlight'
  BY <1>5, IdleType DEF Fail, Finish, TypeOK, InFlight, setting, preference
<1>6. ASSUME NEW q \in Requests, NEW c \in Cards, NEW g \in Grades, Answer(q, c, g)
      PROVE  TypeOK' /\ InFlight'
  <2> DEFINE r == [Idle EXCEPT !.pc = "answer", !.card = c, !.grade = g, !.at = now,
                               !.read = cards[c]]
  <2>1. /\ req' = [req EXCEPT ![q] = r] /\ calls' = calls + 1 /\ calls < MaxCalls
        /\ c \in DOMAIN cards
        /\ UNCHANGED <<setting, preference, now, cards, answers, lapsed>>
    BY <1>6 DEF Answer, Call, MayCall
  <2>2. r \in Request /\ r.card = c /\ r.grade = g /\ r.pc = "answer"
    <3>1. cards[c] \in Card /\ now \in 0 .. MaxNow
      BY <2>1 DEF TypeOK
    <3>2. QED
      BY <3>1 DEF Idle, Request
  <2> HIDE DEF r
  <2>3. QED
    BY <1>1, <2>1, <2>2 DEF TypeOK, InFlight, setting, preference
<1>7. ASSUME NEW q \in Requests, NEW d \in Intervals, CommitAnswer(q, d)
      PROVE  TypeOK' /\ InFlight'
  <2> DEFINE a == req[q].card
             n == Lapse(req[q].read.state, req[q].grade)
  <2>1. /\ req[q].pc = "answer"
        /\ cards' = [cards EXCEPT ![a] = Answered(q, d)]
        /\ answers' = [answers EXCEPT ![a] = @ + 1]
        /\ lapsed' = [lapsed EXCEPT ![a] = @ + n]
        /\ req' = [req EXCEPT ![q] = Idle]
        /\ UNCHANGED <<setting, preference, now, calls>>
    BY <1>7 DEF CommitAnswer, Finish, Answered
  <2>2. Answered(q, d) \in Card /\ a \in Cards
    BY <2>1, AnsweredType
  <2>3. n \in Nat
    BY DEF Lapse
  <2> HIDE DEF n, a
  <2>4. DOMAIN cards' = DOMAIN cards /\ cards' \in [DOMAIN cards' -> Card]
    BY <2>1, <2>2 DEF TypeOK
  <2>5. answers' \in [Cards -> Nat] /\ lapsed' \in [Cards -> Nat]
    BY <2>1, <2>2, <2>3 DEF TypeOK
  <2>6. req' \in [Requests -> Request] /\ InFlight'
    BY <2>1, <2>4, IdleType DEF TypeOK, InFlight
  <2>7. QED
    BY <2>1, <2>4, <2>5, <2>6 DEF TypeOK, setting, preference
<1>8. CASE Tick
  BY <1>1, <1>8 DEF Tick, TypeOK, InFlight, setting, preference
<1>9. ASSUME NEW l \in Languages, Prefer(l) PROVE TypeOK' /\ InFlight'
  BY <1>9 DEF Prefer, TypeOK, InFlight, setting
<1>10. CASE UNCHANGED vars
  BY <1>10 DEF vars, TypeOK, InFlight, setting, preference
<1>11. QED
  BY <1>2, <1>3, <1>4, <1>5, <1>6, <1>7, <1>8, <1>9, <1>10 DEF Next

\* Rows keep the columns' types and a handler its request's, whatever is
\* scheduled and however requests overlap.
THEOREM CardsTyped == Spec => [](TypeOK /\ InFlight)
BY InitTyped, NextTyped, PTL DEF Spec

(***************************************************************************)
(* The pack.                                                               *)
(***************************************************************************)

LEMMA IndexOf ==
    ASSUME NEW c \in Cards
    PROVE  Index(c) \in Nat /\ Index(c) \in DOMAIN Catalogue /\ Catalogue[Index(c)] = c
<1>1. \E i \in DOMAIN Catalogue : Catalogue[i] = c
  BY DEF Cards
<1>2. Index(c) \in DOMAIN Catalogue /\ Catalogue[Index(c)] = c
  BY <1>1 DEF Index
<1>3. DOMAIN Catalogue \subseteq Nat
  BY CardsAssumption DEF CardsAssumption
<1>4. QED
  BY <1>2, <1>3

LEMMA PrecedesOrders ==
    ASSUME NEW l, NEW c \in Cards, NEW d \in Cards
    PROVE  /\ ~Precedes(c, c, l)
           /\ c # d => Precedes(c, d, l) \/ Precedes(d, c, l)
           /\ \A e \in Cards : Precedes(c, d, l) /\ Precedes(d, e, l) => Precedes(c, e, l)
<1>1. \A e \in Cards : Index(e) \in Nat
  BY IndexOf
<1>2. c # d => Index(c) # Index(d)
  BY IndexOf
<1>3. ~Precedes(c, c, l) /\ (c # d => Precedes(c, d, l) \/ Precedes(d, c, l))
  BY <1>1, <1>2 DEF Precedes
<1>4. \A e \in Cards : Precedes(c, d, l) /\ Precedes(d, e, l) => Precedes(c, e, l)
  BY <1>1 DEF Precedes
<1>5. QED
  BY <1>3, <1>4

LEMMA CardsFinite == IsFiniteSet(Cards)
<1>1. /\ DOMAIN Catalogue = 1 .. Len(Catalogue) /\ Len(Catalogue) \in Nat
      /\ Catalogue \in [1 .. Len(Catalogue) -> Cards]
  BY CardsAssumption DEF CardsAssumption
<1>2. Catalogue \in Surjection(1 .. Len(Catalogue), Cards)
  BY <1>1 DEF Surjection, Cards
<1>3. IsFiniteSet(1 .. Len(Catalogue))
  BY <1>1, FS_Interval
<1>4. QED
  BY <1>2, <1>3, FS_Surjection

\* how many cards come before each
Ahead(c, l) == {d \in Cards : Precedes(d, c, l)}
Rank(l) == [c \in Cards |-> Cardinality(Ahead(c, l))]
Listing(l) == {p \in Cards \X Cards : Precedes(p[1], p[2], l)}

LEMMA ListingOrders ==
    ASSUME NEW l
    PROVE  /\ Ordered(Listing(l), Cards)
           /\ \A c \in Cards : Rank(l)[c] = RankIn(Listing(l), Cards, c)
<1>1. \A c, d \in Cards : <<c, d>> \in Listing(l) <=> Precedes(c, d, l)
  <2>1. ASSUME NEW c \in Cards, NEW d \in Cards
        PROVE  <<c, d>> \in Listing(l) <=> Precedes(c, d, l)
    <3> DEFINE p == <<c, d>>
    <3>1. p \in Cards \X Cards /\ p[1] = c /\ p[2] = d
      BY PairIn
    <3> HIDE DEF p
    <3>2. p \in Listing(l) <=> Precedes(c, d, l)
      BY <3>1 DEF Listing
    <3>3. QED
      BY <3>2 DEF p
  <2>2. QED
    BY <2>1
<1>2. Ordered(Listing(l), Cards)
  BY <1>1, PrecedesOrders DEF Ordered
<1>3. \A c \in Cards : Ahead(c, l) = {d \in Cards : <<d, c>> \in Listing(l)}
  BY <1>1 DEF Ahead
<1>4. QED
  BY <1>2, <1>3 DEF Rank, RankIn

LEMMA RankGrows ==
    ASSUME NEW l, NEW c \in Cards, NEW d \in Cards, Precedes(c, d, l)
    PROVE  Rank(l)[c] < Rank(l)[d]
<1>1. <<c, d>> \in Listing(l)
  <2>1. <<c, d>> \in Cards \X Cards /\ <<c, d>>[1] = c /\ <<c, d>>[2] = d
    BY PairIn
  <2>2. QED
    BY <2>1 DEF Listing
<1>2. QED
  BY <1>1, CardsFinite, ListingOrders, RanksGrow

LEMMA RankCounts ==
    ASSUME NEW l
    PROVE  /\ Cardinality(Cards) \in Nat
           /\ \A c \in Cards : Rank(l)[c] \in Nat /\ Rank(l)[c] < Cardinality(Cards)
           /\ \A c, d \in Cards : Rank(l)[c] = Rank(l)[d] => c = d
           /\ \A n \in Nat : n < Cardinality(Cards) => \E c \in Cards : Rank(l)[c] = n
<1> DEFINE R == Listing(l)
<1>1. /\ Ordered(R, Cards) /\ IsFiniteSet(Cards)
      /\ \A c \in Cards : Rank(l)[c] = RankIn(R, Cards, c)
  BY CardsFinite, ListingOrders
<1> HIDE DEF R
<1>2. /\ Cardinality(Cards) \in Nat
      /\ \A x \in Cards : RankIn(R, Cards, x) \in Nat /\ RankIn(R, Cards, x) < Cardinality(Cards)
      /\ \A x, y \in Cards : RankIn(R, Cards, x) = RankIn(R, Cards, y) => x = y
      /\ \A n \in Nat : n < Cardinality(Cards) => \E x \in Cards : RankIn(R, Cards, x) = n
  BY <1>1, RanksCount
<1>3. QED
  BY <1>1, <1>2

LEMMA FullPack ==
    ASSUME NEW l, limit \in Nat, limit <= Cardinality(Cards)
    PROVE  Cardinality(Pack(l)) = limit
<1> DEFINE T == 0 .. limit - 1
           f == [c \in Pack(l) |-> Rank(l)[c]]
<1>1. Pack(l) = {c \in Cards : Rank(l)[c] < limit}
  BY DEF Pack, Rank, Ahead
<1>2. Cardinality(Cards) \in Nat /\ \A c \in Cards : Rank(l)[c] \in Nat
  BY RankCounts
<1>3. f \in [Pack(l) -> T] /\ \A c, d \in Pack(l) : f[c] = f[d] => c = d
  BY <1>1, <1>2, RankCounts
<1>4. \A n \in T : \E c \in Pack(l) : f[c] = n
  <2>1. ASSUME NEW n \in T PROVE \E c \in Pack(l) : f[c] = n
    <3>1. n \in Nat /\ n < limit /\ n < Cardinality(Cards)
      BY <1>2
    <3>2. PICK c \in Cards : Rank(l)[c] = n
      BY <3>1, RankCounts
    <3>3. QED
      BY <1>1, <3>1, <3>2
  <2>2. QED
    BY <2>1
<1> HIDE DEF f
<1>5. f \in Bijection(Pack(l), T)
  BY <1>3, <1>4 DEF Bijection, Injection, Surjection, IsInjective
<1>6. IsFiniteSet(Pack(l))
  BY <1>1, CardsFinite, FS_Subset
<1>7. Cardinality(T) = Cardinality(Pack(l))
  BY <1>5, <1>6, FS_Bijection DEF ExistsBijection
<1>8. QED
  BY <1>7, FS_Interval

\* A pack holds every card of the preferred language, or is full of them.
LEMMA PackPrefers ==
    ASSUME limit \in Nat, NEW l
    PROVE  Preferring(l)
<1>1. SUFFICES ASSUME NEW m \in Of(l), m \notin Pack(l)
               PROVE  Pack(l) \subseteq Of(l) /\ Cardinality(Pack(l)) = limit
  BY DEF Preferring
<1>2. /\ m \in Cards /\ ~(Rank(l)[m] < limit)
      /\ \A c \in Pack(l) : c \in Cards /\ Rank(l)[c] < limit
  BY <1>1 DEF Of, Pack, Rank, Ahead
<1>3. Cardinality(Cards) \in Nat
      /\ \A c \in Cards : Rank(l)[c] \in Nat /\ Rank(l)[c] < Cardinality(Cards)
  BY RankCounts
<1>4. limit <= Cardinality(Cards)
  BY <1>2, <1>3
<1>5. ASSUME NEW c \in Pack(l), c \notin Of(l) PROVE FALSE
  <2>1. Precedes(m, c, l)
    BY <1>1, <1>5 DEF Precedes
  <2>2. Rank(l)[m] < Rank(l)[c]
    BY <1>2, <2>1, RankGrows
  <2>3. QED
    BY <1>2, <1>3, <2>2
<1>6. QED
  BY <1>4, <1>5, FullPack

(***************************************************************************)
(* No learner has half a pack, nor two that share a card.                  *)
(***************************************************************************)

\* The cards are whole packs apart from each other, and a pack that is inserted
\* has no card that is there or that another transaction inserts.
Inserting(q, k) == req[q].pc = "commit" /\ req[q].lang = k

PacksApart ==
    /\ \A q \in Requests : req[q].pc \in {"insert", "commit"} => req[q].lang \in chosen
    /\ \E L \in SUBSET chosen : DOMAIN cards = Packs(L) /\ Apart(L)
    /\ \A q \in Requests : \A k : Inserting(q, k) => Pack(k) \cap DOMAIN cards = {}
    /\ \A p, q \in Requests : \A k, l :
          Inserting(p, k) /\ Inserting(q, l) /\ p # q => Pack(k) \cap Pack(l) = {}

LEMMA SamePack ==
    ASSUME UNCHANGED setting
    PROVE  /\ \A l : Pack(l)' = Pack(l)
           /\ \A L : Packs(L)' = Packs(L) /\ Apart(L)' = Apart(L)
BY DEF setting, Pack, Packs, Apart

\* One pack more, apart from those that are there.
LEMMA PackAdded ==
    ASSUME NEW L, NEW k, Apart(L), Pack(k) \cap Packs(L) = {}
    PROVE  Packs(L \cup {k}) = Packs(L) \cup Pack(k) /\ Apart(L \cup {k})
<1>1. \A l \in L : Pack(l) \subseteq Packs(L)
  BY DEF Packs
<1>2. \A l \in L : Pack(l) \cap Pack(k) = {}
  BY <1>1
<1> QED
  BY <1>2 DEF Packs, Apart

\* A step of q to a request that does not insert.
LEMMA InsertStays ==
    ASSUME TypeOK, PacksApart, UNCHANGED <<setting, preference>>,
           DOMAIN cards' = DOMAIN cards,
           NEW q \in Requests, NEW r, req' = [req EXCEPT ![q] = r], r.pc # "commit",
           r.pc = "insert" => r.lang \in chosen
    PROVE  PacksApart'
<1>1. /\ req'[q] = r /\ \A p \in Requests : p # q => req'[p] = req[p]
      /\ chosen' = chosen
  BY DEF TypeOK, preference
<1>2. \A p \in Requests : \A k : Inserting(p, k)' => Inserting(p, k)
  BY <1>1 DEF Inserting
<1>3. /\ \A l : Pack(l)' = Pack(l)
      /\ \A L : Packs(L)' = Packs(L) /\ Apart(L)' = Apart(L)
  BY SamePack
<1>4. \E L \in SUBSET chosen' : DOMAIN cards' = Packs(L)' /\ Apart(L)'
  BY <1>1, <1>3 DEF PacksApart
<1>5. \A p \in Requests : \A k : Inserting(p, k)' => Pack(k)' \cap DOMAIN cards' = {}
  BY <1>2, <1>3 DEF PacksApart
<1>6. \A p, o \in Requests : \A k, l :
          Inserting(p, k)' /\ Inserting(o, l)' /\ p # o => Pack(k)' \cap Pack(l)' = {}
  BY <1>2, <1>3 DEF PacksApart
<1>7. \A p \in Requests : req'[p].pc \in {"insert", "commit"} => req'[p].lang \in chosen'
  BY <1>1 DEF PacksApart
<1> QED
  BY <1>4, <1>5, <1>6, <1>7 DEF PacksApart

\* The flush of a pack of which no card is there or inserted.
LEMMA FlushApart ==
    ASSUME TypeOK, PacksApart, NEW q \in Requests, Insert(q), ~KeysTaken(q)
    PROVE  PacksApart'
<1>1. PICK m \in chosen : m = req[q].lang
  BY DEF Insert, PacksApart
<1>2. /\ req[q].pc = "insert" /\ UNCHANGED <<setting, preference, cards>>
      /\ req' = [req EXCEPT ![q] = [@ EXCEPT !.pc = "commit", !.at = now]]
      /\ \A p \in Requests : \A k : Inserting(p, k) => Pack(k) \cap Pack(m) = {}
      /\ Pack(m) \cap DOMAIN cards = {}
  BY <1>1 DEF Insert, KeysTaken, Inserting
<1>3. /\ req'[q].lang = m /\ \A p \in Requests : p # q => req'[p] = req[p]
      /\ chosen' = chosen
  BY <1>1, <1>2 DEF TypeOK, Request, preference
<1>4. /\ \A l : Pack(l)' = Pack(l)
      /\ \A L : Packs(L)' = Packs(L) /\ Apart(L)' = Apart(L)
  BY <1>2, SamePack
<1>5. \A p \in Requests : \A k : Inserting(p, k)' => (p = q /\ k = m) \/ Inserting(p, k)
  BY <1>3 DEF Inserting
<1>6. \A k : ~Inserting(q, k)
  BY <1>2 DEF Inserting
<1>7. \E L \in SUBSET chosen' : DOMAIN cards' = Packs(L)' /\ Apart(L)'
  BY <1>2, <1>3, <1>4 DEF PacksApart
<1>8. \A p \in Requests : \A k : Inserting(p, k)' => Pack(k)' \cap DOMAIN cards' = {}
  BY <1>2, <1>4, <1>5 DEF PacksApart
<1>9. \A p, o \in Requests : \A k, l :
          Inserting(p, k)' /\ Inserting(o, l)' /\ p # o => Pack(k)' \cap Pack(l)' = {}
  <2> SUFFICES ASSUME NEW p \in Requests, NEW o \in Requests, NEW k, NEW l,
                      Inserting(p, k)', Inserting(o, l)', p # o
               PROVE  Pack(k) \cap Pack(l) = {}
    BY <1>4
  <2>1. CASE p = q
    <3>1. k = m /\ Inserting(o, l)
      BY <1>5, <1>6, <2>1
    <3> QED
      BY <1>2, <3>1
  <2>2. CASE o = q
    <3>1. l = m /\ Inserting(p, k)
      BY <1>5, <1>6, <2>2
    <3> QED
      BY <1>2, <3>1
  <2>3. CASE p # q /\ o # q
    BY <1>5, <2>3 DEF PacksApart
  <2> QED
    BY <2>1, <2>2, <2>3
<1>10. \A p \in Requests : req'[p].pc \in {"insert", "commit"} => req'[p].lang \in chosen'
  BY <1>1, <1>2, <1>3 DEF PacksApart
<1> QED
  BY <1>7, <1>8, <1>9, <1>10 DEF PacksApart

LEMMA CommitApart ==
    ASSUME TypeOK, PacksApart, NEW q \in Requests, CommitPack(q)
    PROVE  PacksApart'
<1>1. PICK k \in chosen : k = req[q].lang
  BY DEF CommitPack, PacksApart
<1>2. /\ UNCHANGED <<setting, preference>> /\ req' = [req EXCEPT ![q] = Idle]
      /\ Inserting(q, k) /\ DOMAIN cards' = DOMAIN cards \cup Pack(k)
  BY <1>1 DEF CommitPack, Finish, Inserting
<1>3. /\ req'[q].pc = "idle" /\ \A p \in Requests : p # q => req'[p] = req[p]
      /\ chosen' = chosen
  BY <1>2, IdleType DEF TypeOK, preference
<1>4. /\ \A l : Pack(l)' = Pack(l)
      /\ \A L : Packs(L)' = Packs(L) /\ Apart(L)' = Apart(L)
  BY <1>2, SamePack
<1>5. PICK L \in SUBSET chosen : DOMAIN cards = Packs(L) /\ Apart(L)
  BY DEF PacksApart
<1>6. Pack(k) \cap Packs(L) = {}
  BY <1>1, <1>2, <1>5 DEF PacksApart
<1>7. DOMAIN cards' = Packs(L \cup {k})' /\ Apart(L \cup {k})'
  BY <1>2, <1>4, <1>5, <1>6, PackAdded
<1>8. \A p \in Requests : \A l : Inserting(p, l)' => p # q /\ Inserting(p, l)
  BY <1>3 DEF Inserting
<1>9. \A p \in Requests : \A l : Inserting(p, l)' => Pack(l)' \cap DOMAIN cards' = {}
  <2> SUFFICES ASSUME NEW p \in Requests, NEW l, Inserting(p, l)'
               PROVE  Pack(l) \cap DOMAIN cards' = {}
    BY <1>4
  <2>1. Pack(l) \cap DOMAIN cards = {} /\ Pack(l) \cap Pack(k) = {}
    BY <1>2, <1>8 DEF PacksApart
  <2> QED
    BY <1>2, <2>1
<1>10. \A p, o \in Requests : \A m, l :
           Inserting(p, m)' /\ Inserting(o, l)' /\ p # o => Pack(m)' \cap Pack(l)' = {}
  BY <1>4, <1>8 DEF PacksApart
<1>11. \A p \in Requests : req'[p].pc \in {"insert", "commit"} => req'[p].lang \in chosen'
  BY <1>3 DEF PacksApart
<1>12. \E M \in SUBSET chosen' : DOMAIN cards' = Packs(M)' /\ Apart(M)'
  BY <1>3, <1>7
<1> QED
  BY <1>9, <1>10, <1>11, <1>12 DEF PacksApart

LEMMA NextKeepsApart ==
    ASSUME TypeOK, InFlight, PacksApart, [Next]_vars
    PROVE  PacksApart'
<1>1. ASSUME NEW q \in Requests, Due(q) PROVE PacksApart'
  <2> DEFINE r == [Idle EXCEPT !.pc = "insert", !.lang = language]
  <2>1. req' = [req EXCEPT ![q] = r] /\ UNCHANGED <<setting, preference, cards>>
    BY <1>1 DEF Due, Call
  <2>2. r.pc # "commit" /\ r.lang \in chosen
    BY DEF Idle, TypeOK
  <2> HIDE DEF r
  <2>3. QED
    BY <2>1, <2>2, InsertStays
<1>2. ASSUME NEW q \in Requests, Insert(q) PROVE PacksApart'
  <2>1. CASE KeysTaken(q)
    <3>1. req' = [req EXCEPT ![q] = Idle] /\ UNCHANGED <<setting, preference, cards>>
      BY <1>2, <2>1 DEF Insert, Finish
    <3>2. QED
      BY <3>1, IdleType, InsertStays
  <2>2. QED
    BY <1>2, <2>1, FlushApart
<1>3. ASSUME NEW q \in Requests, CommitPack(q) PROVE PacksApart'
  BY <1>3, CommitApart
<1>4. ASSUME NEW q \in Requests, Fail(q) PROVE PacksApart'
  BY <1>4, IdleType, InsertStays DEF Fail, Finish
<1>5. ASSUME NEW q \in Requests, NEW c \in Cards, NEW g \in Grades, Answer(q, c, g)
      PROVE  PacksApart'
  <2> DEFINE r == [Idle EXCEPT !.pc = "answer", !.card = c, !.grade = g, !.at = now,
                               !.read = cards[c]]
  <2>1. req' = [req EXCEPT ![q] = r] /\ UNCHANGED <<setting, preference, cards>>
    BY <1>5 DEF Answer, Call
  <2>2. r.pc = "answer"
    BY DEF Idle
  <2> HIDE DEF r
  <2>3. QED
    BY <2>1, <2>2, InsertStays
<1>6. ASSUME NEW q \in Requests, NEW d \in Intervals, CommitAnswer(q, d)
      PROVE  PacksApart'
  <2>1. /\ UNCHANGED <<setting, preference>> /\ req' = [req EXCEPT ![q] = Idle]
        /\ DOMAIN cards' = DOMAIN cards
    BY <1>6 DEF CommitAnswer, Finish, TypeOK
  <2>2. QED
    BY <2>1, IdleType, InsertStays
<1>7. ASSUME UNCHANGED <<setting, cards, req>>, chosen \subseteq chosen' PROVE PacksApart'
  <2>1. /\ \A l : Pack(l)' = Pack(l)
        /\ \A L : Packs(L)' = Packs(L) /\ Apart(L)' = Apart(L)
    BY <1>7, SamePack
  <2>2. \A q \in Requests : \A k : Inserting(q, k)' <=> Inserting(q, k)
    BY <1>7 DEF Inserting
  <2>3. \E L \in SUBSET chosen' : DOMAIN cards' = Packs(L)' /\ Apart(L)'
    BY <1>7, <2>1 DEF PacksApart
  <2>4. QED
    BY <1>7, <2>1, <2>2, <2>3 DEF PacksApart
<1>8. ASSUME NEW l \in Languages, Prefer(l) PROVE PacksApart'
  BY <1>7, <1>8 DEF Prefer
<1>9. CASE Tick \/ UNCHANGED vars
  BY <1>7, <1>9 DEF Tick, vars, preference
<1>10. QED
  BY <1>1, <1>2, <1>3, <1>4, <1>5, <1>6, <1>8, <1>9 DEF Next

LEMMA InitApart == Init => PacksApart
<1> SUFFICES ASSUME Init PROVE PacksApart
  OBVIOUS
<1>1. DOMAIN cards = Packs({}) /\ Apart({})
  BY DEF Init, Packs, Apart
<1>2. \A q \in Requests : req[q].pc = "idle"
  BY IdleType DEF Init
<1>3. QED
  BY <1>1, <1>2 DEF PacksApart, Inserting

LEMMA PacksApartInvariant == Spec => [](TypeOK /\ InFlight /\ PacksApart)
BY InitApart, InitTyped, NextTyped, NextKeepsApart, PTL DEF Spec

\* However first requests overlap with each other, with answers and with changes
\* of the language, the cards are whole packs that share no card, each of a
\* language that was preferred and with that language's cards before any other.
THEOREM PackIsWhole == Spec => []PackWhole
<1>1. TypeOK => limit \in Nat
  BY CardsAssumption DEF TypeOK, CardsAssumption
<1>2. TypeOK /\ PacksApart => PackWhole
  BY <1>1, PackPrefers DEF PacksApart, PackWhole
<1>3. QED
  BY <1>2, PacksApartInvariant, PTL

(***************************************************************************)
(* Every answer counts.                                                    *)
(***************************************************************************)

\* A row against the answers its card was given; all of them, if the learner
\* awaits each.
Row(row, given, forgotten) ==
    /\ row.reps <= given /\ row.lapses <= forgotten
    /\ row.state = 0 <=> given = 0
    /\ client = "patient" =>
         /\ row.reps = given /\ row.lapses = forgotten /\ Consistent(row)

\* What an answer in flight read of its card: all there is, if the learner
\* waits.
ReadRow(q) ==
    LET c == req[q].card
        read == req[q].read
    IN  /\ read.reps <= answers[c] /\ read.lapses <= lapsed[c]
        /\ read.state # 0 => answers[c] # 0
        /\ client = "patient" =>
             /\ read = cards[c]
             /\ \A p \in Requests : req[p].pc = "answer" /\ req[p].card = c => p = q

Counted ==
    /\ \A c \in Cards : c \notin DOMAIN cards => answers[c] = 0 /\ lapsed[c] = 0
    /\ \A c \in DOMAIN cards : Row(cards[c], answers[c], lapsed[c])
    /\ \A q \in Requests : req[q].pc = "answer" => ReadRow(q)

\* A step that leaves the cards alone and the answers in flight, except q's.
LEMMA CountedStays ==
    ASSUME TypeOK, Counted, UNCHANGED <<setting, cards, answers, lapsed>>,
           NEW q \in Requests, NEW r, req' = [req EXCEPT ![q] = r], r.pc # "answer"
    PROVE  Counted'
<1>1. \A p \in Requests : req'[p].pc = "answer" => p # q /\ req'[p] = req[p]
  BY DEF TypeOK
<1>2. ASSUME NEW p \in Requests, req'[p].pc = "answer" PROVE ReadRow(p)'
  <2>1. p # q /\ req'[p] = req[p] /\ ReadRow(p)
    BY <1>1, <1>2 DEF Counted
  <2>2. QED
    BY <1>1, <2>1 DEF ReadRow, setting
<1>3. client' = client
  BY DEF setting
<1>4. \A c \in Cards : c \notin DOMAIN cards' => answers'[c] = 0 /\ lapsed'[c] = 0
  BY DEF Counted
<1>5. \A c \in DOMAIN cards' : Row(cards'[c], answers'[c], lapsed'[c])
  BY DEF Counted
<1>6. QED
  BY <1>2, <1>3, <1>4, <1>5 DEF Counted, Row

\* An answer commits.
LEMMA AnswerCounts ==
    ASSUME TypeOK, InFlight, Counted, NEW q \in Requests, NEW d \in Intervals,
           CommitAnswer(q, d)
    PROVE  Counted'
<1> DEFINE c == req[q].card
           read == req[q].read
           n == Lapse(read.state, req[q].grade)
           new == Reviewed(read, req[q].grade, req[q].at, d)
           row == Answered(q, d)
<1>1. /\ req[q].pc = "answer"
      /\ cards' = [cards EXCEPT ![c] = row]
      /\ answers' = [answers EXCEPT ![c] = @ + 1]
      /\ lapsed' = [lapsed EXCEPT ![c] = @ + n]
      /\ req' = [req EXCEPT ![q] = Idle]
      /\ UNCHANGED setting
  BY DEF CommitAnswer, Finish, Answered
<1>2. /\ read \in Card /\ c \in Cards /\ c \in DOMAIN cards /\ cards[c] \in Card
      /\ new \in Card /\ row \in Card /\ req[q].grade \in Grades
      /\ req[q].at \in Nat /\ d \in Nat
  BY <1>1, AnsweredType
<1>3. /\ Consistent(new) /\ new.state # 0 /\ new.reps = read.reps + 1
      /\ new.lapses = read.lapses + n /\ n \in {0, 1}
  <2>1. \A g \in Grades, t \in Nat, m \in Nat, r \in Card :
           LET w == Reviewed(r, g, t, m)
           IN  /\ Consistent(w) /\ w.state # 0 /\ w.reps = r.reps + 1
               /\ w.lapses = r.lapses + Lapse(r.state, g)
    BY ReviewedRow
  <2>2. Lapse(read.state, req[q].grade) \in {0, 1}
    BY DEF Lapse
  <2>3. QED
    BY <1>2, <2>1, <2>2
<1>4. row = Changed(cards[c], read, new)
  BY DEF Answered
<1>5. ReadRow(q) /\ Row(cards[c], answers[c], lapsed[c])
  BY <1>1, <1>2 DEF Counted
<1>6. /\ answers[c] \in Nat /\ lapsed[c] \in Nat /\ DOMAIN cards' = DOMAIN cards
      /\ answers'[c] = answers[c] + 1 /\ lapsed'[c] = lapsed[c] + n
      /\ cards'[c] = row
      /\ \A e \in Cards : e # c => /\ answers'[e] = answers[e]
                                   /\ lapsed'[e] = lapsed[e]
                                   /\ e \in DOMAIN cards => cards'[e] = cards[e]
      /\ \A p \in Requests : p # q => req'[p] = req[p]
      /\ req'[q].pc # "answer"
  BY <1>1, <1>2, IdleType DEF TypeOK
<1>7. /\ read.reps \in Nat /\ read.lapses \in Nat
      /\ cards[c].reps \in Nat /\ cards[c].lapses \in Nat
  BY <1>2 DEF Card
<1>8. /\ read.reps <= answers[c] /\ read.lapses <= lapsed[c]
      /\ read.state # 0 => answers[c] # 0
      /\ client = "patient" => read = cards[c]
  BY <1>5 DEF ReadRow
<1>9. /\ row.state = IF new.state = read.state THEN cards[c].state ELSE new.state
      /\ row.reps = read.reps + 1
      /\ row.lapses = IF n = 0 THEN cards[c].lapses ELSE read.lapses + 1
      /\ cards[c] = read => row = new
  <2> HIDE DEF c, read, n, new, row
  <2>1. /\ row.state = IF new.state = read.state THEN cards[c].state ELSE new.state
        /\ row.reps = IF new.reps = read.reps THEN cards[c].reps ELSE new.reps
        /\ row.lapses = IF new.lapses = read.lapses THEN cards[c].lapses ELSE new.lapses
        /\ cards[c] = read => row = new
    BY <1>2, <1>4, ChangedRow
  <2>2. QED
    BY <1>3, <1>7, <2>1
<1> HIDE DEF c, read, n, new, row
<1>10. row.state # 0
  <2>1. CASE new.state = read.state
    <3>1. answers[c] # 0
      BY <1>3, <1>8, <2>1
    <3>2. cards[c].state # 0
      BY <1>5, <3>1 DEF Row
    <3>3. QED
      BY <1>9, <2>1, <3>2
  <2>2. CASE new.state # read.state
    BY <1>3, <1>9, <2>2
  <2>3. QED
    BY <2>1, <2>2
<1>11. row.reps <= answers[c] + 1 /\ row.lapses <= lapsed[c] + n
  BY <1>3, <1>5, <1>6, <1>7, <1>8, <1>9 DEF Row
<1>12. client = "patient" => /\ row.reps = answers[c] + 1
                             /\ row.lapses = lapsed[c] + n /\ Consistent(row)
  BY <1>3, <1>5, <1>6, <1>7, <1>8, <1>9 DEF Row
<1>13. client' = client
  BY <1>1 DEF setting
<1>14. Row(cards'[c], answers'[c], lapsed'[c])
  <2>1. answers[c] + 1 # 0
    BY <1>6
  <2>2. QED
    BY <1>6, <1>10, <1>11, <1>12, <2>1 DEF Row
<1>15. \A e \in DOMAIN cards' : Row(cards'[e], answers'[e], lapsed'[e])
  <2>1. ASSUME NEW e \in DOMAIN cards', e # c PROVE Row(cards'[e], answers'[e], lapsed'[e])
    <3>1. e \in DOMAIN cards /\ e \in Cards
      BY <1>6, <2>1 DEF TypeOK
    <3>2. Row(cards[e], answers[e], lapsed[e])
      BY <3>1 DEF Counted
    <3>3. QED
      BY <1>6, <2>1, <3>1, <3>2
  <2>2. QED
    BY <1>14, <2>1
<1>16. \A e \in Cards : e \notin DOMAIN cards' => answers'[e] = 0 /\ lapsed'[e] = 0
  BY <1>2, <1>6 DEF Counted
<1>17. ASSUME NEW p \in Requests, req'[p].pc = "answer" PROVE ReadRow(p)'
  <2>1. p # q /\ req'[p] = req[p] /\ req[p].pc = "answer"
    BY <1>6, <1>17
  <2>2. ReadRow(p) /\ req[p].card \in Cards /\ req[p].card \in DOMAIN cards
    BY <2>1 DEF Counted, InFlight, TypeOK
  <2>3. CASE req[p].card = c
    <3>1. client # "patient"
      BY <1>1, <2>1, <2>2, <2>3 DEF ReadRow, c
    <3>2. /\ req[p].read.reps \in Nat /\ req[p].read.lapses \in Nat
      BY <2>1 DEF TypeOK, Request, Card
    <3>3. /\ req[p].read.reps <= answers'[c] /\ req[p].read.lapses <= lapsed'[c]
          /\ answers'[c] # 0
      BY <1>3, <1>6, <2>2, <2>3, <3>2 DEF ReadRow
    <3>4. QED
      BY <1>13, <2>1, <2>3, <3>1, <3>3 DEF ReadRow
  <2>4. CASE req[p].card # c
    <3>1. \A o \in Requests : req'[o].pc = "answer" => req'[o] = req[o]
      BY <1>6
    <3>2. QED
      BY <1>6, <1>13, <2>1, <2>2, <2>4, <3>1 DEF ReadRow
  <2>5. QED
    BY <2>3, <2>4
<1>18. QED
  BY <1>13, <1>15, <1>16, <1>17 DEF Counted, Row

LEMMA NextCounts ==
    ASSUME TypeOK, InFlight, PacksApart, Counted, [Next]_vars
    PROVE  Counted'
<1>1. ASSUME NEW q \in Requests, Due(q) PROVE Counted'
  <2> DEFINE r == [Idle EXCEPT !.pc = "insert", !.lang = language]
  <2>1. req' = [req EXCEPT ![q] = r] /\ UNCHANGED <<setting, cards, answers, lapsed>>
    BY <1>1 DEF Due, Call
  <2>2. r.pc # "answer"
    BY DEF Idle
  <2> HIDE DEF r
  <2>3. QED
    BY <2>1, <2>2, CountedStays
<1>2. ASSUME NEW q \in Requests, Insert(q) PROVE Counted'
  <2> DEFINE r == IF KeysTaken(q) THEN Idle
                  ELSE [req[q] EXCEPT !.pc = "commit", !.at = now]
  <2>1. /\ req' = [req EXCEPT ![q] = r]
        /\ UNCHANGED <<setting, cards, answers, lapsed>>
    BY <1>2 DEF Insert, Finish
  <2>2. r.pc # "answer"
    BY IdleType DEF TypeOK, Request
  <2> HIDE DEF r
  <2>3. QED
    BY <2>1, <2>2, CountedStays
<1>3. ASSUME NEW q \in Requests, CommitPack(q) PROVE Counted'
  <2> DEFINE pack == Pack(req[q].lang)
  <2>1. /\ req' = [req EXCEPT ![q] = Idle] /\ req[q].pc = "commit"
        /\ UNCHANGED <<setting, answers, lapsed>>
        /\ cards' = [c \in DOMAIN cards \cup pack |->
                       IF c \in pack THEN NewCard(req[q].at) ELSE cards[c]]
    BY <1>3 DEF CommitPack, Finish
  <2>2. pack \cap DOMAIN cards = {} /\ pack \subseteq Cards
    BY <2>1 DEF PacksApart, Inserting, Pack
  <2> HIDE DEF pack
  <2>3. /\ DOMAIN cards' = DOMAIN cards \cup pack
        /\ \A c \in pack : cards'[c] = NewCard(req[q].at)
        /\ \A c \in DOMAIN cards : cards'[c] = cards[c]
    BY <2>1, <2>2
  <2>4. client' = client
    BY <2>1 DEF setting
  <2>5. \A c \in pack : answers'[c] = 0 /\ lapsed'[c] = 0
    BY <2>1, <2>2 DEF Counted
  <2>6. \A c \in pack : Row(cards'[c], answers'[c], lapsed'[c])
    BY <2>3, <2>5 DEF Row, NewCard, Consistent
  <2>7. \A c \in DOMAIN cards' : Row(cards'[c], answers'[c], lapsed'[c])
    <3>1. \A c \in DOMAIN cards : Row(cards'[c], answers'[c], lapsed'[c])
      BY <2>1, <2>3 DEF Counted
    <3>2. QED
      BY <2>3, <2>6, <3>1
  <2>8. ASSUME NEW p \in Requests, req'[p].pc = "answer" PROVE ReadRow(p)'
    <3>1. /\ req'[p] = req[p] /\ req[p].card \in DOMAIN cards /\ ReadRow(p)
          /\ \A o \in Requests : req'[o].pc = "answer" => req'[o] = req[o]
      BY <2>1, <2>8, IdleType DEF InFlight, TypeOK, Counted
    <3>2. QED
      BY <2>1, <2>3, <2>4, <3>1 DEF ReadRow
  <2>9. \A c \in Cards : c \notin DOMAIN cards' => answers'[c] = 0 /\ lapsed'[c] = 0
    BY <2>1, <2>3 DEF Counted
  <2>10. QED
    BY <2>4, <2>7, <2>8, <2>9 DEF Counted, Row
<1>4. ASSUME NEW q \in Requests, Fail(q) PROVE Counted'
  BY <1>4, IdleType, CountedStays DEF Fail, Finish
<1>5. ASSUME NEW q \in Requests, NEW c \in Cards, NEW g \in Grades, Answer(q, c, g)
      PROVE  Counted'
  <2> DEFINE r == [Idle EXCEPT !.pc = "answer", !.card = c, !.grade = g, !.at = now,
                               !.read = cards[c]]
  <2>1. /\ req' = [req EXCEPT ![q] = r] /\ UNCHANGED <<setting, cards, answers, lapsed>>
        /\ req[q].pc = "idle" /\ c \in DOMAIN cards
        /\ client = "patient" => \A p \in Requests : req[p].card # c
    BY <1>5 DEF Answer, Call, MayCall
  <2>2. r.pc = "answer" /\ r.card = c /\ r.read = cards[c]
    BY DEF Idle
  <2> HIDE DEF r
  <2>3. /\ req'[q] = r /\ \A p \in Requests : p # q => req'[p] = req[p]
        /\ client' = client
    BY <2>1 DEF TypeOK, setting
  <2>4. Row(cards[c], answers[c], lapsed[c])
    BY <2>1 DEF Counted
  <2>5. ASSUME NEW p \in Requests, req'[p].pc = "answer" PROVE ReadRow(p)'
    <3>1. CASE p = q
      <4>1. req'[p].card = c /\ req'[p].read = cards[c]
        BY <2>2, <2>3, <3>1
      <4>2. client = "patient" =>
               \A o \in Requests : req'[o].pc = "answer" /\ req'[o].card = c => o = q
        BY <2>1, <2>3
      <4>3. QED
        BY <2>1, <2>3, <2>4, <3>1, <4>1, <4>2 DEF ReadRow, Row
    <3>2. CASE p # q
      <4>1. req'[p] = req[p] /\ ReadRow(p)
        BY <2>3, <2>5, <3>2 DEF Counted
      <4>2. client = "patient" => req[p].card # c
        BY <2>1
      <4>3. QED
        BY <2>1, <2>2, <2>3, <4>1, <4>2 DEF ReadRow
    <3>3. QED
      BY <3>1, <3>2
  <2>6. QED
    BY <2>1, <2>3, <2>5 DEF Counted, Row
<1>6. ASSUME NEW q \in Requests, NEW d \in Intervals, CommitAnswer(q, d)
      PROVE  Counted'
  BY <1>6, AnswerCounts
<1>7. CASE Tick \/ (\E l \in Languages : Prefer(l)) \/ UNCHANGED vars
  <2>1. UNCHANGED <<client, cards, answers, lapsed, req>>
    BY <1>7 DEF Tick, Prefer, vars, setting
  <2>2. QED
    BY <2>1 DEF Counted, Row, ReadRow
<1>8. QED
  BY <1>1, <1>2, <1>3, <1>4, <1>5, <1>6, <1>7 DEF Next

\* Every answer of a learner who awaits the one before is in the card's row,
\* whose state, interval and due date belong together; of answers that overlap
\* some may be lost, but none is counted twice and no card that was answered
\* looks new, however inserts, answers and failures interleave.
THEOREM CardsFollowAnswers == Spec => []CardFollowsAnswers
<1>1. Init => Counted
  BY IdleType DEF Init, Counted
<1>2. Counted => CardFollowsAnswers
  BY DEF Counted, Row, CardFollowsAnswers
<1>3. QED
  BY <1>1, <1>2, NextCounts, PacksApartInvariant, PTL DEF Spec

-----------------------------------------------------------------------------
(* The daily mix: what every draw of the generator keeps.                  *)

LEMMA FourSkills ==
    /\ MixSkills = {"speaking", "listening", "reading", "writing"}
    /\ Len(SkillOrder) = 4
    /\ SkillOrder[1] = "speaking" /\ SkillOrder[2] = "listening"
    /\ SkillOrder[3] = "reading" /\ SkillOrder[4] = "writing"
BY DEF MixSkills, SkillOrder, ToSet

LEMMA CandidateTypes ==
    \A c \in DOMAIN Candidates :
        /\ c # None
        /\ Candidates[c].skill \in MixSkills /\ Candidates[c].minutes \in Nat
        /\ Candidates[c].level \in Nat /\ Candidates[c].premium \in BOOLEAN
BY DailyMixAssumption DEF Candidate

\* What the learner may be given.
Permitted(ask) == {c \in DOMAIN Candidates : ask.entitled \/ ~Candidates[c].premium}
Given(ask) == {Item(c, p) : c \in Permitted(ask), p \in {1, 2}}

Sound(ask, overdue, mix) ==
    /\ mix \in Seq(Given(ask) \cup {Review})
    /\ Len(mix) <= MaxItems
    /\ \A i, j \in DOMAIN mix : mix[i].id = mix[j].id => i = j
    /\ \A i \in DOMAIN mix : mix[i] = Review <=> (i = 1 /\ overdue)
    /\ overdue => mix # <<>>

LEMMA GivenItem ==
    ASSUME NEW ask, NEW x \in Given(ask) \cup {Review}
    PROVE  /\ x.kind \in MixSkills \cup {"vocab_review"} /\ x.minutes \in Nat
           /\ x.priority \in {0, 1, 2}
           /\ x = Review <=> x.kind = "vocab_review"
           /\ x = Review <=> x.priority = 0
           /\ x = Review <=> x.id = None
           /\ x # Review => /\ x.id \in Permitted(ask)
                            /\ Candidates[x.id].skill = x.kind
BY CandidateTypes, FourSkills DEF Given, Item, Review, Permitted

LEMMA MixTypes ==
    ASSUME NEW ask, NEW overdue, NEW mix, Sound(ask, overdue, mix)
    PROVE  /\ Len(mix) \in 0 .. 5 /\ DOMAIN mix = 1 .. Len(mix)
           /\ \A i \in DOMAIN mix : mix[i] \in Given(ask) \cup {Review}
<1>1. ASSUME NEW X, mix \in Seq(X), Len(mix) <= 5
      PROVE  /\ Len(mix) \in 0 .. 5 /\ DOMAIN mix = 1 .. Len(mix)
             /\ \A i \in DOMAIN mix : mix[i] \in X
  <2>1. Len(mix) \in Nat /\ DOMAIN mix = 1 .. Len(mix)
    BY <1>1
  <2>2. \A i \in DOMAIN mix : mix[i] \in X
    BY <1>1
  <2>3. QED
    BY <1>1, <2>1, <2>2
<1> DEFINE X == Given(ask) \cup {Review}
<1>2. mix \in Seq(X) /\ Len(mix) <= 5
  BY DEF Sound, MaxItems
<1> HIDE DEF X
<1>3. /\ Len(mix) \in 0 .. 5 /\ DOMAIN mix = 1 .. Len(mix)
      /\ \A i \in DOMAIN mix : mix[i] \in X
  BY <1>1, <1>2
<1>4. QED
  BY <1>3 DEF X

LEMMA MixItems ==
    ASSUME NEW ask, NEW overdue, NEW mix, Sound(ask, overdue, mix), NEW i \in DOMAIN mix
    PROVE  /\ mix[i].kind \in MixSkills \cup {"vocab_review"} /\ mix[i].minutes \in Nat
           /\ mix[i].priority \in {0, 1, 2}
           /\ mix[i] = Review <=> mix[i].kind = "vocab_review"
           /\ mix[i] = Review <=> mix[i].priority = 0
           /\ mix[i] = Review <=> mix[i].id = None
           /\ mix[i] # Review => /\ mix[i].id \in Permitted(ask)
                                 /\ Candidates[mix[i].id].skill = mix[i].kind
<1>1. mix[i] \in Given(ask) \cup {Review}
  BY MixTypes
<1>2. QED
  BY <1>1, GivenItem

LEMMA Least ==
    ASSUME NEW pool \in SUBSET DOMAIN Candidates, pool # {}
    PROVE  {c \in pool : \A d \in pool : ~EasierThan(d, c)} # {}
<1> DEFINE B == {Candidates[c].level : c \in pool}
<1>1. B \in SUBSET Nat /\ B # {}
  BY CandidateTypes
<1>2. PICK l \in B : \A n \in B : l <= n
  <2> HIDE DEF B
  <2>1. QED
    BY <1>1, LeastNumber
<1> DEFINE low == {c \in pool : Candidates[c].level = l}
           M == {Candidates[c].minutes : c \in low}
<1>3. M \in SUBSET Nat /\ M # {}
  BY <1>2, CandidateTypes
<1>4. PICK k \in M : \A n \in M : k <= n
  <2> HIDE DEF M
  <2>1. QED
    BY <1>3, LeastNumber
<1>5. PICK c \in low : Candidates[c].minutes = k
  BY <1>4
<1>6. ASSUME NEW d \in pool PROVE ~EasierThan(d, c)
  <2>1. /\ Candidates[c].level = l /\ l \in Nat /\ Candidates[d].level \in Nat
        /\ l <= Candidates[d].level
        /\ Candidates[c].minutes \in Nat /\ Candidates[d].minutes \in Nat
    BY <1>2, <1>5, CandidateTypes
  <2>2. CASE Candidates[d].level = l
    <3>1. Candidates[c].minutes <= Candidates[d].minutes
      BY <1>4, <1>5, <2>2
    <3>2. QED
      BY <2>1, <3>1 DEF EasierThan
  <2>3. CASE Candidates[d].level # l
    BY <2>1, <2>3 DEF EasierThan
  <2>4. QED
    BY <2>2, <2>3
<1>7. QED
  BY <1>5, <1>6

\* A content is found exactly when one may be given.
LEMMA ContentFound ==
    ASSUME NEW ask, NEW s, NEW mix
    PROVE  /\ ContentFor(ask, s, mix) \subseteq Eligible(ask, s, mix)
           /\ Eligible(ask, s, mix) # {} => ContentFor(ask, s, mix) # {}
<1> DEFINE all == Eligible(ask, s, mix)
           unit == {c \in all : Candidates[c].unit = CurrentUnit}
           level == {c \in all : Candidates[c].level = ask.levels[s]}
           standalone == {c \in all : Candidates[c].unit = None}
           pool == CASE unit # {} -> unit
                     [] unit = {} /\ level # {} -> level
                     [] unit = {} /\ level = {} /\ standalone # {} -> standalone
                     [] OTHER -> all
<1>1. ContentFor(ask, s, mix) =
         IF ask.easier THEN {c \in pool : \A d \in pool : ~EasierThan(d, c)} ELSE pool
  BY DEF ContentFor
<1>2. pool \in {unit, level, standalone, all} /\ (all # {} => pool # {})
  <2> HIDE DEF unit, level, standalone, all
  <2>1. QED
    OBVIOUS
<1>3. pool \subseteq all
  <2>1. unit \subseteq all /\ level \subseteq all /\ standalone \subseteq all
    OBVIOUS
  <2> HIDE DEF unit, level, standalone, all, pool
  <2>2. QED
    BY <1>2, <2>1
<1>4. all \subseteq DOMAIN Candidates
  BY DEF Eligible
<1> HIDE DEF pool, all
<1>5. pool \in SUBSET DOMAIN Candidates
  BY <1>3, <1>4
<1>6. pool # {} => {c \in pool : \A d \in pool : ~EasierThan(d, c)} # {}
  BY <1>5, Least
<1>7. QED
  BY <1>1, <1>2, <1>3, <1>6 DEF all

LEMMA ExtendedBy ==
    ASSUME NEW ask, NEW s, NEW mix, NEW priority,
           NEW m \in Extended(ask, s, mix, priority)
    PROVE  \/ m = mix /\ Eligible(ask, s, mix) = {}
           \/ \E c \in Eligible(ask, s, mix) : m = Append(mix, Item(c, priority))
BY ContentFound DEF Extended

\* One more content of s, of priority p.
Grew(ask, overdue, mix, m, s, p) ==
    /\ Sound(ask, overdue, m)
    /\ Len(m) = Len(mix) + 1 /\ DOMAIN m = DOMAIN mix \cup {Len(m)}
    /\ Len(m) \notin DOMAIN mix
    /\ \A i \in DOMAIN mix : m[i] = mix[i]
    /\ m[Len(m)].kind = s /\ m[Len(m)].priority = p

LEMMA AppendedSound ==
    ASSUME NEW ask, NEW overdue, NEW mix, Sound(ask, overdue, mix),
           Len(mix) < MaxItems, NEW s, NEW c \in Eligible(ask, s, mix),
           NEW p \in {1, 2}
    PROVE  Grew(ask, overdue, mix, Append(mix, Item(c, p)), s, p)
<1> DEFINE x == Item(c, p)
           m == Append(mix, x)
<1>1. x \in Given(ask) /\ x.id = c /\ x.kind = s /\ x.priority = p /\ x # Review
      /\ c \notin Ids(mix)
  BY CandidateTypes DEF Given, Permitted, Item, Eligible, Review
<1> HIDE DEF x
<1>2. mix \in Seq(Given(ask) \cup {Review}) /\ Len(mix) \in 0 .. 5 /\ DOMAIN mix = 1 .. Len(mix)
  BY MixTypes DEF Sound
<1>4. /\ m \in Seq(Given(ask) \cup {Review}) /\ Len(m) = Len(mix) + 1
      /\ DOMAIN m = 1 .. Len(mix) + 1
      /\ \A i \in DOMAIN mix : m[i] = mix[i]
      /\ m[Len(m)] = x
  BY <1>1, <1>2
<1> HIDE DEF m
<1>5. /\ DOMAIN m = DOMAIN mix \cup {Len(m)} /\ Len(m) \notin DOMAIN mix
      /\ m # <<>> /\ Len(m) <= MaxItems
  BY <1>2, <1>4 DEF MaxItems
<1>6. \A i, j \in DOMAIN m : m[i].id = m[j].id => i = j
  <2>1. \A i \in DOMAIN mix : m[i].id # m[Len(m)].id
    BY <1>1, <1>4 DEF Ids
  <2>2. \A i, j \in DOMAIN mix : m[i].id = m[j].id => i = j
    BY <1>4 DEF Sound
  <2>3. QED
    BY <1>5, <2>1, <2>2
<1>7. \A i \in DOMAIN m : m[i] = Review <=> (i = 1 /\ overdue)
  <2>1. \A i \in DOMAIN mix : m[i] = Review <=> (i = 1 /\ overdue)
    BY <1>4 DEF Sound
  <2>2. overdue => Len(m) # 1
    <3> DEFINE X == Given(ask) \cup {Review}
    <3> HIDE DEF X
    <3>1. mix \in Seq(X) /\ (overdue => mix # <<>>)
      BY <1>2 DEF Sound, X
    <3>2. QED
      BY <1>2, <1>4, <3>1
  <2>3. QED
    BY <1>1, <1>4, <1>5, <2>1, <2>2
<1>8. QED
  BY <1>1, <1>4, <1>5, <1>6, <1>7 DEF Sound, Grew, x, m

\* The blocks of the first n skills are in the mix, each once.
Blocks(ask, overdue, n, mix) ==
    /\ Sound(ask, overdue, mix)
    /\ Len(mix) <= n + 1
    /\ \A i, j \in DOMAIN mix : mix[i].kind = mix[j].kind => i = j
    /\ \A i \in DOMAIN mix : mix[i] # Review =>
          /\ mix[i].priority = 1 /\ mix[i].kind \in ask.unfinished
          /\ \E k \in 1 .. n : mix[i].kind = SkillOrder[k]
    /\ \A k \in 1 .. n :
          SkillOrder[k] \in ask.unfinished /\ Eligible(ask, SkillOrder[k], <<>>) # {}
              => \E i \in DOMAIN mix : mix[i].kind = SkillOrder[k]

\* Another skill's contents are not in the mix.
LEMMA StillEligible ==
    ASSUME NEW ask, NEW overdue, NEW mix, Sound(ask, overdue, mix), NEW s,
           \A i \in DOMAIN mix : mix[i].kind # s
    PROVE  Eligible(ask, s, mix) = Eligible(ask, s, <<>>)
<1>1. Ids(<<>>) = {}
  BY DEF Ids
<1>2. ASSUME NEW c \in DOMAIN Candidates, Candidates[c].skill = s, c \in Ids(mix)
      PROVE  FALSE
  <2>1. PICK i \in DOMAIN mix : mix[i].id = c
    BY <1>2 DEF Ids
  <2>2. mix[i] \in Given(ask) \cup {Review}
    BY MixTypes
  <2>3. mix[i] # Review
    BY <1>2, <2>1, <2>2, GivenItem, CandidateTypes
  <2>4. mix[i].kind = s
    BY <1>2, <2>1, <2>2, <2>3, GivenItem
  <2>5. QED
    BY <2>4
<1>3. QED
  BY <1>1, <1>2 DEF Eligible

LEMMA BlockAdded ==
    ASSUME NEW ask, NEW overdue, NEW n \in 1 .. 4,
           NEW mix, Blocks(ask, overdue, n - 1, mix),
           NEW m, m \in IF SkillOrder[n] \notin ask.unfinished \/ Len(mix) >= MaxItems THEN {mix}
                        ELSE Extended(ask, SkillOrder[n], mix, 1)
    PROVE  Blocks(ask, overdue, n, m)
<1> DEFINE s == SkillOrder[n]
<1>1. /\ Sound(ask, overdue, mix) /\ Len(mix) <= n
      /\ Len(mix) \in Nat /\ Len(mix) < MaxItems
      /\ \A i \in DOMAIN mix : mix[i] \in Given(ask) \cup {Review}
  BY MixTypes DEF Blocks, MaxItems
<1>2. \A k \in 1 .. n - 1 : SkillOrder[k] # s
  BY FourSkills
<1>3. /\ \A i \in DOMAIN mix : mix[i].kind # s
      /\ s \in MixSkills /\ s # Review.kind
  BY <1>1, <1>2, FourSkills DEF Blocks, Review
<1>4. 1 .. n = (1 .. n - 1) \cup {n}
  OBVIOUS
<1>5. Eligible(ask, s, mix) = Eligible(ask, s, <<>>)
  BY <1>1, <1>3, StillEligible
<1> HIDE DEF s
<1>6. CASE m = mix /\ (s \notin ask.unfinished \/ Eligible(ask, s, mix) = {})
  <2>1. \A k \in 1 .. n :
          SkillOrder[k] \in ask.unfinished /\ Eligible(ask, SkillOrder[k], <<>>) # {}
              => k \in 1 .. n - 1
    <3>1. \A k \in 1 .. n : k # n => k \in 1 .. n - 1
      BY <1>4
    <3>2. SkillOrder[n] \notin ask.unfinished \/ Eligible(ask, SkillOrder[n], <<>>) = {}
      BY <1>5, <1>6 DEF s
    <3>3. QED
      BY <3>1, <3>2
  <2>2. \A i \in DOMAIN mix : mix[i] # Review =>
            /\ mix[i].priority = 1 /\ mix[i].kind \in ask.unfinished
            /\ \E k \in 1 .. n : mix[i].kind = SkillOrder[k]
    BY <1>4 DEF Blocks
  <2>3. \A k \in 1 .. n :
          SkillOrder[k] \in ask.unfinished /\ Eligible(ask, SkillOrder[k], <<>>) # {}
              => \E i \in DOMAIN mix : mix[i].kind = SkillOrder[k]
    BY <2>1 DEF Blocks
  <2>4. Len(mix) <= n + 1 /\ \A i, j \in DOMAIN mix : mix[i].kind = mix[j].kind => i = j
    BY <1>1 DEF Blocks
  <2>5. QED
    BY <1>1, <1>6, <2>2, <2>3, <2>4 DEF Blocks
<1>7. ASSUME s \in ask.unfinished, NEW c \in Eligible(ask, s, mix), m = Append(mix, Item(c, 1))
      PROVE  Blocks(ask, overdue, n, m)
  <2>1. /\ Sound(ask, overdue, m)
        /\ Len(m) = Len(mix) + 1 /\ DOMAIN m = DOMAIN mix \cup {Len(m)}
        /\ \A i \in DOMAIN mix : m[i] = mix[i]
        /\ m[Len(m)].kind = s /\ m[Len(m)].priority = 1
    <3>1. 1 \in {1, 2}
      OBVIOUS
    <3>2. Grew(ask, overdue, mix, Append(mix, Item(c, 1)), s, 1)
      BY <1>1, <1>7, <3>1, AppendedSound
    <3>3. QED
      BY <1>7, <3>2 DEF Grew
  <2>2. \A i \in DOMAIN m : m[i] # Review =>
            /\ m[i].priority = 1 /\ m[i].kind \in ask.unfinished
            /\ \E k \in 1 .. n : m[i].kind = SkillOrder[k]
    BY <1>4, <1>7, <2>1 DEF Blocks, s
  <2>3. \A k \in 1 .. n :
          SkillOrder[k] \in ask.unfinished /\ Eligible(ask, SkillOrder[k], <<>>) # {}
              => \E i \in DOMAIN m : m[i].kind = SkillOrder[k]
    <3>1. \E i \in DOMAIN m : m[i].kind = SkillOrder[n]
      BY <2>1 DEF s
    <3>2. \A k \in 1 .. n - 1 :
            SkillOrder[k] \in ask.unfinished /\ Eligible(ask, SkillOrder[k], <<>>) # {}
                => \E i \in DOMAIN m : m[i].kind = SkillOrder[k]
      <4>1. ASSUME NEW k \in 1 .. n - 1, SkillOrder[k] \in ask.unfinished,
                   Eligible(ask, SkillOrder[k], <<>>) # {}
            PROVE  \E i \in DOMAIN m : m[i].kind = SkillOrder[k]
        <5>1. PICK i \in DOMAIN mix : mix[i].kind = SkillOrder[k]
          BY <4>1 DEF Blocks
        <5>2. QED
          BY <2>1, <5>1
      <4>2. QED
        BY <4>1
    <3>3. QED
      BY <1>4, <3>1, <3>2
  <2>4. \A i, j \in DOMAIN m : m[i].kind = m[j].kind => i = j
    BY <1>3, <2>1 DEF Blocks
  <2>5. Len(m) <= n + 1
    BY <1>1, <2>1
  <2>6. QED
    BY <2>1, <2>2, <2>3, <2>4, <2>5 DEF Blocks
<1>8. QED
  <2>1. s \notin ask.unfinished => m = mix
    BY <1>1 DEF s
  <2>2. s \in ask.unfinished => m \in Extended(ask, s, mix, 1)
    <3>1. ~(Len(mix) >= MaxItems)
      BY <1>1 DEF MaxItems
    <3>2. QED
      BY <3>1 DEF s
  <2>3. QED
    BY <1>6, <1>7, <2>1, <2>2, ExtendedBy

LEMMA StartSound ==
    ASSUME NEW ask, NEW overdue
    PROVE  Blocks(ask, overdue, 0, IF overdue THEN <<Review>> ELSE <<>>)
<1> DEFINE X == Given(ask) \cup {Review}
           mix == IF overdue THEN <<Review>> ELSE <<>>
<1>1. Review \in X
  OBVIOUS
<1> HIDE DEF X
<1>2. /\ mix \in Seq(X) /\ Len(mix) <= 1 /\ Len(mix) <= MaxItems
      /\ \A i \in DOMAIN mix : i = 1 /\ mix[i] = Review /\ overdue
      /\ overdue => mix # <<>>
  <2>1. CASE overdue
    BY <1>1, <2>1 DEF MaxItems
  <2>2. CASE ~overdue
    BY <2>2 DEF MaxItems
  <2>3. QED
    BY <2>1, <2>2
<1> HIDE DEF mix
<1>3. Sound(ask, overdue, mix)
  BY <1>2 DEF Sound, X
<1>4. 1 .. 0 = {}
  OBVIOUS
<1>5. Blocks(ask, overdue, 0, mix)
  BY <1>2, <1>3, <1>4 DEF Blocks
<1>6. QED
  BY <1>5 DEF mix

LEMMA BlocksBuilt ==
    ASSUME NEW ask, NEW overdue, NEW mix \in WithBlocks(ask, overdue)
    PROVE  Blocks(ask, overdue, 4, mix)
<1> DEFINE Step(h, n) ==
               IF n = 0 THEN {IF overdue THEN <<Review>> ELSE <<>>}
               ELSE UNION {IF SkillOrder[n] \notin ask.unfinished \/ Len(m) >= MaxItems THEN {m}
                           ELSE Extended(ask, SkillOrder[n], m, 1) : m \in h[n - 1]}
           after == CHOOSE h : h = [n \in 0 .. Len(SkillOrder) |-> Step(h, n)]
           B == {n \in Nat : \E h : h = [k \in 0 .. n |-> Step(h, k)]}
<1>1. WithBlocks(ask, overdue) = after[Len(SkillOrder)]
  BY Zenon DEF WithBlocks
<1>2. 0 \in B
  <2> DEFINE h == [k \in 0 .. 0 |-> {IF overdue THEN <<Review>> ELSE <<>>}]
  <2>1. h = [k \in 0 .. 0 |-> Step(h, k)]
    OBVIOUS
  <2>2. QED
    BY <2>1
<1>3. ASSUME NEW n \in Nat, n \in B PROVE n + 1 \in B
  <2>1. PICK h : h = [k \in 0 .. n |-> Step(h, k)]
    BY <1>3
  <2> DEFINE g == [k \in 0 .. n + 1 |-> Step(h, k)]
  <2>2. \A k \in 0 .. n : g[k] = h[k]
    <3>1. \A k \in 0 .. n : g[k] = Step(h, k)
      <4> HIDE DEF Step
      <4>1. QED
        OBVIOUS
    <3>2. \A k \in 0 .. n : h[k] = Step(h, k)
      <4> HIDE DEF Step
      <4>1. QED
        BY <2>1
    <3> HIDE DEF g, Step
    <3>3. QED
      BY <3>1, <3>2
  <2>3. \A k \in 0 .. n + 1 : Step(h, k) = Step(g, k)
    <3>1. \A k \in 0 .. n + 1 : k # 0 => k - 1 \in 0 .. n
      OBVIOUS
    <3>2. \A k \in 0 .. n + 1 : k # 0 => h[k - 1] = g[k - 1]
      <4> HIDE DEF g, Step
      <4>1. QED
        BY <2>2, <3>1
    <3> HIDE DEF g
    <3>3. QED
      BY <3>2
  <2>4. g = [k \in 0 .. n + 1 |-> Step(g, k)]
    <3>1. g = [k \in 0 .. n + 1 |-> Step(h, k)]
      OBVIOUS
    <3> HIDE DEF g, Step
    <3>2. QED
      BY <2>3, <3>1
  <2> HIDE DEF g, Step
  <2>5. QED
    BY <2>4
<1>4. Nat \subseteq B
  <2> HIDE DEF B
  <2>1. QED
    BY <1>2, <1>3, CountUp
<1>5. after = [n \in 0 .. 4 |-> Step(after, n)]
  <2>1. Len(SkillOrder) \in B /\ Len(SkillOrder) = 4
    BY <1>4, FourSkills
  <2> HIDE DEF Step
  <2>2. QED
    BY <2>1
<1> HIDE DEF after
<1>6. after[0] = {IF overdue THEN <<Review>> ELSE <<>>}
  BY <1>5
<1>7. ASSUME NEW n \in 1 .. 4, \A m \in after[n - 1] : Blocks(ask, overdue, n - 1, m)
      PROVE  \A m \in after[n] : Blocks(ask, overdue, n, m)
  <2>1. after[n] = Step(after, n)
    <3> HIDE DEF Step
    <3>1. QED
      BY <1>5
  <2>2. n # 0
    OBVIOUS
  <2>3. ASSUME NEW m \in after[n] PROVE Blocks(ask, overdue, n, m)
    <3>1. PICK k \in after[n - 1] :
              m \in IF SkillOrder[n] \notin ask.unfinished \/ Len(k) >= MaxItems THEN {k}
                    ELSE Extended(ask, SkillOrder[n], k, 1)
      BY Zenon, <2>1, <2>2, <2>3
    <3>2. Blocks(ask, overdue, n - 1, k)
      BY <1>7, <3>1
    <3>3. QED
      BY <3>1, <3>2, BlockAdded
  <2>4. QED
    BY <2>3
<1> HIDE DEF Step
<1>8. \A m \in after[0] : Blocks(ask, overdue, 0, m)
  BY <1>6, StartSound
<1>9. \A m \in after[1] : Blocks(ask, overdue, 1, m)
  BY <1>7, <1>8
<1>10. \A m \in after[2] : Blocks(ask, overdue, 2, m)
  BY <1>7, <1>9
<1>11. \A m \in after[3] : Blocks(ask, overdue, 3, m)
  BY <1>7, <1>10
<1>12. \A m \in after[4] : Blocks(ask, overdue, 4, m)
  BY <1>7, <1>11
<1>13. QED
  BY <1>1, <1>12, FourSkills

\* What the sort relies on: every block that could be filled is in the mix, once.
Kept(ask, overdue, mix) ==
    /\ Sound(ask, overdue, mix)
    /\ \A i, j \in DOMAIN mix :
          mix[i].priority = 1 /\ mix[j].priority = 1 /\ mix[i].kind = mix[j].kind => i = j
    /\ \A i \in DOMAIN mix : mix[i].priority = 1 => mix[i].kind \in ask.unfinished
    /\ \A s \in ask.unfinished :
          Eligible(ask, s, <<>>) # {} =>
             \E i \in DOMAIN mix : mix[i].kind = s /\ mix[i].priority = 1

\* What was drawn follows the blocks.
Planned(ask, overdue, mix) ==
    /\ Kept(ask, overdue, mix)
    /\ \A i, j \in DOMAIN mix : i < j /\ mix[i].priority = 2 => mix[j].priority = 2

\* A mix that is all speaking has drawn some of it.
Mixed(mix) ==
    \E i \in DOMAIN mix :
        mix[i].priority = 2 \/ (mix[i] # Review /\ mix[i].kind # "speaking")

LEMMA BlocksPlanned ==
    ASSUME NEW ask \in Ask, NEW overdue, NEW mix, Blocks(ask, overdue, 4, mix)
    PROVE  Planned(ask, overdue, mix)
<1>1. \A i \in DOMAIN mix :
         mix[i].priority \in {0, 1, 2} /\ (mix[i] = Review <=> mix[i].priority = 0)
  BY MixItems DEF Blocks
<1>2. \A i \in DOMAIN mix : mix[i].priority = 1 <=> mix[i] # Review
  BY <1>1 DEF Blocks
<1>3. \A i \in DOMAIN mix : mix[i].priority # 2
  BY <1>1 DEF Blocks
<1>4. ASSUME NEW s \in ask.unfinished, Eligible(ask, s, <<>>) # {}
      PROVE  \E i \in DOMAIN mix : mix[i].kind = s /\ mix[i].priority = 1
  <2>1. s \in MixSkills /\ \E k \in 1 .. 4 : s = SkillOrder[k]
    BY FourSkills DEF Ask
  <2>2. PICK i \in DOMAIN mix : mix[i].kind = s
    BY <1>4, <2>1 DEF Blocks
  <2>3. mix[i] # Review
    BY <2>1, <2>2, FourSkills DEF Review
  <2>4. QED
    BY <1>2, <2>2, <2>3
<1>5. QED
  BY <1>2, <1>3, <1>4 DEF Blocks, Planned, Kept

LEMMA DrawAdds ==
    ASSUME NEW ask \in Ask, NEW overdue, NEW mix, Planned(ask, overdue, mix),
           Len(mix) < MaxItems, NEW s \in MixSkills, NEW m \in Extended(ask, s, mix, 2)
    PROVE  /\ Planned(ask, overdue, m) /\ Len(m) <= Len(mix) + 1
           /\ Mixed(mix) => Mixed(m)
           /\ m # mix => Mixed(m)
<1>1. Sound(ask, overdue, mix) /\ Len(mix) \in Nat /\ DOMAIN mix = 1 .. Len(mix)
  BY MixTypes DEF Planned, Kept
<1>2. CASE m = mix
  BY <1>1, <1>2
<1>3. ASSUME NEW c \in Eligible(ask, s, mix), m = Append(mix, Item(c, 2))
      PROVE  Planned(ask, overdue, m) /\ Len(m) <= Len(mix) + 1 /\ Mixed(m)
  <2>1. 2 \in {1, 2}
    OBVIOUS
  <2>2. Grew(ask, overdue, mix, Append(mix, Item(c, 2)), s, 2)
    BY <1>1, <2>1, AppendedSound
  <2> DEFINE k == Len(m)
  <2>3. /\ Sound(ask, overdue, m)
        /\ k = Len(mix) + 1 /\ DOMAIN m = DOMAIN mix \cup {k} /\ k \notin DOMAIN mix
        /\ \A i \in DOMAIN mix : m[i] = mix[i]
        /\ m[k].kind = s /\ m[k].priority = 2
    BY <1>3, <2>2 DEF Grew
  <2> HIDE DEF k
  <2>4. \A i \in DOMAIN m : m[i].priority = 1 => i \in DOMAIN mix
    BY <2>3
  <2>5. ASSUME NEW u \in ask.unfinished, Eligible(ask, u, <<>>) # {}
        PROVE  \E i \in DOMAIN m : m[i].kind = u /\ m[i].priority = 1
    <3>1. PICK i \in DOMAIN mix : mix[i].kind = u /\ mix[i].priority = 1
      BY <2>5 DEF Planned, Kept
    <3>2. QED
      BY <2>3, <3>1
  <2>6. Kept(ask, overdue, m)
    BY <2>3, <2>4, <2>5 DEF Planned, Kept
  <2>7. \A i, j \in DOMAIN m : i < j /\ m[i].priority = 2 => m[j].priority = 2
    <3>1. \A j \in DOMAIN m : j = k \/ j \in DOMAIN mix
      BY <2>3
    <3>2. \A j \in DOMAIN mix : ~(k < j)
      BY <1>1, <2>3
    <3>3. QED
      BY <2>3, <3>1, <3>2 DEF Planned
  <2>8. Mixed(m)
    BY <2>3 DEF Mixed
  <2>9. QED
    BY <1>1, <2>3, <2>6, <2>7, <2>8 DEF Planned, k
<1>4. QED
  BY <1>2, <1>3, ExtendedBy

\* Whatever is drawn first, something is found for it or the mix has variety.
LEMMA FirstDraw ==
    ASSUME NEW ask \in Ask, NEW overdue, NEW mix, Blocks(ask, overdue, 4, mix),
           Len(mix) < MaxItems, NEW s \in MixSkills, NEW m \in Extended(ask, s, mix, 2)
    PROVE  Mixed(m)
<1>1. Sound(ask, overdue, mix) /\ Planned(ask, overdue, mix)
  BY BlocksPlanned DEF Blocks
<1>2. SUFFICES ASSUME m = mix, ~Mixed(mix) PROVE FALSE
  BY <1>1, DrawAdds
<1>3. Eligible(ask, s, mix) = {}
  <2>1. ASSUME NEW c \in Eligible(ask, s, mix), mix = Append(mix, Item(c, 2)) PROVE FALSE
    <3>1. 2 \in {1, 2}
      OBVIOUS
    <3>2. Grew(ask, overdue, mix, Append(mix, Item(c, 2)), s, 2)
      BY <1>1, <3>1, AppendedSound
    <3>3. Len(mix) \in Nat /\ Len(mix) = Len(mix) + 1
      BY <1>1, <2>1, <3>2, MixTypes DEF Grew
    <3>4. QED
      BY <3>3
  <2>2. QED
    BY <1>2, <2>1, ExtendedBy
<1>4. \A i \in DOMAIN mix : mix[i].kind \in {"speaking", "vocab_review"}
  BY <1>1, <1>2, MixItems DEF Mixed
<1>5. \A c \in Free(s) : c \in DOMAIN Candidates /\ c \in Ids(mix)
  BY <1>3 DEF Eligible, Free
<1>6. CASE s # "speaking"
  <2>1. \A i \in DOMAIN mix : mix[i].kind # s
    BY <1>4, <1>6, FourSkills
  <2>2. Eligible(ask, s, <<>>) = {}
    BY <1>1, <1>3, <2>1, StillEligible
  <2>3. Free(s) \subseteq Eligible(ask, s, <<>>)
    BY DEF Free, Eligible, Ids
  <2>4. QED
    BY <2>2, <2>3, CatalogueAssumption
<1>7. CASE s = "speaking"
  <2>1. PICK c \in Free(s) : TRUE
    BY CatalogueAssumption
  <2>2. PICK d \in Free(s) : d # c
    BY <1>7, <2>1, CatalogueAssumption
  <2>3. PICK i, j \in DOMAIN mix : mix[i].id = c /\ mix[j].id = d
    BY <1>5, <2>1, <2>2 DEF Ids
  <2>4. mix[i].kind = s /\ mix[j].kind = s
    <3>1. c # None /\ d # None /\ Candidates[c].skill = s /\ Candidates[d].skill = s
      BY CandidateTypes DEF Free
    <3>2. QED
      BY <1>1, <2>3, <3>1, MixItems
  <2>5. i = j
    BY <2>4 DEF Blocks
  <2>6. QED
    BY <2>2, <2>3, <2>5
<1>8. QED
  BY <1>6, <1>7

LEMMA FullIsMixed ==
    ASSUME NEW ask \in Ask, NEW overdue, NEW mix, Blocks(ask, overdue, 4, mix),
           Len(mix) = MaxItems
    PROVE  Mixed(mix)
<1>1. Sound(ask, overdue, mix) /\ 4 \in DOMAIN mix /\ 5 \in DOMAIN mix
  BY MixTypes DEF Blocks, MaxItems
<1>2. mix[4] # Review /\ mix[5] # Review
  BY <1>1 DEF Sound
<1>3. mix[4].kind # mix[5].kind
  BY <1>1 DEF Blocks
<1>4. QED
  BY <1>1, <1>2, <1>3 DEF Mixed

LEMMA FilledBuilt ==
    ASSUME NEW ask \in Ask, NEW overdue, NEW mix, Blocks(ask, overdue, 4, mix),
           NEW filled \in Filled(ask, mix)
    PROVE  Planned(ask, overdue, filled) /\ Mixed(filled)
<1> DEFINE Step(h, n) ==
               IF n = 0 THEN {mix}
               ELSE UNION {Drawn(ask, m) : m \in h[n - 1]}
           drawn == CHOOSE h : h = [n \in 0 .. MaxItems |-> Step(h, n)]
           B == {n \in Nat : \E h : h = [k \in 0 .. n |-> Step(h, k)]}
<1>1. Filled(ask, mix) = drawn[MaxItems - Len(mix)]
  BY Zenon DEF Filled
<1>2. 0 \in B
  <2> DEFINE h == [k \in 0 .. 0 |-> {mix}]
  <2>1. h = [k \in 0 .. 0 |-> Step(h, k)]
    OBVIOUS
  <2>2. QED
    BY <2>1
<1>3. ASSUME NEW n \in Nat, n \in B PROVE n + 1 \in B
  <2>1. PICK h : h = [k \in 0 .. n |-> Step(h, k)]
    BY <1>3
  <2> DEFINE g == [k \in 0 .. n + 1 |-> Step(h, k)]
  <2>2. \A k \in 0 .. n : g[k] = h[k]
    <3>1. \A k \in 0 .. n : g[k] = Step(h, k)
      <4> HIDE DEF Step
      <4>1. QED
        OBVIOUS
    <3>2. \A k \in 0 .. n : h[k] = Step(h, k)
      <4> HIDE DEF Step
      <4>1. QED
        BY <2>1
    <3> HIDE DEF g, Step
    <3>3. QED
      BY <3>1, <3>2
  <2>3. \A k \in 0 .. n + 1 : Step(h, k) = Step(g, k)
    <3>1. \A k \in 0 .. n + 1 : k # 0 => k - 1 \in 0 .. n
      OBVIOUS
    <3>2. \A k \in 0 .. n + 1 : k # 0 => h[k - 1] = g[k - 1]
      <4> HIDE DEF g, Step
      <4>1. QED
        BY <2>2, <3>1
    <3> HIDE DEF g
    <3>3. QED
      BY <3>2
  <2>4. g = [k \in 0 .. n + 1 |-> Step(g, k)]
    <3>1. g = [k \in 0 .. n + 1 |-> Step(h, k)]
      OBVIOUS
    <3> HIDE DEF g, Step
    <3>2. QED
      BY <2>3, <3>1
  <2> HIDE DEF g, Step
  <2>5. QED
    BY <2>4
<1>4. Nat \subseteq B
  <2> HIDE DEF B
  <2>1. QED
    BY <1>2, <1>3, CountUp
<1>5. drawn = [n \in 0 .. MaxItems |-> Step(drawn, n)]
  <2>1. MaxItems \in B
    BY <1>4 DEF MaxItems
  <2> HIDE DEF Step
  <2>2. QED
    BY <2>1
<1> HIDE DEF drawn
<1> DEFINE Done(n, m) == /\ Planned(ask, overdue, m) /\ Len(m) <= Len(mix) + n
                         /\ IF n = 0 THEN m = mix ELSE Mixed(m)
<1>6. Len(mix) \in 0 .. 5 /\ MaxItems = 5
  BY MixTypes DEF Blocks, MaxItems
<1>7. \A m \in drawn[0] : Done(0, m)
  <2>1. drawn[0] = {mix}
    BY <1>5, <1>6
  <2>2. QED
    BY <1>6, <2>1, BlocksPlanned
<1>8. ASSUME NEW n \in 1 .. 5, n <= MaxItems - Len(mix), \A m \in drawn[n - 1] : Done(n - 1, m)
      PROVE  \A m \in drawn[n] : Done(n, m)
  <2>1. drawn[n] = Step(drawn, n) /\ n # 0
    <3> HIDE DEF Step
    <3>1. QED
      BY <1>5, <1>6
  <2>2. ASSUME NEW m \in drawn[n] PROVE Done(n, m)
    <3>0. PICK k \in drawn[n - 1] : m \in Drawn(ask, k)
      BY Zenon, <2>1, <2>2
    <3>1. PICK s \in MixSkills : m \in Extended(ask, s, k, 2)
      BY <3>0 DEF Drawn
    <3>2. Done(n - 1, k)
      BY <1>8, <3>0
    <3>3. /\ Planned(ask, overdue, k) /\ Len(k) <= Len(mix) + (n - 1)
          /\ IF n - 1 = 0 THEN k = mix ELSE Mixed(k)
      BY <3>2
    <3>4. Len(k) \in Nat /\ Len(k) < MaxItems
      <4>1. Len(k) \in Nat
        BY <3>3, MixTypes DEF Planned, Kept
      <4>2. QED
        BY <1>6, <1>8, <3>3, <4>1
    <3>5. /\ Planned(ask, overdue, m) /\ Len(m) <= Len(k) + 1
          /\ Mixed(k) => Mixed(m)
      BY <3>1, <3>3, <3>4, DrawAdds
    <3>6. Mixed(m)
      <4>1. CASE n - 1 = 0
        <5>1. k = mix
          BY <3>3, <4>1
        <5>2. QED
          BY <3>1, <3>4, <5>1, FirstDraw
      <4>2. CASE n - 1 # 0
        BY <3>3, <3>5, <4>2
      <4>3. QED
        BY <4>1, <4>2
    <3>7. Len(m) <= Len(mix) + n
      <4>1. Len(m) \in Nat
        BY <3>5, MixTypes DEF Planned, Kept
      <4>2. QED
        BY <1>6, <3>3, <3>4, <3>5, <4>1
    <3>8. QED
      BY <2>1, <3>5, <3>6, <3>7
  <2>3. QED
    BY <2>2
<1> HIDE DEF Step, Done
<1>9. \A n \in 0 .. 5 : n <= MaxItems - Len(mix) => \A m \in drawn[n] : Done(n, m)
  <2> DEFINE C == {n \in Nat : n <= MaxItems - Len(mix) => \A m \in drawn[n] : Done(n, m)}
  <2>1. 0 \in C
    BY <1>7
  <2>2. ASSUME NEW n \in Nat, n \in C PROVE n + 1 \in C
    <3>1. CASE n + 1 <= MaxItems - Len(mix)
      <4>1. n + 1 \in 1 .. 5 /\ (n + 1) - 1 = n /\ n <= MaxItems - Len(mix)
        BY <1>6, <3>1
      <4>2. \A m \in drawn[n] : Done(n, m)
        BY <2>2, <4>1
      <4>3. \A m \in drawn[n + 1] : Done(n + 1, m)
        BY <1>8, <3>1, <4>1, <4>2
      <4>4. QED
        BY <4>3
    <3>2. QED
      BY <3>1
  <2>3. Nat \subseteq C
    <3> HIDE DEF C
    <3>1. QED
      BY <2>1, <2>2, CountUp
  <2>4. QED
    BY <2>3
<1> DEFINE n == MaxItems - Len(mix)
<1>10. n \in 0 .. 5 /\ n <= MaxItems - Len(mix)
  <2>1. \A k \in 0 .. 5 : 5 - k \in 0 .. 5 /\ 5 - k <= 5 - k
    OBVIOUS
  <2>2. QED
    BY <1>6, <2>1
<1>11. Done(n, filled)
  <2>1. filled \in drawn[n]
    BY <1>1
  <2>2. QED
    BY <1>9, <1>10, <2>1
<1>12. CASE n = 0
  <2>1. Planned(ask, overdue, filled) /\ filled = mix
    BY <1>11, <1>12 DEF Done
  <2>2. QED
    BY <1>6, <1>12, <2>1, FullIsMixed
<1>13. CASE n # 0
  BY <1>11, <1>13 DEF Done
<1>14. QED
  BY <1>12, <1>13

(***************************************************************************)
(* The replacement, the sort and the trim.                                 *)
(***************************************************************************)

LEMMA VariedKept ==
    ASSUME NEW ask \in Ask, NEW overdue, NEW mix, Planned(ask, overdue, mix), Mixed(mix),
           NEW m \in Varied(ask, mix)
    PROVE  Kept(ask, overdue, m)
<1> DEFINE other == IF ContentFor(ask, "listening", mix) # {}
                    THEN ContentFor(ask, "listening", mix) ELSE ContentFor(ask, "reading", mix)
           last == CHOOSE i \in DOMAIN mix :
                       mix[i].kind = "speaking" /\
                       \A j \in DOMAIN mix : mix[j].kind = "speaking" => j <= i
<1>1. \/ m = mix
      \/ /\ Kinds(mix) \ {"vocab_review"} = {"speaking"}
         /\ \E c \in other : m = [mix EXCEPT ![last] = Item(c, 2)]
  BY Zenon DEF Varied
<1>2. Kept(ask, overdue, mix) /\ Sound(ask, overdue, mix)
  BY DEF Planned, Kept
<1>3. Len(mix) \in 0 .. 5 /\ DOMAIN mix = 1 .. Len(mix)
  BY <1>2, MixTypes
<1>4. CASE m = mix
  BY <1>2, <1>4
<1>5. ASSUME Kinds(mix) \ {"vocab_review"} = {"speaking"}, NEW c \in other,
             m = [mix EXCEPT ![last] = Item(c, 2)]
      PROVE  Kept(ask, overdue, m)
  <2>1. \A i \in DOMAIN mix : mix[i] # Review => mix[i].kind = "speaking"
    <3>1. \A i \in DOMAIN mix : mix[i] # Review => mix[i].kind # "vocab_review"
      BY <1>2, MixItems
    <3>2. QED
      BY <1>5, <3>1 DEF Kinds
  <2>2. PICK i \in DOMAIN mix : mix[i].priority = 2
    BY <2>1 DEF Mixed
  <2>3. Len(mix) \in DOMAIN mix /\ mix[Len(mix)].priority = 2
    <3>1. Len(mix) \in DOMAIN mix /\ (i = Len(mix) \/ i < Len(mix))
      BY <1>3
    <3>2. QED
      BY <2>2, <3>1 DEF Planned
  <2>4. mix[Len(mix)] # Review
    BY <1>2, <2>3, MixItems
  <2>5. mix[Len(mix)].kind = "speaking" /\ \A j \in DOMAIN mix : j <= Len(mix)
    BY <1>3, <2>1, <2>3, <2>4
  <2>6. last \in DOMAIN mix /\ Len(mix) <= last
    BY <2>3, <2>5
  <2>7. last = Len(mix)
    BY <1>3, <2>6
  <2> HIDE DEF last
  <2> DEFINE k == Len(mix)
             x == Item(c, 2)
             X == Given(ask) \cup {Review}
  <2>8. c \in DOMAIN Candidates /\ c \in Permitted(ask) /\ c \notin Ids(mix)
    BY <1>5, ContentFound DEF Eligible, Permitted
  <2>9. x \in X /\ x # Review /\ x.id = c /\ x.priority = 2
    <3>1. x \in Given(ask)
      BY <2>8 DEF Given
    <3>2. x.id = c /\ x.priority = 2 /\ Review.priority = 0
      BY DEF Item, Review
    <3>3. QED
      BY <3>1, <3>2
  <2>10. /\ mix \in Seq(X) /\ k \in 1 .. Len(mix)
         /\ m = [mix EXCEPT ![k] = x]
    BY <1>2, <1>3, <1>5, <2>3, <2>7 DEF Sound
  <2> HIDE DEF x, X
  <2>11. /\ m \in Seq(X) /\ Len(m) = Len(mix) /\ DOMAIN m = DOMAIN mix
         /\ \A j \in DOMAIN mix : m[j] = IF j = k THEN x ELSE mix[j]
    <3>1. /\ m \in Seq(X) /\ Len(m) = Len(mix)
          /\ \A j \in 1 .. Len(mix) : m[j] = IF j = k THEN x ELSE mix[j]
      BY <2>9, <2>10, ExceptSeq
    <3>2. QED
      BY <1>3, <2>10, <3>1
  <2>12. m # <<>>
    BY <2>3, <2>11
  <2> HIDE DEF k
  <2>13. \A j \in DOMAIN mix : mix[j].id # c
    BY <2>8 DEF Ids
  <2>14. \A a, b \in DOMAIN m : m[a].id = m[b].id => a = b
    BY <1>2, <2>9, <2>11, <2>13 DEF Sound
  <2>15. \A j \in DOMAIN m : m[j] = Review <=> (j = 1 /\ overdue)
    <3>1. mix[k] # Review /\ k \in DOMAIN mix
      BY <2>3, <2>4 DEF k
    <3>2. QED
      BY <1>2, <2>9, <2>11, <3>1 DEF Sound
  <2>16. Sound(ask, overdue, m)
    BY <1>2, <2>11, <2>12, <2>14, <2>15 DEF Sound, X
  <2>17. \A j \in DOMAIN m : m[j].priority = 1 <=> mix[j].priority = 1
    BY <2>3, <2>9, <2>11 DEF k
  <2>18. \A j \in DOMAIN m : m[j].priority = 1 => m[j] = mix[j]
    BY <2>9, <2>11
  <2>19. ASSUME NEW s \in ask.unfinished, Eligible(ask, s, <<>>) # {}
         PROVE  \E j \in DOMAIN m : m[j].kind = s /\ m[j].priority = 1
    <3>1. PICK j \in DOMAIN mix : mix[j].kind = s /\ mix[j].priority = 1
      BY <1>2, <2>19 DEF Kept
    <3>2. QED
      BY <2>11, <2>17, <2>18, <3>1
  <2>20. QED
    BY <1>2, <2>11, <2>16, <2>17, <2>18, <2>19 DEF Kept
<1>6. QED
  BY <1>1, <1>4, <1>5

\* The sort's order
SortKey(ask, mix, i) ==
    IF mix[i].kind = "vocab_review" THEN 0 ELSE Weight(ask, mix[i].kind)

SortsBefore(ask, mix, i, j) ==
    \/ mix[i].priority < mix[j].priority
    \/ mix[i].priority = mix[j].priority /\ SortKey(ask, mix, i) > SortKey(ask, mix, j)
    \/ mix[i].priority = mix[j].priority /\ SortKey(ask, mix, i) = SortKey(ask, mix, j) /\ i < j

Sorting(ask, mix) ==
    {p \in (DOMAIN mix) \X (DOMAIN mix) : SortsBefore(ask, mix, p[1], p[2])}

\* The place that an item is sorted to
Place(ask, mix, i) == Cardinality({j \in DOMAIN mix : SortsBefore(ask, mix, j, i)}) + 1

LEMMA WeightIs ==
    ASSUME NEW ask \in Ask, NEW s \in MixSkills
    PROVE  /\ Weight(ask, s) \in Nat
           /\ Gap(ask) >= 2 /\ s \in WeakestSkills(ask) => Weight(ask, s) >= 40
           /\ s \notin WeakestSkills(ask) /\ s # "speaking" => Weight(ask, s) < 40
<1> DEFINE goal == Modifiers(ask.goal)
           extra == IF s \in DOMAIN goal THEN goal[s] ELSE 0
<1>1. extra \in 0 .. 10 /\ (s # "speaking" => extra <= 8)
  <2>1. CASE ask.goal \in {"pr_readiness", "workplace", "casual", "academic", "social"}
    BY <2>1, FourSkills DEF Modifiers, GoalModifiers
  <2>2. CASE ask.goal \notin DOMAIN GoalModifiers
    BY <2>2 DEF Modifiers
  <2>3. QED
    BY <2>1, <2>2 DEF GoalModifiers
<1> HIDE DEF extra
<1>2. Weight(ask, s) = 25 + (IF s \in WeakestSkills(ask) THEN LagBoost(ask) ELSE 0)
                          + extra + (IF s = ask.error THEN 5 ELSE 0)
  BY DEF Weight, extra
<1>3. LagBoost(ask) \in {0, 8, 15} /\ (Gap(ask) >= 2 => LagBoost(ask) = 15)
  BY DEF LagBoost
<1>4. QED
  BY <1>1, <1>2, <1>3

LEMMA SortingOrders ==
    ASSUME NEW ask \in Ask, NEW overdue, NEW mix, Sound(ask, overdue, mix)
    PROVE  /\ Ordered(Sorting(ask, mix), DOMAIN mix) /\ IsFiniteSet(DOMAIN mix)
           /\ \A i \in DOMAIN mix :
                Place(ask, mix, i) = RankIn(Sorting(ask, mix), DOMAIN mix, i) + 1
<1>1. DOMAIN mix = 1 .. Len(mix) /\ Len(mix) \in Nat
  BY MixTypes
<1>2. \A i \in DOMAIN mix : i \in Nat /\ mix[i].priority \in Nat /\ SortKey(ask, mix, i) \in Nat
  <2>1. ASSUME NEW i \in DOMAIN mix PROVE SortKey(ask, mix, i) \in Nat
    <3>1. mix[i].kind \in MixSkills \/ mix[i].kind = "vocab_review"
      BY MixItems
    <3>2. QED
      BY <3>1, WeightIs DEF SortKey
  <2>2. \A i \in DOMAIN mix : mix[i].priority \in Nat
    BY MixItems
  <2>3. QED
    BY <1>1, <2>1, <2>2
<1>3. IsFiniteSet(DOMAIN mix)
  BY <1>1, FS_Interval
<1>4. \A i, j \in DOMAIN mix : <<i, j>> \in Sorting(ask, mix) <=> SortsBefore(ask, mix, i, j)
  <2>1. ASSUME NEW i \in DOMAIN mix, NEW j \in DOMAIN mix
        PROVE  <<i, j>> \in Sorting(ask, mix) <=> SortsBefore(ask, mix, i, j)
    <3> DEFINE p == <<i, j>>
    <3>1. p \in (DOMAIN mix) \X (DOMAIN mix) /\ p[1] = i /\ p[2] = j
      BY PairIn
    <3> HIDE DEF p
    <3>2. p \in Sorting(ask, mix) <=> SortsBefore(ask, mix, i, j)
      BY <3>1 DEF Sorting
    <3>3. QED
      BY <3>2 DEF p
  <2>2. QED
    BY <2>1
<1>5. \A i \in DOMAIN mix : ~SortsBefore(ask, mix, i, i)
  BY <1>2 DEF SortsBefore
<1>6. \A i, j \in DOMAIN mix :
         i # j => SortsBefore(ask, mix, i, j) \/ SortsBefore(ask, mix, j, i)
  BY <1>2 DEF SortsBefore
<1>7. \A i, j, k \in DOMAIN mix :
         SortsBefore(ask, mix, i, j) /\ SortsBefore(ask, mix, j, k)
             => SortsBefore(ask, mix, i, k)
  BY <1>2 DEF SortsBefore
<1>8. Ordered(Sorting(ask, mix), DOMAIN mix)
  BY <1>4, <1>5, <1>6, <1>7 DEF Ordered
<1>9. ASSUME NEW i \in DOMAIN mix
      PROVE  Place(ask, mix, i) = RankIn(Sorting(ask, mix), DOMAIN mix, i) + 1
  <2>1. {j \in DOMAIN mix : SortsBefore(ask, mix, j, i)}
          = {j \in DOMAIN mix : <<j, i>> \in Sorting(ask, mix)}
    BY <1>4
  <2>2. QED
    BY <2>1 DEF Place, RankIn
<1>10. QED
  BY <1>3, <1>8, <1>9

LEMMA SortedMix ==
    ASSUME NEW ask \in Ask, NEW overdue, NEW mix, Sound(ask, overdue, mix),
           NEW sorted, sorted = Sorted(ask, mix)
    PROVE  /\ \A i \in DOMAIN mix : Place(ask, mix, i) \in DOMAIN mix
                                    /\ sorted[Place(ask, mix, i)] = mix[i]
           /\ \A i, j \in DOMAIN mix : Place(ask, mix, i) = Place(ask, mix, j) => i = j
           /\ \A n \in DOMAIN mix : \E i \in DOMAIN mix : Place(ask, mix, i) = n
           /\ sorted \in Seq(Given(ask) \cup {Review}) /\ Len(sorted) = Len(mix)
           /\ DOMAIN sorted = DOMAIN mix
<1> DEFINE S == DOMAIN mix
           At(n) == CHOOSE i \in S :
                        Cardinality({j \in S : SortsBefore(ask, mix, j, i)}) = n - 1
           X == Given(ask) \cup {Review}
<1>1. sorted = [n \in S |-> mix[At(n)]]
  BY DEF Sorted, SortsBefore, SortKey
<1>2. S = 1 .. Len(mix) /\ Len(mix) \in Nat /\ Cardinality(S) = Len(mix)
  BY MixTypes, FS_Interval
<1>3. \A i \in S : mix[i] \in X
  BY MixTypes
<1>4. /\ \A i \in S : Place(ask, mix, i) \in S
      /\ \A i, j \in S : Place(ask, mix, i) = Place(ask, mix, j) => i = j
      /\ \A n \in S : \E i \in S : Place(ask, mix, i) = n
  <2> DEFINE R == Sorting(ask, mix)
  <2>1. /\ Ordered(R, S) /\ IsFiniteSet(S)
        /\ \A i \in S : Place(ask, mix, i) = RankIn(R, S, i) + 1
    BY SortingOrders
  <2> HIDE DEF R
  <2>2. /\ \A x \in S : RankIn(R, S, x) \in Nat /\ RankIn(R, S, x) < Cardinality(S)
        /\ \A x, y \in S : RankIn(R, S, x) = RankIn(R, S, y) => x = y
        /\ \A n \in Nat : n < Cardinality(S) => \E x \in S : RankIn(R, S, x) = n
    BY <2>1, RanksCount
  <2> HIDE DEF S
  <2>3. \A i \in S : Place(ask, mix, i) \in S
    BY <1>2, <2>1, <2>2
  <2>4. \A i, j \in S : Place(ask, mix, i) = Place(ask, mix, j) => i = j
    BY <2>1, <2>2
  <2>5. \A n \in S : \E i \in S : Place(ask, mix, i) = n
    <3>1. ASSUME NEW n \in S PROVE \E i \in S : Place(ask, mix, i) = n
      <4>1. n - 1 \in Nat /\ n - 1 < Cardinality(S) /\ (n - 1) + 1 = n
        BY <1>2
      <4>2. PICK i \in S : RankIn(R, S, i) = n - 1
        BY <2>2, <4>1
      <4>3. QED
        BY <2>1, <4>1, <4>2
    <3>2. QED
      BY <3>1
  <2>6. QED
    BY <2>3, <2>4, <2>5
<1>5. ASSUME NEW i \in S PROVE At(Place(ask, mix, i)) = i
  <2> DEFINE n == Place(ask, mix, i)
  <2>1. n \in Nat
    BY <1>2, <1>4
  <2>2. \A j \in S : Place(ask, mix, j) \in Nat
    BY <1>2, <1>4
  <2>3. \A j \in S : /\ Cardinality({k \in S : SortsBefore(ask, mix, k, j)}) = n - 1
                        => Place(ask, mix, j) = n
    BY <2>1 DEF Place
  <2>4. Cardinality({k \in S : SortsBefore(ask, mix, k, i)}) = n - 1
    <3>1. Cardinality({k \in S : SortsBefore(ask, mix, k, i)}) \in Nat
      <4>1. IsFiniteSet(S)
        BY <1>2, FS_Interval
      <4>2. QED
        BY <4>1, FS_Subset, FS_CardinalityType
    <3>2. QED
      BY <3>1 DEF Place
  <2> HIDE DEF n
  <2>5. At(n) \in S /\ Cardinality({k \in S : SortsBefore(ask, mix, k, At(n))}) = n - 1
    BY <2>4
  <2>6. Place(ask, mix, At(n)) = n
    BY <2>3, <2>5
  <2>7. QED
    BY <1>4, <2>5, <2>6 DEF n
<1> HIDE DEF At
<1>6. \A n \in S : At(n) \in S
  BY <1>4, <1>5
<1>7. DOMAIN sorted = S /\ \A n \in S : sorted[n] \in X
  BY <1>1, <1>3, <1>6
<1>8. sorted \in Seq(X) /\ Len(sorted) = Len(mix)
  <2>1. sorted \in [1 .. Len(mix) -> X]
    BY <1>1, <1>2, <1>7
  <2> HIDE DEF X
  <2>2. QED
    BY <1>2, <2>1
<1>9. \A i \in S : sorted[Place(ask, mix, i)] = mix[i]
  BY <1>1, <1>4, <1>5
<1>10. QED
  BY <1>4, <1>7, <1>8, <1>9

LEMMA ReviewLeads ==
    ASSUME NEW ask \in Ask, NEW overdue, NEW mix, Sound(ask, overdue, mix)
    PROVE  overdue => 1 \in DOMAIN mix /\ mix[1] = Review /\ Place(ask, mix, 1) = 1
<1>1. \A j \in DOMAIN mix :
         mix[j].priority \in {0, 1, 2} /\ (mix[j] = Review <=> mix[j].priority = 0)
  BY MixItems
<1>2. mix # <<>> => 1 \in DOMAIN mix
  <2> DEFINE X == Given(ask) \cup {Review}
  <2> HIDE DEF X
  <2>1. mix \in Seq(X)
    BY DEF Sound, X
  <2>2. QED
    BY <2>1
<1>3. SUFFICES ASSUME mix[1] = Review, 1 \in DOMAIN mix,
                      \A j \in DOMAIN mix : mix[j] = Review => j = 1
               PROVE  Place(ask, mix, 1) = 1
  BY <1>2 DEF Sound
<1>4. mix[1].priority = 0
  BY <1>3 DEF Review
<1>5. ASSUME NEW j \in DOMAIN mix, SortsBefore(ask, mix, j, 1) PROVE FALSE
  <2>1. mix[j].priority = 0 /\ j = 1
    BY <1>1, <1>3, <1>4, <1>5 DEF SortsBefore
  <2>2. SortKey(ask, mix, 1) = 0
    BY <1>3 DEF SortKey, Review
  <2>3. QED
    BY <1>4, <1>5, <2>1, <2>2 DEF SortsBefore
<1>6. {j \in DOMAIN mix : SortsBefore(ask, mix, j, 1)} = {}
  BY <1>5
<1>7. QED
  BY <1>6, FS_EmptySet DEF Place

\* The blocks of the weakest skills that could be filled
Lagging(ask) ==
    {s \in WeakestSkills(ask) \cap ask.unfinished : Eligible(ask, s, <<>>) # {}}

\* One of them comes third at the latest: the review may come before it, and
\* the speaking block, whose weight goal and errors may raise as much.
LEMMA WeakestEarly ==
    ASSUME NEW ask \in Ask, NEW overdue, NEW mix, Kept(ask, overdue, mix),
           Gap(ask) >= 2, Lagging(ask) # {}
    PROVE  \E i \in DOMAIN mix : mix[i].kind \in Lagging(ask) /\ Place(ask, mix, i) <= 3
<1>1. Sound(ask, overdue, mix)
  BY DEF Kept
<1> DEFINE W == {i \in DOMAIN mix : mix[i].kind \in Lagging(ask) /\ mix[i].priority = 1}
           P == {Place(ask, mix, i) : i \in W}
<1>2. W # {}
  <2>1. PICK s \in Lagging(ask) : TRUE
    OBVIOUS
  <2>2. s \in ask.unfinished /\ Eligible(ask, s, <<>>) # {}
    BY <2>1 DEF Lagging
  <2>3. PICK i \in DOMAIN mix : mix[i].kind = s /\ mix[i].priority = 1
    BY <2>2 DEF Kept
  <2>4. QED
    BY <2>1, <2>3
<1>3. P \in SUBSET Nat /\ P # {}
  <2>1. \A i \in DOMAIN mix : Place(ask, mix, i) \in DOMAIN mix
    BY <1>1, SortedMix
  <2>2. DOMAIN mix \subseteq Nat
    BY <1>1, MixTypes
  <2>3. QED
    BY <1>2, <2>1, <2>2
<1>4. PICK w \in W : \A i \in W : Place(ask, mix, w) <= Place(ask, mix, i)
  <2> HIDE DEF P, W
  <2>1. PICK n \in P : \A k \in P : n <= k
    BY <1>3, LeastNumber
  <2>2. QED
    BY <2>1 DEF P
<1>5. ASSUME NEW i \in W PROVE ~SortsBefore(ask, mix, i, w)
  <2> DEFINE R == Sorting(ask, mix)
             S == DOMAIN mix
  <2>1. /\ Ordered(R, S) /\ IsFiniteSet(S)
        /\ \A j \in S : Place(ask, mix, j) = RankIn(R, S, j) + 1
        /\ i \in S /\ w \in S
    BY <1>1, SortingOrders
  <2>2. SUFFICES ASSUME <<i, w>> \in R PROVE FALSE
    <3>1. <<i, w>> \in S \X S /\ <<i, w>>[1] = i /\ <<i, w>>[2] = w
      BY <2>1, PairIn
    <3>2. QED
      BY <3>1 DEF Sorting
  <2> HIDE DEF R, S
  <2>3. RankIn(R, S, i) < RankIn(R, S, w) /\ RankIn(R, S, i) \in Nat /\ RankIn(R, S, w) \in Nat
    BY <2>1, <2>2, RanksGrow, RanksCount
  <2>4. QED
    BY <1>4, <2>1, <2>3
<1>6. w \in DOMAIN mix /\ mix[w].kind \in Lagging(ask) /\ mix[w].priority = 1
  BY <1>4
<1>7. Lagging(ask) \subseteq MixSkills /\ "vocab_review" \notin MixSkills
  BY FourSkills DEF Lagging, WeakestSkills
<1>8. SortKey(ask, mix, w) >= 40 /\ SortKey(ask, mix, w) \in Nat
  BY <1>6, <1>7, WeightIs DEF SortKey, Lagging
<1>9. ASSUME NEW j \in DOMAIN mix, SortsBefore(ask, mix, j, w)
      PROVE  j = 1 \/ (mix[j].priority = 1 /\ mix[j].kind = "speaking")
  <2>1. mix[j].priority \in {0, 1}
    <3>1. mix[j].priority \in {0, 1, 2}
      BY <1>1, MixItems
    <3>2. QED
      BY <1>6, <1>9, <3>1 DEF SortsBefore
  <2>2. CASE mix[j].priority = 0
    <3>1. mix[j] = Review
      BY <1>1, <2>2, MixItems
    <3>2. QED
      BY <1>1, <3>1 DEF Sound
  <2>3. CASE mix[j].priority = 1
    <3> DEFINE s == mix[j].kind
    <3>1. s \in MixSkills /\ mix[j] # Review /\ s # "vocab_review"
      BY <1>1, <2>3, MixItems
    <3>2. s \in ask.unfinished
      BY <2>3 DEF Kept
    <3>3. Eligible(ask, s, <<>>) # {}
      <4>1. mix[j].id \in Permitted(ask) /\ Candidates[mix[j].id].skill = s
        BY <1>1, <3>1, MixItems
      <4>2. QED
        BY <4>1 DEF Permitted, Eligible, Ids
    <3>4. s \notin Lagging(ask)
      BY <1>5, <1>9, <2>3
    <3>5. s \notin WeakestSkills(ask)
      BY <3>2, <3>3, <3>4 DEF Lagging
    <3>6. SortKey(ask, mix, j) = Weight(ask, s) /\ Weight(ask, s) \in Nat
      BY <3>1, WeightIs DEF SortKey
    <3>7. Weight(ask, s) >= 40
      BY <1>6, <1>8, <1>9, <2>3, <3>6 DEF SortsBefore
    <3>8. s = "speaking"
      BY <3>1, <3>5, <3>6, <3>7, WeightIs
    <3>9. QED
      BY <2>3, <3>8
  <2>4. QED
    BY <2>1, <2>2, <2>3
<1> DEFINE J == {j \in DOMAIN mix : SortsBefore(ask, mix, j, w)}
<1>10. \E k : J \subseteq {1, k}
  <2>1. CASE \E k \in J : k # 1
    <3>1. PICK k \in J : k # 1
      BY <2>1
    <3>2. mix[k].priority = 1 /\ mix[k].kind = "speaking" /\ k \in DOMAIN mix
      BY <1>9, <3>1
    <3>3. \A j \in J : j = 1 \/ j = k
      BY <1>9, <3>2 DEF Kept
    <3>4. QED
      BY <3>3
  <2>2. CASE ~\E k \in J : k # 1
    BY <2>2
  <2>3. QED
    BY <2>1, <2>2
<1> HIDE DEF J
<1>11. Cardinality(J) \in Nat /\ Cardinality(J) <= 2
  <2>1. PICK k : J \subseteq {1, k}
    BY <1>10
  <2>2. IsFiniteSet({1}) /\ Cardinality({1}) = 1
    BY FS_Singleton
  <2>3. IsFiniteSet({1} \cup {k}) /\ Cardinality({1} \cup {k}) \in {1, 2}
    BY <2>2, FS_AddElement
  <2>4. J \in SUBSET ({1} \cup {k})
    BY <2>1
  <2>5. Cardinality(J) <= Cardinality({1} \cup {k}) /\ IsFiniteSet(J)
    BY <2>3, <2>4, FS_Subset
  <2>6. Cardinality(J) \in Nat
    BY <2>5, FS_CardinalityType
  <2>7. QED
    BY <2>3, <2>5, <2>6
<1>12. Place(ask, mix, w) <= 3
  <2>1. Place(ask, mix, w) = Cardinality(J) + 1
    BY DEF Place, J
  <2>2. QED
    BY <1>11, <2>1
<1>13. QED
  BY <1>6, <1>12

LEMMA TrimmedMix ==
    ASSUME NEW X, NEW mix \in Seq(X), Len(mix) <= MaxItems, NEW m, m = Trimmed(mix)
    PROVE  /\ m \in Seq(X) /\ Len(m) <= Len(mix) /\ DOMAIN m = 1 .. Len(m)
           /\ \A i \in DOMAIN m : i \in DOMAIN mix /\ m[i] = mix[i]
           /\ \A i \in DOMAIN mix : i <= 3 => i \in DOMAIN m
           /\ Len(m) > MinItems => Minutes(m) <= Available
<1>1. Len(mix) \in Nat /\ DOMAIN mix = 1 .. Len(mix) /\ MinItems = 3 /\ MaxItems = 5
      /\ \A i \in DOMAIN mix : mix[i] \in X
  BY DEF MinItems, MaxItems
<1>2. CASE Len(mix) <= MinItems
  <2>1. m = mix
    BY <1>2 DEF Trimmed
  <2>2. QED
    BY <1>1, <1>2, <2>1
<1>3. CASE ~(Len(mix) <= MinItems)
  <2> DEFINE fits == {n \in MinItems .. Len(mix) :
                        n = MinItems \/ Minutes(SubSeq(mix, 1, n)) <= Available}
             last == CHOOSE n \in fits : \A k \in fits : k <= n
  <2>1. m = SubSeq(mix, 1, last)
    BY <1>3 DEF Trimmed
  <2>2. fits \in SUBSET (3 .. 5) /\ 3 \in fits
    BY <1>1, <1>3
  <2>3. \E n \in fits : \A k \in fits : k <= n
    <3> HIDE DEF fits
    <3>1. CASE 5 \in fits
      BY <2>2, <3>1
    <3>2. CASE 5 \notin fits /\ 4 \in fits
      <4>1. \A k \in fits : k <= 4
        BY <2>2, <3>2
      <4>2. QED
        BY <3>2, <4>1
    <3>3. CASE 5 \notin fits /\ 4 \notin fits
      <4>1. \A k \in fits : k <= 3
        BY <2>2, <3>3
      <4>2. QED
        BY <2>2, <4>1
    <3>4. QED
      BY <3>1, <3>2, <3>3
  <2>4. last \in fits
    <3> HIDE DEF fits
    <3>1. QED
      BY <2>3
  <2>5. /\ last \in 3 .. Len(mix)
        /\ last > MinItems => Minutes(m) <= Available
    <3> HIDE DEF last
    <3>1. QED
      BY <1>1, <2>1, <2>4
  <2> HIDE DEF last, fits
  <2>6. /\ m \in Seq(X) /\ Len(m) = last /\ DOMAIN m = 1 .. last
        /\ \A i \in 1 .. last : m[i] = mix[i]
    BY <1>1, <2>1, <2>5
  <2>7. QED
    BY <1>1, <2>5, <2>6
<1>4. QED
  BY <1>2, <1>3

\* Every mix that some seed yields serves the learner.
LEMMA MixServes ==
    ASSUME NEW ask \in Ask, NEW overdue, NEW mix \in Mixes(ask, overdue)
    PROVE  /\ Feasible(ask, mix) /\ ServesWeakest(ask, mix)
           /\ overdue <=> (mix # <<>> /\ Head(mix) = Review)
<1>1. PICK m : /\ m \in UNION {Varied(ask, f) : f \in
                           UNION {Filled(ask, b) : b \in WithBlocks(ask, overdue)}}
               /\ mix = Trimmed(Sorted(ask, m))
  BY DEF Mixes
<1>2. PICK b \in WithBlocks(ask, overdue) : \E f \in Filled(ask, b) : m \in Varied(ask, f)
  BY <1>1
<1>3. Kept(ask, overdue, m)
  <2>1. PICK f \in Filled(ask, b) : m \in Varied(ask, f)
    BY <1>2
  <2>2. Blocks(ask, overdue, 4, b)
    BY BlocksBuilt
  <2>3. Planned(ask, overdue, f) /\ Mixed(f)
    BY <2>1, <2>2, FilledBuilt
  <2>4. QED
    BY <2>1, <2>3, VariedKept
<1> DEFINE s == Sorted(ask, m)
           X == Given(ask) \cup {Review}
<1>4. /\ Sound(ask, overdue, m) /\ Len(m) <= MaxItems /\ Len(m) \in Nat
      /\ DOMAIN m = 1 .. Len(m)
  <2>1. Sound(ask, overdue, m)
    BY <1>3 DEF Kept
  <2>2. Len(m) \in 0 .. 5 /\ DOMAIN m = 1 .. Len(m)
    BY <2>1, MixTypes
  <2>3. Len(m) \in Nat /\ Len(m) <= 5
    BY <2>2
  <2>4. QED
    BY <2>1, <2>2, <2>3 DEF MaxItems
<1>5. /\ \A i \in DOMAIN m : Place(ask, m, i) \in DOMAIN m /\ s[Place(ask, m, i)] = m[i]
      /\ \A i, j \in DOMAIN m : Place(ask, m, i) = Place(ask, m, j) => i = j
      /\ \A n \in DOMAIN m : \E i \in DOMAIN m : Place(ask, m, i) = n
      /\ s \in Seq(X) /\ Len(s) = Len(m) /\ DOMAIN s = DOMAIN m
  BY <1>4, SortedMix
<1> HIDE DEF s, X
<1>6. mix = Trimmed(s)
  BY <1>1 DEF s
<1>7. /\ mix \in Seq(X) /\ Len(mix) <= Len(s) /\ DOMAIN mix = 1 .. Len(mix)
      /\ \A i \in DOMAIN mix : i \in DOMAIN s /\ mix[i] = s[i]
      /\ \A i \in DOMAIN s : i <= 3 => i \in DOMAIN mix
      /\ Len(mix) > MinItems => Minutes(mix) <= Available
  BY <1>4, <1>5, <1>6, TrimmedMix
<1>8. \A n \in DOMAIN mix : \E i \in DOMAIN m : Place(ask, m, i) = n /\ mix[n] = m[i]
  BY <1>5, <1>7
<1>9. Feasible(ask, mix)
  <2>1. Len(mix) <= MaxItems
    <3>1. Len(mix) \in Nat /\ MaxItems \in Nat
      BY <1>7 DEF MaxItems
    <3>2. QED
      BY <1>4, <1>5, <1>7, <3>1
  <2>2. \A i, j \in DOMAIN mix : mix[i].id = mix[j].id => i = j
    BY <1>4, <1>8 DEF Sound
  <2>3. ASSUME NEW n \in DOMAIN mix, mix[n].id # None, Candidates[mix[n].id].premium
        PROVE  ask.entitled
    <3>1. PICK i \in DOMAIN m : mix[n] = m[i]
      BY <1>8
    <3>2. m[i] = Review <=> m[i].id = None
      BY <1>4, MixItems
    <3>3. m[i].id \in Permitted(ask)
      BY <1>4, <2>3, <3>1, <3>2, MixItems
    <3>4. QED
      BY <2>3, <3>1, <3>3 DEF Permitted
  <2>4. QED
    BY <1>7, <2>1, <2>2, <2>3 DEF Feasible
<1>10. ServesWeakest(ask, mix)
  <2>1. SUFFICES ASSUME Gap(ask) >= 2, Lagging(ask) # {}
                 PROVE  Kinds(mix) \cap Lagging(ask) # {}
    BY DEF ServesWeakest, Lagging
  <2>2. PICK i \in DOMAIN m : m[i].kind \in Lagging(ask) /\ Place(ask, m, i) <= 3
    BY <1>3, <2>1, WeakestEarly
  <2>3. Place(ask, m, i) \in DOMAIN mix /\ mix[Place(ask, m, i)] = m[i]
    BY <1>5, <1>7, <2>2
  <2>4. QED
    BY <2>2, <2>3 DEF Kinds
<1>11. mix # <<>> => 1 \in DOMAIN mix /\ Head(mix) = mix[1]
  BY <1>7
<1>12. CASE overdue
  <2>1. 1 \in DOMAIN m /\ m[1] = Review /\ Place(ask, m, 1) = 1
    BY <1>4, <1>12, ReviewLeads
  <2>2. 1 \in DOMAIN mix /\ mix[1] = Review
    BY <1>5, <1>7, <2>1
  <2>3. mix # <<>>
    BY <2>2
  <2>4. QED
    BY <1>9, <1>10, <1>11, <1>12, <2>2, <2>3
<1>13. CASE ~overdue
  <2>1. \A i \in DOMAIN m : m[i] # Review
    BY <1>4, <1>13 DEF Sound
  <2>2. \A n \in DOMAIN mix : mix[n] # Review
    BY <1>8, <2>1
  <2>3. QED
    BY <1>9, <1>10, <1>11, <1>13, <2>2
<1>14. QED
  BY <1>12, <1>13

(***************************************************************************)
(* Whatever the seed draws, from any catalogue that offers everybody a     *)
(* content of each skill and two to speak about, today's mix fits the      *)
(* learner's time or is cut to three items, repeats nothing, gives premium *)
(* content to the entitled only, leads with the review exactly when a card *)
(* is due and keeps a block of the weakest skill (generate_daily_mix).     *)
(***************************************************************************)
THEOREM MixIsServed == Spec => []MixServesLearner
<1>1. \A ask \in Asks : ask \in Ask
  BY DailyMixAssumption
<1>2. Serves(TRUE)
  BY <1>1, MixServes DEF Serves
<1>3. Serves(FALSE)
  BY <1>1, MixServes DEF Serves
<1>4. MixServesLearner
  BY <1>2, <1>3 DEF MixServesLearner, ServesWithReview, ServesWithoutReview
<1>5. QED
  BY <1>4, PTL
=============================================================================
