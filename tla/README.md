# Sonolo-Next: TLA+ specifications and proofs

Sonolo is a language-learning application: an Expo mobile client
(`src/apps/mobile`) in front of a FastAPI service (`src/backend/app`) that keeps
one learner's XP, streak, daily quests, badges, vocabulary cards, practice
evidence and levels in PostgreSQL (SQLite in development and tests), and holds
spoken conversations over a WebSocket. This directory models the parts of it
whose correctness depends on the order in which things happen, model-checks
them with TLC and proves every safety property of the passing runs with TLAPS.

    tlc -config Completion_duplicates.cfg MCCompletion.tla
    tlc -config Voice_session.cfg MCVoiceSession.tla
    tlc -config Voice_client.cfg VoiceClient.tla
    tlc -config Practice_unit.cfg MCPractice.tla
    tlc -config Mastery_levels.cfg MCMastery.tla
    tlc -config Diagnostic_placement.cfg MCDiagnostic.tla
    tlc -config Cards.cfg MCCards.tla
    tlapm CompletionProofs.tla      # and Sums, VoiceProofs, VoiceClientProofs,
                                    # PracticeProofs, MasteryProofs,
                                    # DiagnosticProofs, CardsProofs

## 1. The system

| Component | State | Operations | Talks to |
|---|---|---|---|
| Session completion, quests, gamification (`services/session_service.py`, `quest_service.py`, `gamification_service.py`, `api/sessions.py`, `api/review.py`, `api/quests.py`) | `users` (XP, streak, speaking time), `user_skills`, `sessions`, `daily_quests`, `user_badges`, `analytics_events` | complete a session, answer a review, open the day's quests, upgrade | the database; the evidence component |
| Voice WebSocket (`api/ws.py`, `voice/`) | registry of live sessions; per session: turn-taking state, turn and watcher tasks, audio buffers, history | connect, audio chunk, end turn, text, cancel, disconnect, silence timeout | the mobile client; STT, LLM and TTS providers |
| Practice evidence (`services/evidence_service.py`, `api/learn.py`, `api/listening.py`, `api/pronunciation.py`) | `skill_exercise_attempts`, `user_skill_levels`, `user_unit_progress`, `learning_sessions` | start, submit and late-reject an attempt, revise a writing, record speaking evidence | mastery; content catalogue |
| Unit test and mastery (`services/unit_test_service.py`, `mastery_service.py`) | `unit_test_skill_evidence`, levels | sit a test (24 h cooldown), compute mastery, advance a level | evidence |
| Placement diagnostic (`services/diagnostic_service.py`) | one JSON document per diagnostic | start, answer, skip, complete, first-week correction | levels |
| Spaced repetition (`learning/fsrs.py`, `models/vocabulary.py`) | `vocabulary_cards` | grade a card, list the due ones, materialise the deck | quests |
| Journey, progress, scorecard, daily mix | none of their own | projections | everything above |
| Content catalogue (`services/content_service.py`) | JSON packs, seeded rows | load, validate, upsert | everything above |
| Accounts (`api/auth.py`, `core/security.py`) | `users` | register, login, resolve a token | everything above |
| Mobile client (`hooks/useVoiceSession.ts`, `services/`, `stores/`, `api/client.ts`) | socket, recorder, transcript, stored token and result | hold to talk, end, retry a completion, restore a login | the two APIs |

What makes it hard:

* **Identity maps.** Every request has its own database session. Authentication
  loads the user, the skill row, the cards and the quests into it, and no later
  `SELECT`, the one with `FOR UPDATE` included, refreshes a loaded object. A
  request that waited for the row lock therefore computes from what it read
  before it waited (`gamification_service.py:94-100`).
* **Retries.** A client that got no answer sends its completion again, with the
  same `client_session_id`; both may be in flight.
* **Two databases.** PostgreSQL has row locks, foreign key locks and a deadlock
  detector; SQLite one write lock and no `FOR UPDATE`.
* **Days.** XP, quests and streaks belong to the learner's local date, read
  when the handler starts and used when it commits.
* **Read, await, write.** A practice or test handler reads, waits for a language
  model or an evaluator and then writes what it computed from the reads. No
  version is compared and no row of a learner is locked; what keeps two of
  these handlers apart is a lock on rows of the catalogue (section 2,
  `Practice`). The placement and the cards do without even that.
* **Cooperative tasks.** A voice session is a reader, its turns and a silence
  watcher on one event loop; each `await` lets the others run, and a
  cancellation may arrive at any of them.
* **A screen behind promises.** On the phone, frames, recorder promises and HTTP
  answers arrive while the learner goes on tapping, leaves, or loses the line.

What makes each component correct: for completion, that every completion,
quest and badge pays once and that the counters agree with the stored history;
for the voice session, that at most one turn runs, that cancel and disconnect
stop it, and that listening always ends; for the voice screen, that no
microphone stays on, that the button shows what the server does and that
finishing ends; for practice, that an attempt scores once and that the summaries
computed from earlier reads agree with the attempts; for mastery, that a level
above the placement is backed by stored evidence; for the diagnostic, that a
placement is that of the answers stored with it, and is kept; for cards, that
every answer counts and the pack is whole; for the daily mix, that whatever the
seed draws serves the weakest skill in the time there is.

## 2. Modules

| Module | Models |
|---|---|
| `Completion.tla` | the three handlers that write a learner's rewards, with their transactions |
| `RewardLedger.tla` | what the rewards promise, abstractly |
| `MCCompletion.tla` | small instances: payloads and symmetry |
| `CompletionProofs.tla` | the theorems about `Completion`, and that it implements `RewardLedger` |
| `VoiceSession.tla` | one spoken conversation: the WebSocket handler, its turn tasks, the silence watcher, the send lock |
| `TurnTaking.tla` | what a conversation promises the learner, abstractly |
| `MCVoiceSession.tla` | small instances: tasks as model values |
| `VoiceProofs.tla` | the theorems about `VoiceSession`, and that its steps are those of `TurnTaking` |
| `VoiceClient.tla`, `VoiceClientProofs.tla` | the phone's side of it: hook, socket, recorder, and the completion request; the theorems |
| `Practice.tla` | the activities of one unit: start, submit, replay, rejection, EMA and completion flags |
| `MCPractice.tla`, `PracticeProofs.tla` | a unit with every kind of activity; the theorems |
| `Mastery.tla` | unit tests, weighted mastery, advancement, and the journey and progress views |
| `MCMastery.tla`, `MasteryProofs.tla` | three units, a level with a band test; the theorems |
| `Diagnostic.tla` | the placement diagnostic and its correction |
| `MCDiagnostic.tla`, `DiagnosticProofs.tla` | two skills; the theorems |
| `Cards.tla` | the vocabulary pack and the FSRS state machine of a card |
| `DailyMix.tla` | the mix assembled from the cards and the levels; extends `Cards` |
| `MCCards.tla`, `CardsProofs.tla` | two languages, eight contents, 432 learners; the theorems about `Cards` and `DailyMix` |
| `Sums.tla` | lemmas about finite sums, shared by the proofs of `Completion`, `Mastery` and `CardsProofs` |

`DailyMix` is composed with `Cards`, whose state decides whether the review
leads. `Mastery` and `Practice` divide `finalize_practice_attempt` between
them: how attempts, EMA and flag survive races in the one, what they are worth
in the other. `Mastery` and `Diagnostic` divide the completion and the
correction of the diagnostic: what they do to the levels, under practice and
tests, in the one (`Place`, `Correct`), what they decide from and store in their
document in the other (`Complete`, `Correct`). `RewardLedger` and `TurnTaking`
are abstract specifications that `Completion` and `VoiceSession` implement.

### Completion

A request handler is a process `r` with a position `pc[r]`, a request `op[r]`
and the identity map of its database session `snap[r]`. It goes

    idle --Authenticate--> lock --FirstCompletion/Replay--> ensure
         --QuestsExist | PlaceQuests (--CheckForeignKey)--> settle
         --CommitCompletion | CommitRead | CommitReview--> idle

A review and `GET /quests/today` start at `ensure`. A completion too short to
earn XP goes from `lock` to `settle` (`_create_session_flow` makes no quests
for it). A failed insert goes to `recover` and replays
(`complete_session`, the `IntegrityError` branch). `Fail` ends a handler
anywhere, with a rollback.

| In the model | In the code |
|---|---|
| `account` | the mutable columns of `users`, the number of scores in `user_skills`, the repetitions of the reviewed card |
| `quests`, `sessions`, `badges`, `evidence` | `daily_quests`, `sessions`, `user_badges`, unit speaking evidence |
| `events` | `analytics_events`, as counts and XP sums |
| `holder` | the `FOR UPDATE` lock on the `users` row; SQLite's write lock |
| `share` | `FOR KEY SHARE` locks that the foreign keys of inserted rows take |
| `placing` | quest rows inserted and not committed |
| `Column`, `FlushAccount`, `FlushQuests` | the unit of work: an `UPDATE` of the columns whose value differs from the loaded one, at commit (`autoflush=False`) |

A handler between two of its positions is atomic: it computes on its own loaded
objects, and what it flushes becomes visible with its commit. The steps that
can wait for another request, or whose reads another request can change, are
actions of their own. `CheckForeignKey` is separate from `PlaceQuests` because
PostgreSQL checks foreign keys at the end of the statement, with the rows
already in the unique index; the deadlock needs the moment between them.

A payload is its time window, scenario, whether the learner spoke, duration,
overall score, difficulty and whether the scenario belongs to a unit. Two payloads
are the same session if their window and scenario agree, as in
`_assert_replay_consistent`. The six skill scores are one number of scores
folded in: their weighted averages are arithmetic on real numbers. Transcripts,
texts, time zones and the evaluator's cross-check (which only logs) are left out.

`Overlap` says what the clients of one learner keep in flight. With
`"duplicates"` a client waits for its answers but may have one completion in
flight several times; with `"any"` requests overlap freely. The counters are
promised only under the first: the code's stale identity maps break them under
the second (section 4).

### RewardLedger

Claims (a completed session, a quest of a day) are each paid at most once, and
the total is the sum of what was paid. `Completion` implements it
(`RewardsAreLedger`): the claims are the stored sessions' `session_xp` and the
`quest.xp_awarded` events, the total is `users.total_xp`.

### VoiceSession

The processes are the coroutines of one connection: the handler
(`voice_session`), the turn tasks (`_run_turn` driving `process_turn`) and the
silence watchers (`_watch_silence`). They share one `VoiceSession` object and
one event loop, so a step is what runs between two suspensions: a frame to
receive or send, a sleep, a provider call, a task to wait for. `session.lock`
and the registry's lock guard bodies that never suspend; they are always free
and not modelled.

A turn `t` goes

    new --RefuseTurn--> done
    new --BeginTurn--> (join) --> send_processing --> stt --> send_user --> llm
        --> send_ai --> send_speaking --> tts --> send_audio --> send_complete
        --> send_idle --> done

A text turn skips `stt`. `join` is `begin_turn`'s wait for the watcher it
cancelled. `lost` is a task that ended with `WebSocketDisconnect`, which its
canceller gets from `await task`.

| In the model | In the code |
|---|---|
| `state`, `silenceTask`, `turnTask`, `audio`, `history` | the attributes of `VoiceSession` |
| `sends`, `onwire` | `session.send_lock` with its FIFO waiters; whether the holder's frame is written |
| `ready` | tasks created and not yet run, in the loop's order |
| `conn` | `open`; `gone` when the client left, so that the next use of the socket raises `WebSocketDisconnect`; `broken` and `closed`, where a send raises `RuntimeError` |
| `quiet` | `silence_timeout` has passed since `last_audio_at` |
| `shown` | the last `state_change` frame the client got |

A state is announced first and applied after the send returns, as in the code:
`SentProcessing`, `SentSpeaking` and `SentIdle` write `state` in the step that
follows the frame. Only `begin_turn` and `mark_audio` write it before.

A cancellation (`CancelTurn`) takes the turn out of whatever it waits for: a
task that never ran ends without its `finally`; a running one goes to
`interrupted` and from there through the `except` clause; one that waits in
`begin_turn` for the watcher swallows the cancellation, because the wait
suppresses `CancelledError`, and goes on. A watcher that starts a turn ends
with a `TypeError` (it awaits the handler's `None`); its `finally` runs all the
same.

A created turn may start at any later step, with one restriction in `Receive`:
once the session has no turn task, the created ones run before the handler
reads another frame. The loop's queue is FIFO: the turn whose end cleared the
handle ran after those tasks were queued, and the handler is resumed later
still.

Audio is a set of numbered chunks: a property is about which of them are lost
or heard twice. Texts, corrections, pronunciation marks, the prompt and the
binary framing are left out; the providers answer or degrade to a fallback
within the pipeline, so a provider call is one step that returns.

### TurnTaking

The conversation is idle, listening, transcribing, answering, answered,
speaking, and over when the learner ends it or leaves. Each turn adds the
learner's entry and the tutor's, in this order, and a conversation rests only
when it is idle or over. `Safety` is the part without fairness, `Spec` adds that
a conversation advances. `VoiceSession` implements both
(`ImplementsTurnTaking`): the phase is that of the running turn while the
session is busy, and its state otherwise.

### VoiceClient

The state of `useVoiceSession`, `VoiceSocket` and `AudioRecorderService`, with
the frames on their way in either direction and the server reduced to the
states of its conversation. One handler of an event is one step, up to its
first `await`; the rest runs when the promise settles.

| In the model | In the code |
|---|---|
| `phase`, `screen` | the button's state; the session screen, the feedback screen, or elsewhere |
| `mode`, `held` | `AudioRecorderService._state`, `.recording` |
| `rec` | each native recording: `on`, being stopped by a tap (`stopping`), its file being read (`reading`), being stopped by `cleanup` (`dropping`), its audio `sent` or `lost` |
| `starting` | calls of `start` that await the permission or the native module |
| `finishing`, `attempt`, `posts`, `answers`, `recorded` | `isFinishing`; completions by their `ended_at`, on their way, answered, and stored |

A dropped line takes the frames in flight with it. `ServeCancel` lets a turn
that the server lost sight of (section 4) announce one more state before the
close. A completion may be answered, refused, or given up after fifteen seconds
and stored later. The patient learner waits for what a tap began; the hasty one
taps on. That no recording is on after the screen was left is promised to the
patient one only: a permission dialog answered after leaving starts a recording
that `cleanup` has already looked for.

### Practice

A request waits for the catalogue (`wait`), reads and decides in `Enter`, and
commits in a later step. `Outcome` is what the handler decides: to start, submit,
reject as late, only refresh the flag, or to answer without a change (a replay,
an attempt in flight, a fourth revision, an answer nobody can score).

Nothing in these handlers compares a version or locks a learner's row. What
keeps them apart is `persist_curriculum`: each upserts the catalogue before it
reads, `INSERT .. ON CONFLICT DO UPDATE` locks every existing row it meets, and
PostgreSQL keeps these locks until the transaction ends. `Held` is that lock,
and the mutant without it violates `OneStartedAttempt`. A dialogue's or drill's
replay is looked up before the catalogue, so only clients that wait for their
answer are kept from recording the same take twice (`client`).

`attempts` are the rows of `skill_exercise_attempts`, each with the number of
`learning_sessions` rows that name it; `ema` counts the scores folded in, the
arithmetic is in `Mastery`. A request carries what it read (`folded`,
`complete`), so that a stale read would be written.

### Mastery

A request has a transaction in `req`: what it loaded, what it will write, and
where it is. Four kinds write.

| Actions | In the code |
|---|---|
| `Practise`, `CommitPractice` | an accepted practice submit: the attempt, the EMA, the unit's completion flag, and the level of its skill (`orchestrate_after_practice`) |
| `Sit`, `Grade`, `CommitTest` | `submit_unit_test`: unlocked, not a repetition, cooled down; graded by the evaluator and stamped; then every skill's level |
| `Place`, `CommitPlace` | the completion of the diagnostic sets all levels |
| `Correct`, `CommitCorrect` | `check_placement_correction` raises or lowers one level by one on the last scores, once per skill in the first week |

The first two upsert the catalogue as their first statement and so exclude each
other from there to their commit (`CatalogueFree`; the mutant without it lets
two sittings pass one cooldown). A request that waits for the catalogue has read
nothing but its learner and is not represented. The other two take no lock: they
may come between another handler's read of the skill rows and its commit, and
the other way round; a commit writes the levels it changed, whatever is there by
then. The program reads the four skill rows one after the other, in one step
here. Whatever interrupts a handler, two first inserts of one row included, is
`Fail`.

`placed` and `granted` are history: the highest levels a placement left (two
completions may overlap), and the levels a correction raised a skill from.
`exercises` may belong to no unit, and to no level, when they count at the
learner's own (`LevelOf`). `Answers` is what the fingerprint of a submission
tells apart: the same answers again are answered from the newest sitting
(`Replays`).

Scores are integers, overall scores and the EMA hundredths; the weighted mastery
is compared with its threshold without division (`Masters`). An exact half of
the EMA rounds up here, either way in the program's floats. `Advances` is
`check_level_advancement` as its callers call it, with no band test passed.
`CurrentUnit`, `UnitStatus`, `BandStatus`, `SkillStatus`, `Readiness`,
`DisplayLevel` and `Priority` are the read-only views of `journey_service` and
`progress_service`, as operators over the state.

### Diagnostic

The JSON document of a diagnostic is read, changed and written whole: a request
takes it in one step and commits it in another, with the columns that differ
from the rows as loaded. With `overlap` requests of one learner may be in
flight together, and then answers are lost, a second diagnostic may be started
and a completed document overwritten by one without a placement; a placement
that is stored is nevertheless that of its own answers. `CalculatePlacement` is the
placement table, with items scored 0 or 1.

### Cards

`GET /review/due` of a learner without cards inserts the pack (`Due`, `Insert`,
`CommitPack`), the preferred language first and cut to the pack limit: a card is
in the pack if fewer cards than the limit precede it (`Precedes`: the code's
stable sort, then its slice). The language is the one its request was
authenticated with (`lang`); `Prefer` changes it at any time, and never touches
cards that are there: a learner who changes it later keeps the old pack. The
keys are deterministic, so that an insert of a key that another transaction
inserted waits for it and then fails. Packs of two languages may have no key in
common, and then nothing keeps the second out (section 4); `PackWhole` says what
is true nevertheless, over the languages there have been (`chosen`). Two inserts
that wait for each other's keys are a deadlock, whose victim is a `Fail`.
An answer reads its card and later commits the columns whose value changed
(`Changed`), so two overlapping answers may mix; a client that waits never sees
that. The real-valued stability and difficulty are abstracted to the interval they
yield, any of `Intervals`; a learning step is one or two ticks, a day three, which
keeps their order.

### DailyMix

`Mixes(ask, overdue)` is the set of mixes that some seed of `generate_daily_mix`
yields for a learner: a block of every unfinished skill, drawn fillers, the
replacement in an all-speaking mix, the sort and the trim to the time. A weight
is the base of 25, the lag boost, the goal and the error boost, in hundredths; a
goal outside the table (`None`) boosts nothing.
The loops over the skills (`WithBlocks`) and over the free slots (`Filled`) are
recursive functions of the number of rounds; a round draws any skill (`Drawn`),
since every weight is positive.

`CatalogueAssumption` says what the published catalogue offers everybody,
premium or not: a content of each skill and a second one to speak about. The
shipped catalogue has eight readings and hunts, nine writings, eleven dialogues
and 104 scenarios of that kind (`src/content`). It is needed: the replacement in an
all-speaking mix takes the last speaking item (`daily_mix_service.py:279`). If
slots are lost for want of contents, that item may be the learner's one
speaking block, and the skill that lags then gets nothing.

## 3. Runs

| Run | Instance | Shows |
|---|---|---|
| `completion_duplicates` | 2 requests, 3 keys, 3 payloads, 3 local dates, 2 reviews, both databases; 0.5 million states | XP, speaking time, scores, repetitions, quests, streak and badges agree with the stored history; the rewards implement `RewardLedger`; the unique key is hit only on SQLite |
| `completion_overlap` | 2 requests that overlap freely, 2 keys, 2 payloads, PostgreSQL; fairness | a completion and a badge are awarded once, a stored session is never changed, a replay answers for the right session, the paywall holds, every request is answered |
| `completion_quest_race` | as above, 3 keys | **violated**: `QuestsPaidOnce` |
| `completion_quest_deadlock` | as above | **violated**: `QuestInsertsNeverDeadlock` |
| `voice_session` | 3 turn tasks and 2 watchers at once, 4 frames; fairness; 0.47 million states | one turn at a time, busy exactly while one runs, listening is watched, the transcript alternates, no chunk is lost or heard twice, a quiet client shows the session's state; the session implements `TurnTaking`; a handler whose client left or cancelled ends |
| `voice_cancel` | as above | **violated**: `CancelStopsTheTurn` |
| `voice_client` | 4 taps, 2 recordings, 2 attempts to finish, patient and hasty learners; fairness of the timeout; 1.8 million states | no microphone is on without its handle, the button follows the server, finishing settles with the result that was stored |
| `voice_client_retry` | 2 taps, 1 recording, 2 attempts | **violated**: `RetryIsReplayed` |
| `practice_unit` | 2 handlers, 6 activities of every kind, 2 answers, 5 requests, patient and hasty clients; 0.6 million states | one attempt in flight, evidence recorded once, three revisions, EMA and flags agree with the accepted submits |
| `mastery_levels` | 2 requests, 2 skills, 3 units, 4 levels, 4 exercises, 2 answers, 2 scores, 2 placements, corrections from 2 scores, 4 pieces of evidence, 3 instants; 2.3 million states | levels are earned or granted by a correction, sittings spaced, `unit_test_passed` agrees with the sittings, the journey is a path and the summaries lie between the extremes |
| `diagnostic_placement` | 2 handlers, 2 skills of 2 items, 6 overlapping or 8 single requests; 0.5 million states | a placement is that of its answers; it is kept, and corrected once |
| `cards` | 2 handlers, 3 cards of 2 languages that may change, packs of 1 to 3, 5 requests; 432 learners of the mix; 2.7 million states | packs are whole, answers count, every drawn mix fits and serves the weakest skill |

Bounds of `Completion`. Two requests are what the races between two handlers
need; a third adds waiting, not a new kind of race. Three keys let `session_2`
reach its target and be passed. Three local dates give a run of three (the
`streak_3` badge and the XP bonus), a gap and a request that straddles
midnight. `VocabTarget` is 2 instead of 10 and `BadgeXp` 100 instead of 500, so
that both thresholds are crossed; the definitions take them as constants. The
payloads are one that earns, the same session without a user turn, one below
the 15 seconds, and one whose scenario does not exist. `streak_7` is out of
reach of three dates.

Bounds of `VoiceSession`. Four frames give every pair of turn requests with
audio before or between them and a cancel after; three turn slots hold a
running turn, a refused one and the one silence starts; two watchers let one be
started beside another that lives or ends, which the code excludes. A frame
that would need more slots is not received; with four frames the slots are
enough except while three turns are pending. The handler's registration and the
prompt load before `hello` are not in this module (section 6).

Bounds of `VoiceClient`. Four taps start and stop a recording twice, or stop one,
interrupt the tutor and start again; two recordings are what it takes for one to
be lost sight of while another begins. A third attempt to finish would meet the
same two answers as the second.

Bounds of the learning modules. In `Practice`, five requests are a start, two
racing submits and a replay, or the three revisions of a writing with a fourth and
a repeat beside them; one content of each kind, with a timed reading that can
and one that cannot be scored, reaches every branch of `Outcome`. In `Mastery`,
four pieces of evidence complete both skills of one unit and take its test twice,
or once with an exercise for a correction beside it; a second unit's test is
within reach on its own. Two requests are one that holds the catalogue and one
that overwrites its levels, or two that want it; a third would overwrite a
second time. `Sample` is 2 instead of 5, so that a correction is in reach, and a
tick is the cooldown and the window. One placement starts the learner at the
bottom, one in the middle with a skill at the top; `BandTest` closes the third
level. Every exercise of the instance belongs to a unit; that they need not is
left to the theorems.
`ExerciseWindow` is 20 as in the code and never filled: that older exercises drop
out of the mean is not exercised. In `Diagnostic`, two items per
skill give placements 1, 3, 5 and 7, and one below the weakest for a skipped
skill; six overlapping requests are two starts with answers, completions and a
correction; a learner whose requests do
not overlap gets eight, enough for both corrections. In `Cards`, one language has
one card and the other two, so that each limit cuts the pack elsewhere; `MaxNow`
bounds when answers come, not the due dates they set. The 432 asks of the mix
cover level gaps of 0, 1, 2 and more, two goals that weigh different skills and
one that weighs none, and every source of weight.

Fairness of `Completion` (`FairSpec`): a handler that can go on again and again
goes on. The event loop resumes every ready coroutine, and PostgreSQL grants
row locks in queue order; arrivals, failures and the calendar are not fair. A
deadlock is broken by the detector, one of the handler's own fair steps.

Fairness of `VoiceSession`: the event loop resumes every ready coroutine;
provider calls return, since they have timeouts and fall back; a client takes
its frames or the connection is dropped; the silence timeout passes. Frames,
and the client's leaving, are not fair.

Fairness of `VoiceClient`: axios gives a request up after its 15 seconds
(`api/client.ts:87`), so `WF(Timeout)`. Nothing else is fair: neither the
network, nor the server, nor the learner need do anything.

Deadlock checking is off everywhere: a session ends, and clients whose bounded
requests, taps or dates are used up simply stop.

## 4. Findings

* **A quest pays twice.** Two different sessions completed at once both load
  the day's quests at authentication. The second waits for the row lock, but its
  quest objects keep the values they had, so it completes `session_1` again and
  stores and announces its reward again (`quest_service.py:196`; the module
  promises that "completions award XP exactly once"). `total_xp` itself is
  written from the stale value, so one of the two sessions' XP is lost.
* **The quest inserts deadlock.** A completion inserts the day's quests while it
  holds the `users` row; a review or `GET /quests/today` inserts them without.
  Each can wait for the other, and PostgreSQL aborts one
  (`quest_service.py:181`; the module calls the inserts "conflict-safe").
* **A cancel may stop nothing.** `_start_turn` stores the newest task in
  `session.turn_task`, even one that `begin_turn` will refuse, and the `finally`
  of any turn clears it (`ws.py:133`, `ws.py:128`). After a second turn request
  the running turn has no handle: `_cancel_turn` finds a finished task, says
  idle and evaluates the session while the turn goes on writing its history, and
  `unregister` does not stop it either. `_cancel_turn` promises to "abort the
  running turn (if any)".
* **A retried completion is refused.** `finishSession` takes a new `ended_at` on
  every attempt (`useVoiceSession.ts:285`), and the server answers a stored
  session only to a payload with the stored `ended_at`, any other with 409
  (`session_service.py:478`). A completion that was stored and whose answer was
  lost, or came after fifteen seconds, can therefore never be shown: "Please try
  again" (`api/client.ts:226`) is refused every time, though the endpoint is
  "idempotent by client_session_id".

Two more disagreements are plain from the definitions and have no run:

* **A passed test has the cooldown of a failed one.** `submit_unit_test` refuses
  a sitting within 24 hours of the newest one whether that passed or failed
  (`learn.py:510`), and says "Almost there! Review and try again in 24 hours." to
  a learner who passed. The decision log speaks of a "24h fail cooldown"
  (`docs/DECISION_LOG.md:33`, D-035). `CooledDown` and `SittingsSpaced` follow the
  code.
* **Two packs may exceed the cap.** `content_vocabulary_pack_limit` is the
  "maximum vocabulary cards to materialize per user from all packs combined"
  (`core/config.py:94`). Two overlapping first requests with a change of the
  preferred language between them insert two packs, and if these share no card
  both commit (`content_service.py:812`). The shipped packs have 650 English and
  220 French cards and the default cap takes all 870, so the packs then share
  their keys and one request fails; it takes a deployment with a cap of at most
  220.

Four hazards of `PROJECT.json` have no property:

* two connections of one session id at the registry (`ws.py:210`), which is not
  modelled;
* audio or text sent right after the idle frame, before the state is applied, is
  refused as busy (`ws.py:118`): the model does so too, and no document promises
  otherwise;
* the replacement in an all-speaking mix (`daily_mix_service.py:279`) goes last
  and may be trimmed again; nothing in the code promises otherwise;
* a completion locks `users` and then the catalogue, a practice submit the
  catalogue and then, by foreign keys, `users` (`session_service.py:330`).
  The database breaks this deadlock by aborting one, which is a `Fail` of either
  module; the composition of the two is too large for TLC.

## 5. Proofs

Every safety property that a passing run checks is a theorem here, for every
value of the constants that satisfies the assumptions. A type invariant comes
first in each module; the named parts of the inductive invariants are there
because the property alone is not kept by every step.

### Completion

For any number of requests, keys, payloads, dates and either database, with
requests overlapping freely or not:

| Theorem | Property |
|---|---|
| `TypeCorrect` | `TypeOK` |
| `AwardedOnce` | `CompletionsAwardedOnce` |
| `BadgeAwardedOnce` | `BadgesAwardedOnce` |
| `InsertRaceExcluded` | `InsertRaceOnlyWithoutRowLock` |
| `ReplaysAreConsistent` | `ReplayAnswersItsPayload` |
| `StoredSessionsImmutable` | `SessionRowsImmutable` |
| `PaywallHolds` | `PremiumOnlyWhenEntitled` |

The inductive invariant is `Inductive == TypeOK /\ AllWellFormed /\ Disciplined`.
`AllWellFormed` says what a handler in flight has: a request, an identity map,
and quests of its day by the time it settles; types alone are not inductive
because the flush of a handler that had not loaded its quests would store "no
row". `Disciplined` says that on PostgreSQL a completion past its lookup holds
the `users` row, and that what it found under its key is still so: only a
completion stores sessions, and it holds the same lock. From it follow that the
insert race is excluded and that replays are consistent. The "once" theorems
add their own property to it: the event is recorded in the step that stores the
row, and that step is guarded by the row's absence.

For a learner whose requests do not overlap, duplicates of one completion apart
(`ASSUME Overlap = "duplicates"`, as the run `completion_duplicates` has it; the
run `completion_quest_race` shows that they fail without):

| Theorem | Property |
|---|---|
| `XpIsLedger` | `LedgerBalances` |
| `QuestsPayOnce` | `QuestsPaidOnce` |
| `QuestsFollowHistory` | `QuestsMatchHistory` |
| `BadgesAreEarned` | `BadgesMatchHistory` |
| `StreakFollowsHistory` | `StreakMatchesHistory` |
| `CountersFollowHistory` | `CountersMatchHistory` |
| `RewardsImplementLedger` | `RewardsAreLedger`: every step pays one unpaid claim or none |

All rest on `Fresh`: handlers in flight together are duplicates of one completion
(`Alike`), and one that still has something to write holds in its identity map
what is committed (`UpToDate`). This is the fact that stale identity maps break
when requests overlap. With it `StepEffect` states each step by what it does to
the rows: a completion, a review, or nothing but fresh quest rows. The theorems
are then about these three, with one invariant each: `PaidWhenCompleted`,
`QuestCounts`, `Balanced`, `BadgesEarned`, `StreakKept` (the runs of practice
dates up to the last one, `RunsOf`), `CountersKept`, and for the refinement
`LedgerKept`: the total is the sum of what the paid claims were paid.

Assumptions: `CompletionAssumption` (payloads are payloads, the two databases,
bounds are naturals, `None` is nothing else), `NoneIsNoRow` (`None` is no row or
request) and `KeysAssumption` (finitely many session ids, UUIDs, none of which
is a quest's date and code).

### Sums

`Completion` and `Mastery` add up over finite sets with the fold of the
community modules, which takes an operator. `Total(w, S)` is the same recursion
with the summands as a function, so that no lemma has an operator for a
parameter: `TotalExists` and `TotalUnique` (it is defined on every finite set,
by one function), `TotalRemove` (any element may be taken first), and from them
how totals change (`TotalAdd`, `TotalChange`), scale and compare. Induction is
over a *set* of cases: `SubsetsInduction` finds a smallest counterexample by the
well-foundedness of strict inclusion, `LeastNumber` a least natural number, and
`CountUp` shows that the recursive functions over `0 .. n` of `DailyMix` exist.

### VoiceSession

For any number of turn tasks, watchers and frames:

| Theorem | Property |
|---|---|
| `TypeCorrect` | `TypeOK` |
| `OneTurnAtATime` | `OneTurnWhenBusy` |
| `ListeningStaysWatched` | `ListeningIsWatched` |
| `TranscriptAlternates` | `HistoryAlternates` |
| `SpeechIsKept` | `NoSpeechLost` |
| `ClientIsTold` | `ClientAgreesWhenQuiet` |
| `SessionConverses` | `Conversation!Safety`, the safety half of `ImplementsTurnTaking` |

`TypeInv` is `TypeOK` in parts, with one addition: a chunk that waits for the
listening frame has a frame of its own, without which the chunks would not be
bounded by the frames. `TurnInv` is the inductive invariant behind the second
theorem:

* `OneActive`: one turn is past `begin_turn` and not ended, the ones being
  stopped included;
* `ActiveIsBusy`: while one is, the session is busy, or nothing can start any
  more. This is what `begin_turn`'s test relies on;
* `OneWatcher`: the only watcher that may fire is the one the session knows,
  and while the handler serves, one is being stopped only for a turn that waits for
  it. Hence silence cannot start a second turn, and audio cannot start a
  second watcher;
* `LastTurn`, `ReadyQueue`: a cancel that finds no live turn leaves an empty
  queue of created tasks, into which silence can put one last turn. That turn is
  why `ActiveIsBusy` survives the cancel's late `apply_state(IDLE)`;
* `BusyIsRunning`, `StoppingIsLeaving`: a busy session has a turn, and only a
  cancel stops one.

`ListeningStaysWatched` adds `HandleIsLive`: while frames are served, the watcher
the session knows has not ended. `mark_audio` starts no watcher when there is a
handle, so a stale one would leave the learner unwatched; `OneWatcher` says
that no `finally` of another watcher clears the handle meanwhile.

`TranscriptInv` ties the parity of the history to the running turn: it is odd
exactly while a turn has quoted the learner and not answered
(`OddWhileAnswering`). A turn that ends in between leaves it odd for good, which is
harmless only because nothing can begin after it (`UnansweredIsLast`): the
session stays busy on a broken connection, or is leaving with no task created
(`NewestIsKnown`, `StoppingIsLast`).

`SpeechInv` says of every chunk that it is buffered, heard by the turn that is
being transcribed, or quoted by one entry of the history; `OneActive` makes the
hearing turn unique. `WireInv` is about an open connection: the send queue holds
tasks that are at a send, each once, the frame that is out is the head's
(`QueueInv`), and no turn runs that could have announced a state it has not
applied (`ShownInv`). `PhaseFacts` maps the running turn to its stage of the
conversation; `SessionConverses` uses it and `TranscriptInv` step by step.

Assumption: `VoiceAssumption` (the frames are a natural number; the handler and
`None` are no tasks). The steps that change none of the variables in question
share the lemma `OthersMove`, those of a running turn `TurnAdvances`.

### VoiceClient

For any number of taps, recordings and attempts to finish:

| Theorem | Property |
|---|---|
| `ClientTyped` | `TypeOK`, and that no start is awaited which no tap asked for |
| `MicrophoneIsHeld` | `MicrophoneHeld` |
| `ButtonIsServers` | `ButtonFollowsServer` |

`OnlyHeldIsOn` says that a recording that is on is the one the recorder holds;
`PatientAwaits` that for the patient learner no start is awaited while the socket
connects, while the session is being finished, or on another screen.
`NewestIsState` says that the newest frame on its way is the server's state, so
that the button shows it once none is left.
Assumption: `VoiceClientAssumption` (the bounds are naturals).

### Practice

For any unit, any number of handlers and requests, and clients of either kind:

| Theorem | Property |
|---|---|
| `TypeCorrect` | `TypeOK` |
| `NeverTwoInFlight` | `OneStartedAttempt` |
| `RecordedOnce` | `EvidenceOnce` |
| `SummariesNeverStale` | `SummariesFollowSubmits` |
| `RevisionsNeverExceeded` | `RevisionsBounded` |

All rest on one fact, `OneWorker`: one transaction holds the catalogue, so what
it read is still so when it commits. `Inv` says this of attempts in flight
(`WorkStillSo`: the attempt to be inserted does not exist, the one to be
submitted has not ended), `SumInv` of the EMA and the flag (`ReadsStillSo`),
`RevInv` of the newest accepted answer (`Unrepeated`) and the number of
revisions (`InBound`). `OneAsker` is the part of the patient client: it has one
request open for a content, which is what the replay checks that come before the
lock rely on. Assumption: `PracticeAssumption`.

### Mastery

For any curriculum, any weights and any scores:

| Theorem | Property |
|---|---|
| `TypeCorrect` | `TypeOK` |
| `CooldownHolds` | `SittingsSpaced` |
| `PassedIsRebuilt` | `PassedMatchesSittings` |
| `NoLevelUnearned` | `LevelsEarned` |
| `ViewsAreTrue` | `LearnerViews` |

`OneHolder` says that one request holds the catalogue (practice, grading and
test); `StampFits` then carries the cooldown from the check over the grading to
the stamp, since no other sitting can be stored meanwhile. `RiseFits` says what
a request in flight was decided upon: an advance, that the evidence it will
commit earns the level it read; a raise by a correction, that the last scores
were strong; and either, that the levels below the one it read are justified,
down to the placement. The lemmas `AdvanceEarns` and `CorrectEarns` take it from
the guards, `EarnedGrows` and `StrongGrows` say that evidence is never lost,
revisions included, and `CommitEarns` that a commit over another's levels leaves
justified ones. A level may end below the placement it overwrites; `LevelsEarned`
says what is true above it. None of this depends on how mastery is weighted.

`ViewsAreTrue` has two halves. The journey is a path because a passed unit's blocks
are complete (`PassedIsDone`: its test asked for them), so that the first open
unit has only completed ones before it (`CurrentIsFirst`, `JourneyPath`). The
display level is a weighted sum of levels whose weights sum to a hundred, so it lies
between the weakest and the strongest (`LevelsAveraged`, from `TotalScaled` and
`TotalMonotone`).

Assumptions: `MasteryAssumption` (among others, every unit belongs to a level),
`CurriculumAssumption` (a unit comes once in the sequence, bands consist of
units, there are finitely many skills and at least one) and `WeightAssumption`
(the weights, in hundredths, sum to a hundred, as `DISPLAY_WEIGHTS` and the
unit test's do).

### Diagnostic

For any catalogue of items and any number of handlers:

| Theorem | Property |
|---|---|
| `TypeCorrect` | `TypeOK` |
| `PlacementIsFromAnswers` | `PlacementFromAnswers` |
| `PlacementIsKept` | `PlacementKept` |

`Inv` says that an open diagnostic has no placement, and that every document in
flight has none or that of its own answers; this survives any overlap because
the document is written whole. `OneInv` is about learners whose requests do not
overlap: the only request in flight is about the only diagnostic, and what it
is about to commit (`Alone`) leaves each level within one of its placement.
Assumption: `DiagnosticAssumption`; among others, one skill cannot be skipped.

### Cards and DailyMix

For any catalogue, any limit of the pack, any number of handlers, any learner
and any seed:

| Theorem | Property |
|---|---|
| `CardsTyped` | `TypeOK`, and what a handler in flight holds |
| `PackIsWhole` | `PackWhole` |
| `CardsFollowAnswers` | `CardFollowsAnswers` |
| `MixIsServed` | `MixServesLearner` |

`PacksApart` says that the cards there are are whole packs that share none, and
that a request about to commit its pack shares no card with them or with another
such request. That a pack is as large as its limit allows and prefers its
language is a fact about ranks: in a finite strict
order the numbers of elements before each are the numbers from 0 up, each once
(`RanksGrow`, `RanksCount`). `Counted` compares a row with the answers its card
was given, and what an answer in flight read with the row; for the patient
client both are exact.

`MixIsServed` follows the phases of `generate_daily_mix` with one predicate
each: `Blocks` (after n skills, each fillable block is there once), `Planned` and
`Mixed` (drawn items follow the blocks, and an all-speaking mix has drawn some
of its items, so that the replacement takes none of the blocks), `Kept` (what the
sort relies on), `WeakestEarly` (a block of the lagging skill comes third at the
latest: only the review and the speaking block, whose goal and error may raise
it as much as the lag raises the other, can come before it, and the trim leaves
three). The stable sort is a permutation by the same rank argument.
`Mixed` is where `CatalogueAssumption` is needed. Other assumptions:
`CardsAssumption` and `DailyMixAssumption`.

### Only model-checked

* Liveness, which is out of this prover's reach, as is `ENABLED`:
  `EveryRequestAnswered`, `HandlerEnds`, `FinishSettles`, and the fairness half of
  `ImplementsTurnTaking`.
* The four violated properties of section 4, which are no theorems.

`TypeOK` of `Practice`, `Mastery` and `Diagnostic` is in no run: it is proved. No
module declares a recursive operator. The minutes of a mix are a fold that no
proof unfolds: `Feasible` compares them, and the trim chooses by the same
comparison.

## 6. Plan and limits

Worth modelling next: the registry of voice sessions, with the prompt load
between the test and the registration. Worth proving next: for requests that
overlap freely, how far the counters of `Completion` can fall behind the history.

Not modelled, and why:

* the session evaluator and the AI providers: text heuristics and HTTP calls
  without state. They appear as steps that take time and, in `Practice` and
  `Mastery`, may fail;
* the marking of readings, listenings and tests, and FSRS's formulas for
  stability and difficulty: arithmetic on real numbers, of which the models
  keep the result;
* accounts and tokens: one insert under a unique constraint, and a signature;
* the content catalogue's loading and validation, and read-only listings. What
  matters of it for other components, the lock of its upsert and the
  vocabulary pack, is in `Practice` and `Cards`;
* the scorecard and its PDF, and band completion and certificates, which
  nothing calls;
* the mobile client's stores, screens and HTTP client, apart from the voice
  screen: one value each, written whole;
* schema migrations and scripts. The constraints they create are used by the
  models.
