---------------------------- MODULE VoiceSession ----------------------------
(***************************************************************************)
(* One spoken conversation: the WebSocket handler that reads the learner's *)
(* frames, the turn tasks it and the silence watcher start, and the        *)
(* session state they share (api/ws.py, voice/).                           *)
(*                                                                         *)
(* All of them are coroutines of one event loop.  A step runs from one     *)
(* suspension to the next: a frame to receive, a frame to send, a sleep, a *)
(* provider call, a task to wait for.  The bodies of session.lock and of   *)
(* the registry's lock never suspend, so both are always free.             *)
(***************************************************************************)
EXTENDS Naturals, Sequences, FiniteSets, SequencesExt

CONSTANTS
    Turns,      \* bound: turn tasks that exist at once
    Watchers,   \* bound: silence watchers that exist at once
    Reader,     \* the WebSocket handler
    None,       \* no task
    MaxFrames   \* bound: frames the learner sends

ASSUME VoiceAssumption ==
    /\ MaxFrames \in Nat
    /\ Reader \notin Turns
    /\ None \notin Turns \cup Watchers

VARIABLES
    conn,         \* "open", left by the client ("gone"), and what the
                  \* server knows of it ("broken", "closed")
    frames,       \* frames received so far
    reader,       \* where the handler is
    awaited,      \* the turn task the handler waits for
    turn,         \* where each turn task is
    text,         \* whether it was started by a text_input
    ready,        \* turn tasks created and not run yet, in order
    watch,        \* where each silence watcher is
    quiet,        \* silence_timeout has passed since last_audio_at
    state,        \* session.state
    silenceTask,  \* session.silence_task
    turnTask,     \* session.turn_task
    audio,        \* session.audio_bytes, as a set of chunks
    heard,        \* the chunks each turn took to its transcription
    chunks,       \* chunks buffered so far
    history,      \* session.history
    sends,        \* who holds session.send_lock (the head) or waits for it
    onwire,       \* the head's frame is written
    shown         \* the last state_change the client got

vars == <<conn, frames, reader, awaited, turn, text, ready, watch, quiet,
          state, silenceTask, turnTask, audio, heard, chunks, history,
          sends, onwire, shown>>

wire == <<sends, onwire, shown>>
speech == <<audio, heard, chunks, history>>
tasks == <<turn, text, ready, heard>>
client == <<conn, frames>>
hush == <<watch, quiet, silenceTask>>

States == {"idle", "listening", "processing", "speaking"}
Busy == {"processing", "speaking"}

\* A turn from begin_turn to the end of process_turn.
Pipeline ==
    {"join", "send_processing", "stt", "send_user", "llm", "send_ai",
     "send_speaking", "tts", "send_audio", "send_complete", "send_idle"}
Sending ==
    {"send_processing", "send_user", "send_ai", "send_speaking", "send_audio",
     "send_complete", "send_idle", "send_cancelled"}
Ended == {"done", "lost"}
TurnPositions ==
    Pipeline \cup Ended \cup {"new", "interrupted", "send_cancelled"}

WatcherEnding == {"cancelling", "aborting"}
WatcherAlive == {"new", "sleep"} \cup WatcherEnding
WatcherPositions == WatcherAlive \cup {"done"}

\* The handler serves frames until a cancel or a disconnect.
Serving == {"hello", "receive", "send_error", "send_listening"}
Leaving == {"await_turn", "send_idle", "evaluate", "send_summary", "closing",
            "leaving", "joining", "left"}

Running == {t \in Turns : turn[t] \in Pipeline}
LiveTurn(t) == t # None /\ turn[t] \notin Ended

Init ==
    /\ conn = "open" /\ frames = 0
    /\ reader = "hello" /\ awaited = None
    /\ turn = [t \in Turns |-> "done"] /\ text = [t \in Turns |-> FALSE]
    /\ ready = <<>>
    /\ watch = [w \in Watchers |-> "done"] /\ quiet = TRUE
    /\ state = "idle" /\ silenceTask = None /\ turnTask = None
    /\ audio = {} /\ heard = [t \in Turns |-> {}] /\ chunks = 0
    /\ history = <<>>
    /\ sends = <<Reader>> /\ onwire = FALSE
    /\ shown = "none"

-----------------------------------------------------------------------------
(* session.send: FIFO lock, then the socket.                               *)

\* The queue s without x, which is in it at most once.
Without(s, x) ==
    IF \E i \in 1 .. Len(s) : s[i] = x
    THEN RemoveAt(s, CHOOSE i \in 1 .. Len(s) : s[i] = x)
    ELSE s

\* The state a sender's frame announces, or "none".
Announces(p) ==
    LET at == IF p = Reader THEN reader ELSE turn[p]
    IN  CASE at \in {"hello", "send_idle", "send_cancelled"} -> "idle"
          [] at = "send_listening" -> "listening"
          [] at = "send_processing" -> "processing"
          [] at = "send_speaking" -> "speaking"
          [] OTHER -> "none"

\* The head's frame goes out; the head itself goes on later.
Transmit ==
    /\ sends # <<>> /\ ~onwire /\ conn = "open"
    /\ onwire' = TRUE
    /\ shown' = IF Announces(Head(sends)) = "none" THEN shown
                ELSE Announces(Head(sends))
    /\ UNCHANGED <<client, reader, awaited, tasks, hush, state, turnTask,
                   audio, chunks, history, sends>>

Send(p) == sends' = Append(sends, p) /\ UNCHANGED <<onwire, shown>>

\* p's send returns: p gives the lock up, or sends its next frame.
Sent(p) == sends # <<>> /\ Head(sends) = p /\ onwire /\ onwire' = FALSE
Release == sends' = Tail(sends) /\ UNCHANGED shown
SendNext(p) == sends' = Append(Tail(sends), p) /\ UNCHANGED shown

\* (bug) a send that raises keeps the lock
RaisedHoldingLock(p) ==
    /\ sends # <<>> /\ Head(sends) = p /\ conn # "open"
    /\ onwire' = FALSE
    /\ conn' = IF conn = "gone" THEN "broken" ELSE conn
    /\ UNCHANGED <<sends, shown, frames>>

\* p's send raises: WebSocketDisconnect the first time, RuntimeError after.
Raised(p) ==
    /\ sends # <<>> /\ Head(sends) = p /\ conn # "open"
    /\ sends' = Tail(sends) /\ onwire' = FALSE
    /\ conn' = IF conn = "gone" THEN "broken" ELSE conn
    /\ UNCHANGED <<shown, frames>>

-----------------------------------------------------------------------------
(* A turn task: _run_turn and the generator process_turn it drives.        *)

FreeTurns == {t \in Turns : turn[t] \in Ended /\ t \notin {turnTask, awaited}}
FreeTurn == CHOOSE t \in FreeTurns : TRUE

\* _start_turn: the session keeps the handle of the newest task only.
StartTurn(isText) ==
    /\ FreeTurns # {}
    /\ turn' = [turn EXCEPT ![FreeTurn] = "new"]
    /\ text' = [text EXCEPT ![FreeTurn] = isText]
    /\ ready' = Append(ready, FreeTurn)
    /\ turnTask' = FreeTurn

At(t, from, to) == turn[t] = from /\ turn' = [turn EXCEPT ![t] = to]

Entry(role, S) == [role |-> role, chunks |-> S]
Say(role, S) == history' = Append(history, Entry(role, S))

\* (bug) a turn that is not spoken yet does not keep the next one out
MayBeginUnlessSpeaking == state # "speaking"

\* begin_turn's test
MayBegin == state \notin Busy

\* The task's first step, when a turn runs already.
RefuseTurn(t) ==
    /\ ready # <<>> /\ Head(ready) = t
    /\ ~MayBegin
    /\ At(t, "new", "done")
    /\ ready' = Tail(ready)
    /\ UNCHANGED <<client, reader, awaited, text, heard, hush, state, turnTask,
                   audio, chunks, history, wire>>

\* watcher.cancel(): a task that never ran does not run its finally either.
CancelledWatch(w) ==
    CASE watch[w] = "new" -> "aborting"
      [] watch[w] = "sleep" -> "cancelling"
      [] OTHER -> watch[w]
CancelWatcher ==
    watch' = IF silenceTask = None THEN watch
             ELSE [watch EXCEPT ![silenceTask] = CancelledWatch(silenceTask)]

\* (bug) the handle of the cancelled watcher is left for its finally to clear
TakeWatcherNoReset == CancelWatcher /\ UNCHANGED silenceTask

TakeWatcher == CancelWatcher /\ silenceTask' = None

\* begin_turn: take the state, then stop the watcher and wait for its end.
BeginTurn(t) ==
    /\ ready # <<>> /\ Head(ready) = t
    /\ MayBegin
    /\ state' = "processing"
    /\ ready' = Tail(ready)
    /\ TakeWatcher
    /\ IF silenceTask # None /\ watch[silenceTask] \in WatcherAlive
       THEN At(t, "new", "join") /\ UNCHANGED wire
       ELSE At(t, "new", "send_processing") /\ Send(t)
    /\ UNCHANGED <<client, reader, awaited, text, heard, quiet, turnTask,
                   audio, chunks, history>>

NoWatcherEnding == \A w \in Watchers : watch[w] \notin WatcherEnding

WatcherJoined(t) ==
    /\ NoWatcherEnding
    /\ At(t, "join", "send_processing")
    /\ Send(t)
    /\ UNCHANGED <<client, reader, awaited, text, ready, heard, hush, state,
                   turnTask, audio, chunks, history>>

\* (bug) the buffer is not cleared
CopyAudio(t) ==
    heard' = [heard EXCEPT ![t] = audio] /\ UNCHANGED audio

TakeAudio(t) ==
    heard' = [heard EXCEPT ![t] = audio] /\ audio' = {}

\* The state is applied after its frame is out, then the next step begins:
\* a text turn quotes its text, an audio turn takes the buffered audio.
SentProcessing(t) ==
    /\ Sent(t)
    /\ state' = "processing"
    /\ IF text[t]
       THEN /\ At(t, "send_processing", "send_user")
            /\ Say("user", {})
            /\ SendNext(t)
            /\ UNCHANGED <<audio, heard>>
       ELSE /\ At(t, "send_processing", "stt")
            /\ TakeAudio(t)
            /\ Release
            /\ UNCHANGED history
    /\ UNCHANGED <<client, reader, awaited, text, ready, hush, turnTask,
                   chunks>>

Transcribed(t) ==
    /\ At(t, "stt", "send_user")
    /\ Say("user", heard[t])
    /\ heard' = [heard EXCEPT ![t] = {}]
    /\ Send(t)
    /\ UNCHANGED <<client, reader, awaited, text, ready, hush, state, turnTask,
                   audio, chunks>>

SentUser(t) ==
    /\ Sent(t) /\ At(t, "send_user", "llm")
    /\ Release
    /\ UNCHANGED <<client, reader, awaited, text, ready, hush, state, turnTask,
                   speech>>

Replied(t) ==
    /\ At(t, "llm", "send_ai")
    /\ Say("assistant", {})
    /\ Send(t)
    /\ UNCHANGED <<client, reader, awaited, text, ready, heard, hush, state,
                   turnTask, audio, chunks>>

SentReply(t) ==
    /\ Sent(t) /\ At(t, "send_ai", "send_speaking")
    /\ SendNext(t)
    /\ UNCHANGED <<client, reader, awaited, text, ready, hush, state, turnTask,
                   speech>>

SentSpeaking(t) ==
    /\ Sent(t) /\ At(t, "send_speaking", "tts")
    /\ state' = "speaking"
    /\ Release
    /\ UNCHANGED <<client, reader, awaited, text, ready, hush, turnTask,
                   speech>>

Synthesized(t) ==
    /\ At(t, "tts", "send_audio")
    /\ Send(t)
    /\ UNCHANGED <<client, reader, awaited, text, ready, hush, state, turnTask,
                   speech>>

SentAudio(t) ==
    /\ Sent(t)
    /\ \/ At(t, "send_audio", "send_complete")
       \/ At(t, "send_complete", "send_idle")
    /\ SendNext(t)
    /\ UNCHANGED <<client, reader, awaited, text, ready, hush, state, turnTask,
                   speech>>

\* (bug) the last state is announced and not applied
SentIdleUnapplied(t) ==
    /\ Sent(t)
    /\ At(t, "send_idle", "done") \/ At(t, "send_cancelled", "done")
    /\ turnTask' = None
    /\ Release
    /\ UNCHANGED <<client, reader, awaited, text, ready, hush, state, speech>>

\* The end of the turn, and of a cancelled one (the except clause); the
\* finally clears the handle, whichever task it names.
SentIdle(t) ==
    /\ Sent(t)
    /\ At(t, "send_idle", "done") \/ At(t, "send_cancelled", "done")
    /\ state' = "idle"
    /\ turnTask' = None
    /\ Release
    /\ UNCHANGED <<client, reader, awaited, text, ready, hush, speech>>

\* A CancelledError is thrown at the turn's suspension.
Interrupted(t) ==
    /\ At(t, "interrupted", "send_cancelled")
    /\ Send(t)
    /\ UNCHANGED <<client, reader, awaited, text, ready, hush, state, turnTask,
                   speech>>

\* A send fails: RuntimeError ends the turn (and is suppressed while it says
\* idle), WebSocketDisconnect leaves the task.
TurnSendFails(t) ==
    /\ turn[t] \in Sending
    /\ Raised(t)
    /\ turnTask' = None
    /\ IF conn = "gone"
       THEN turn' = [turn EXCEPT ![t] = "lost"] /\ UNCHANGED state
       ELSE /\ turn' = [turn EXCEPT ![t] = "done"]
            /\ state' = IF turn[t] = "send_cancelled" THEN "idle" ELSE state
    /\ UNCHANGED <<reader, awaited, text, ready, hush, speech>>

TurnStep(t) ==
    \/ RefuseTurn(t) \/ BeginTurn(t) \/ WatcherJoined(t) \/ SentProcessing(t)
    \/ Transcribed(t) \/ SentUser(t) \/ Replied(t) \/ SentReply(t)
    \/ SentSpeaking(t) \/ Synthesized(t) \/ SentAudio(t) \/ SentIdle(t)
    \/ Interrupted(t) \/ TurnSendFails(t)

-----------------------------------------------------------------------------
(* A silence watcher: _watch_silence.                                      *)

FreeWatchers == {w \in Watchers : watch[w] \notin WatcherAlive}
FreeWatcher == CHOOSE w \in FreeWatchers : TRUE

\* silence_timeout passes without audio.
FallQuiet ==
    /\ state = "listening" /\ ~quiet
    /\ quiet' = TRUE
    /\ UNCHANGED <<client, reader, awaited, tasks, watch, silenceTask, state,
                   turnTask, audio, chunks, history, wire>>

WatchAt(w, from, to) == watch[w] \in from /\ watch' = [watch EXCEPT ![w] = to]

WatcherRuns(w) ==
    /\ WatchAt(w, {"new"}, "sleep")
    /\ UNCHANGED <<client, reader, awaited, tasks, quiet, silenceTask, state,
                   turnTask, audio, chunks, history, wire>>

\* It returns, or is cancelled: the finally clears the handle.
WatcherEnds(w) ==
    /\ \/ state # "listening" /\ WatchAt(w, {"sleep"}, "done")
       \/ WatchAt(w, {"cancelling"}, "done")
    /\ silenceTask' = None
    /\ UNCHANGED <<client, reader, awaited, tasks, quiet, state, turnTask,
                   audio, chunks, history, wire>>

WatcherAborts(w) ==
    /\ WatchAt(w, {"aborting"}, "done")
    /\ UNCHANGED <<client, reader, awaited, tasks, quiet, silenceTask, state,
                   turnTask, audio, chunks, history, wire>>

\* It starts a turn.  (The handler returns None, which `await` rejects: the
\* watcher ends with a TypeError that nobody retrieves.)
WatcherFires(w) ==
    /\ state = "listening" /\ quiet
    /\ WatchAt(w, {"sleep"}, "done")
    /\ StartTurn(FALSE)
    /\ silenceTask' = None
    /\ UNCHANGED <<client, reader, awaited, heard, quiet, state,
                   audio, chunks, history, wire>>

WatcherStep(w) ==
    WatcherRuns(w) \/ WatcherEnds(w) \/ WatcherAborts(w) \/ WatcherFires(w)

-----------------------------------------------------------------------------
(* The handler: voice_session.                                             *)

Goto(from, to) == reader = from /\ reader' = to

\* A buffered frame is still read after the client left.  Frames that arrived
\* together are read before the turns they start run; but the loop is a queue,
\* so once another turn has ended (and cleared turn_task) the waiting ones run
\* before the reader goes on.
Receive ==
    /\ reader = "receive" /\ conn \in {"open", "gone"}
    /\ turnTask = None => ready = <<>>
    /\ frames < MaxFrames /\ frames' = frames + 1
    /\ UNCHANGED conn

\* Not JSON, not of the protocol, or of another session.
ReceiveInvalid ==
    /\ Receive
    /\ reader' = "send_error"
    /\ Send(Reader)
    /\ UNCHANGED <<awaited, tasks, hush, state, turnTask, audio, chunks,
                   history>>

\* Audio during a turn is refused (mark_audio returns False).
ReceiveAudioBusy ==
    /\ Receive
    /\ state \in Busy
    /\ reader' = "send_error"
    /\ Send(Reader)
    /\ UNCHANGED <<awaited, tasks, hush, state, turnTask, audio, chunks,
                   history>>

\* (bug) a chunk is buffered by mark_audio and by its caller
BufferChunkTwice(decodes) ==
    IF decodes
    THEN audio' = audio \cup {chunks + 1, chunks + 2} /\ chunks' = chunks + 2
    ELSE UNCHANGED <<audio, chunks>>

\* A chunk whose base64 does not decode is not buffered.
BufferChunk(decodes) ==
    IF decodes THEN audio' = audio \cup {chunks + 1} /\ chunks' = chunks + 1
    ELSE UNCHANGED <<audio, chunks>>

\* mark_audio: listen, watched.  The first chunk waits for the frame that
\* announces it.
ReceiveAudio ==
    /\ Receive
    /\ state \notin Busy
    /\ state' = "listening"
    /\ quiet' = FALSE
    /\ IF silenceTask = None
       THEN /\ FreeWatchers # {}
            /\ watch' = [watch EXCEPT ![FreeWatcher] = "new"]
            /\ silenceTask' = FreeWatcher
       ELSE UNCHANGED <<watch, silenceTask>>
    /\ IF state = "listening"
       THEN /\ \E decodes \in BOOLEAN : BufferChunk(decodes)
            /\ UNCHANGED <<reader, wire>>
       ELSE /\ reader' = "send_listening"
            /\ Send(Reader)
            /\ UNCHANGED <<audio, chunks>>
    /\ UNCHANGED <<awaited, tasks, turnTask, history>>

ReceiveTurn ==
    /\ Receive
    /\ \E isText \in BOOLEAN : StartTurn(isText)
    /\ UNCHANGED <<reader, awaited, heard, hush, state, audio, chunks, history,
                   wire>>

\* task.cancel().  A turn that waits for the watcher swallows it.
CancelledTurn(t) ==
    CASE turn[t] = "new" -> "done"
      [] turn[t] \in Pipeline \ {"join"} -> "interrupted"
      [] OTHER -> turn[t]
CancelTurn(t) ==
    /\ turn' = [turn EXCEPT ![t] = CancelledTurn(t)]
    /\ ready' = Without(ready, t)
    /\ sends' = Without(sends, t)
    /\ onwire' = (onwire /\ Head(sends) # t)
    /\ UNCHANGED shown

\* _cancel_turn looks at the newest task.
ReceiveCancel ==
    /\ Receive
    /\ IF LiveTurn(turnTask)
       THEN /\ CancelTurn(turnTask)
            /\ awaited' = turnTask
            /\ reader' = "await_turn"
       ELSE /\ reader' = "send_idle"
            /\ Send(Reader)
            /\ UNCHANGED <<turn, ready, awaited>>
    /\ UNCHANGED <<text, heard, hush, state, turnTask, audio, chunks, history>>

\* receive_text raises.
ReceiveFails ==
    /\ conn \in {"gone", "broken"}
    /\ Goto("receive", "leaving")
    /\ UNCHANGED <<client, awaited, tasks, hush, state, turnTask, audio, chunks,
                   history, wire>>

ReaderSent ==
    /\ Sent(Reader)
    /\ Goto("hello", "receive") \/ Goto("send_error", "receive")
    /\ Release
    /\ UNCHANGED <<client, awaited, tasks, hush, state, turnTask, audio, chunks,
                   history>>

SentListening ==
    /\ Sent(Reader)
    /\ Goto("send_listening", "receive")
    /\ \E decodes \in BOOLEAN : BufferChunk(decodes)
    /\ Release
    /\ UNCHANGED <<client, awaited, tasks, hush, state, turnTask, history>>

\* _send_session_summary evaluates a conversation that has a history.
Summarize == reader' = IF history = <<>> THEN "closing" ELSE "evaluate"

\* The cancelled task has ended, with CancelledError or without; a
\* WebSocketDisconnect of it ends the handler.
TurnAwaited ==
    /\ reader = "await_turn" /\ turn[awaited] \in Ended
    /\ IF turn[awaited] = "lost" THEN reader' = "leaving" ELSE Summarize
    /\ awaited' = None
    /\ UNCHANGED <<client, tasks, hush, state, turnTask, audio, chunks, history,
                   wire>>

CancelSentIdle ==
    /\ Sent(Reader)
    /\ reader = "send_idle"
    /\ state' = "idle"
    /\ Summarize
    /\ Release
    /\ UNCHANGED <<client, awaited, tasks, hush, turnTask, audio, chunks,
                   history>>

Evaluated ==
    /\ Goto("evaluate", "send_summary")
    /\ Send(Reader)
    /\ UNCHANGED <<client, awaited, tasks, hush, state, turnTask, audio, chunks,
                   history>>

SentSummary ==
    /\ Sent(Reader)
    /\ Goto("send_summary", "closing")
    /\ Release
    /\ UNCHANGED <<client, awaited, tasks, hush, state, turnTask, audio, chunks,
                   history>>

\* Only the summary's RuntimeError is suppressed.
ReaderSendFails ==
    /\ Raised(Reader)
    /\ reader' = IF reader = "send_summary" /\ conn # "gone" THEN "closing"
                 ELSE "leaving"
    /\ UNCHANGED <<awaited, tasks, hush, state, turnTask, audio, chunks,
                   history>>

Close ==
    /\ Goto("closing", "leaving")
    /\ conn' = CASE conn = "open" -> "closed"
                 [] conn = "gone" -> "broken"
                 [] OTHER -> conn
    /\ UNCHANGED <<frames, awaited, tasks, hush, state, turnTask, audio, chunks,
                   history, wire>>

\* unregister: cancel the tasks the session has handles of, and wait for
\* them.
Unregister ==
    /\ Goto("leaving", "joining")
    /\ CancelWatcher
    /\ IF LiveTurn(turnTask)
       THEN CancelTurn(turnTask) /\ awaited' = turnTask
       ELSE UNCHANGED <<turn, ready, awaited, wire>>
    /\ UNCHANGED <<client, text, heard, quiet, silenceTask, state, turnTask,
                   audio, chunks, history>>

Unregistered ==
    /\ Goto("joining", "left")
    /\ ~LiveTurn(awaited) /\ NoWatcherEnding
    /\ awaited' = None
    /\ UNCHANGED <<client, tasks, hush, state, turnTask, audio, chunks, history,
                   wire>>

Frame ==
    ReceiveInvalid \/ ReceiveAudioBusy \/ ReceiveAudio \/ ReceiveTurn
    \/ ReceiveCancel

ReaderStep ==
    \/ ReceiveFails \/ ReaderSent \/ SentListening \/ TurnAwaited
    \/ CancelSentIdle \/ Evaluated \/ SentSummary \/ ReaderSendFails \/ Close
    \/ Unregister \/ Unregistered

\* The connection is lost, and the server has noticed.
ClientLeaves ==
    /\ conn = "open" /\ conn' = "gone"
    /\ UNCHANGED <<frames, reader, awaited, tasks, hush, state, turnTask, audio,
                   chunks, history, wire>>

-----------------------------------------------------------------------------

Next ==
    \/ Frame \/ ClientLeaves
    \/ Transmit \/ FallQuiet \/ ReaderStep
    \/ \E t \in Turns : TurnStep(t)
    \/ \E w \in Watchers : WatcherStep(w)

Spec == Init /\ [][Next]_vars

\* The event loop resumes every ready task, the provider calls return (they
\* have timeouts and degrade) and the client takes its frames or is dropped.
Fairness ==
    /\ WF_vars(Transmit) /\ WF_vars(FallQuiet) /\ WF_vars(ReaderStep)
    /\ \A t \in Turns : WF_vars(TurnStep(t))
    /\ \A w \in Watchers : WF_vars(WatcherStep(w))

FairSpec == Spec /\ Fairness

-----------------------------------------------------------------------------
(* Properties.                                                             *)

EntryRecord == [role : {"user", "assistant"}, chunks : SUBSET (1 .. MaxFrames)]

\* Every variable has its type.
TypeOK ==
    /\ conn \in {"open", "gone", "broken", "closed"}
    /\ frames \in 0 .. MaxFrames
    /\ reader \in Serving \cup Leaving
    /\ awaited \in Turns \cup {None}
    /\ turn \in [Turns -> TurnPositions]
    /\ text \in [Turns -> BOOLEAN]
    /\ ready \in Seq(Turns)
    /\ watch \in [Watchers -> WatcherPositions]
    /\ quiet \in BOOLEAN
    /\ state \in States
    /\ silenceTask \in Watchers \cup {None}
    /\ turnTask \in Turns \cup {None}
    /\ audio \subseteq 1 .. chunks
    /\ heard \in [Turns -> SUBSET (1 .. chunks)]
    /\ chunks \in 0 .. frames
    /\ history \in Seq(EntryRecord)
    /\ sends \in Seq(Turns \cup {Reader})
    /\ onwire \in BOOLEAN
    /\ shown \in States \cup {"none"}

\* One turn runs at a time, whoever asked for it and whatever was cancelled
\* (begin_turn, "exactly one turn"); and while frames are served the session is
\* busy exactly while one runs: audio is neither taken into a running turn nor
\* refused without one.
OneTurnWhenBusy ==
    /\ Cardinality(Running) <= 1
    /\ reader \in Serving =>
        /\ Running # {} => state \in Busy
        /\ state \in Busy /\ conn = "open" => Running # {}

\* A learner who is listened to is watched, or a turn is about to start: no
\* task forgets or overwrites the handle of a live watcher.
ListeningIsWatched ==
    reader \in Serving /\ state = "listening" =>
        \/ ready # <<>>
        \/ silenceTask # None /\ watch[silenceTask] \in {"new", "sleep"}

\* The tutor's prompt alternates: learner, tutor, learner, tutor.
HistoryAlternates ==
    \A i \in 1 .. Len(history) :
        history[i].role = IF i % 2 = 1 THEN "user" ELSE "assistant"

\* Every buffered chunk waits, is being transcribed or was quoted once,
\* though the first chunk of a turn is buffered after a suspension.
NoSpeechLost ==
    reader \in Serving =>
        \A c \in 1 .. chunks :
            Cardinality({t \in Turns : turn[t] = "stt" /\ c \in heard[t]})
              + Cardinality({i \in 1 .. Len(history) : c \in history[i].chunks})
              + (IF c \in audio THEN 1 ELSE 0) = 1

\* When nothing is going on the client shows the state the session is in.
ClientAgreesWhenQuiet ==
    /\ conn = "open" /\ reader = "receive"
    /\ \A t \in Turns : turn[t] \in Ended
    => shown = state

\* Cancel aborts the running turn.  (It does not: the handle it looks at may
\* be that of a turn that was refused, or gone.)
CancelStopsTheTurn ==
    reader \in {"evaluate", "send_summary", "closing"} => Running = {}

\* The conversation in the eyes of the learner, until it ends.
TurnStage ==
    LET at == turn[CHOOSE t \in Running : TRUE]
    IN  CASE at \in {"join", "send_processing", "stt"} -> "transcribing"
          [] at \in {"send_user", "llm"} -> "answering"
          [] at \in {"send_ai", "send_speaking"} -> "answered"
          [] OTHER -> "speaking"

Conversation == INSTANCE TurnTaking WITH
    phase <- IF reader \notin Serving \/ conn # "open" THEN "over"
             ELSE IF state \in Busy THEN TurnStage ELSE state,
    said <- IF reader \notin Serving \/ conn # "open" THEN 0 ELSE Len(history)

\* The session implements the conversation it promises.
ImplementsTurnTaking == Conversation!Spec

\* A handler whose client left, or cancelled, ends: no task waits for another
\* that waits for it, and none for a send that nobody will return from.
HandlerEnds ==
    conn = "gone" \/ reader \in Leaving ~> reader = "left"
=============================================================================
